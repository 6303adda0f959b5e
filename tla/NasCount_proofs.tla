-------------------------- MODULE NasCount_proofs --------------------------
(***************************************************************************)
(* Proofs about NasCount for every width of the SQN and of the overflow:   *)
(* the counts stay within their width; without overlapping dispatches the  *)
(* UE's estimate of the downlink COUNT is always right, in a new security  *)
(* context too; without overlapping encoders the AMF accepts every uplink  *)
(* message, and no uplink COUNT is used twice with the same keys.          *)
(***************************************************************************)
EXTENDS NasCount, TLAPS

LEMMA SqnModPositive == SqnMod \in Nat /\ SqnMod > 1
BY ModAssumption, LossAssumption

LEMMA ZeroType == Zero \in Count
BY SqnModPositive, ModAssumption DEF Zero, Count

LEMMA OverflowType ==
  ASSUME NEW o \in 0 .. OverflowMod - 1
  PROVE  NextOverflow(o) \in 0 .. OverflowMod - 1
BY ModAssumption DEF NextOverflow

LEMMA AddOneType ==
  ASSUME NEW c \in Count
  PROVE  AddOne(c) \in Count
BY SqnModPositive, OverflowType DEF AddOne, Count

LEMMA SteppedType ==
  ASSUME NEW c \in Count, NEW s \in 0 .. SqnMod - 1
  PROVE  Stepped(c, s) \in Count
BY OverflowType DEF Stepped, Count

LEMMA IdleType == Idle \in DispRec /\ EncIdle \in EncRec
BY ZeroType, SqnModPositive DEF Idle, EncIdle, DispRec, EncRec, Pcs, EncPcs

(* TypeOK in three parts: what is a number or a set, and what is a         *)
(* Boolean.                                                                *)
DataOK ==
  /\ key \in Nat /\ dl \in Count /\ ul \in Count
  /\ disp \in [Handlers -> DispRec] /\ enc \in [Encoders -> EncRec]
  /\ amfKey \in Nat
  /\ next \in Count /\ gap \in 0 .. MaxLoss /\ amfUl \in Count /\ lost \in 0 .. MaxLoss
  /\ used \subseteq Count /\ downs \in Nat /\ ups \in Nat

FlagsOK ==
  /\ rejected \subseteq BOOLEAN /\ refused \in BOOLEAN /\ reused \in BOOLEAN
  /\ restarted \in BOOLEAN /\ early \in BOOLEAN
  /\ dlOver \in BOOLEAN /\ ulOver \in BOOLEAN

LEMMA TypeParts == TypeOK <=> (DataOK /\ FlagsOK /\ phase \in Phases)
BY DEF TypeOK, DataOK, FlagsOK

LEMMA TypeInit == Init => TypeOK
<1> SUFFICES ASSUME Init PROVE TypeOK
  OBVIOUS
<1>1. dl \in Count /\ ul \in Count /\ next \in Count /\ amfUl \in Count
  BY ZeroType, AddOneType DEF Init
<1>2. disp \in [Handlers -> DispRec] /\ enc \in [Encoders -> EncRec]
  BY IdleType DEF Init
<1>3. /\ gap \in 0 .. MaxLoss /\ lost \in 0 .. MaxLoss /\ downs \in Nat /\ ups \in Nat
      /\ key \in Nat /\ amfKey \in Nat
  BY LossAssumption DEF Init
<1>4. rejected \subseteq BOOLEAN /\ used \subseteq Count /\ phase \in Phases
  BY ZeroType DEF Init, Phases
<1> QED
  BY <1>1, <1>2, <1>3, <1>4 DEF Init, TypeOK

LEMMA TypeNext == TypeOK /\ [Next]_vars => TypeOK'
<1> SUFFICES ASSUME TypeOK, [Next]_vars PROVE DataOK' /\ FlagsOK' /\ phase' \in Phases
  BY DEF TypeOK, DataOK, FlagsOK
<1>0. DataOK /\ FlagsOK /\ phase \in Phases
  BY TypeParts
<1> USE LossAssumption
<1>1. CASE Lose
  <2>1. next' \in Count /\ gap' \in 0 .. MaxLoss /\ downs' \in Nat
    BY <1>1, <1>0, AddOneType DEF Lose, DataOK
  <2>2. DataOK'
    BY <1>1, <1>0, <2>1 DEF Lose, DataOK, dlVars, ulVars, keyVars
  <2>3. FlagsOK'
    BY <1>1, <1>0 DEF Lose, FlagsOK, dlVars, ulVars, keyVars
  <2>4. phase' \in Phases
    BY <1>1, <1>0 DEF Lose, Phases, ulVars, keyVars
  <2> QED
    BY <2>2, <2>3, <2>4
<1>2. ASSUME NEW h \in Handlers, UeListen(h)
      PROVE  DataOK' /\ FlagsOK' /\ phase' \in Phases
  <2>1. disp' \in [Handlers -> DispRec]
    BY <1>2, <1>0, IdleType, ZeroType DEF UeListen, Listens, DataOK, DispRec, Pcs
  <2>2. next' \in Count /\ gap' \in 0 .. MaxLoss /\ downs' \in Nat
    BY <1>2, <1>0, AddOneType DEF UeListen, DataOK, Listens
  <2>3. DataOK'
    BY <1>2, <1>0, <2>1, <2>2 DEF UeListen, DataOK, dlVars, ulVars, keyVars
  <2>4. FlagsOK'
    BY <1>2, <1>0 DEF UeListen, FlagsOK, dlVars, ulVars, keyVars
  <2>5. phase' \in Phases
    BY <1>2, <1>0 DEF UeListen, Phases, ulVars, keyVars
  <2> QED
    BY <2>3, <2>4, <2>5
<1>3. ASSUME NEW h \in Handlers, AmfAuthenticate(h)
      PROVE  DataOK' /\ FlagsOK' /\ phase' \in Phases
  <2>1. disp' \in [Handlers -> DispRec]
    BY <1>3, <1>0, IdleType, ZeroType DEF AmfAuthenticate, Listens, DataOK, DispRec, Pcs
  <2>2. downs' \in Nat
    BY <1>3, <1>0 DEF AmfAuthenticate, DataOK, Listens
  <2>3. DataOK'
    BY <1>3, <1>0, <2>1, <2>2 DEF AmfAuthenticate, DataOK, dlVars, ulVars, keyVars
  <2>4. FlagsOK'
    BY <1>3, <1>0 DEF AmfAuthenticate, FlagsOK, dlVars, ulVars, keyVars
  <2>5. phase' \in Phases
    BY <1>3, <1>0 DEF AmfAuthenticate, Phases, ulVars, keyVars
  <2> QED
    BY <2>3, <2>4, <2>5
<1>4. ASSUME NEW h \in Handlers, HandlerAuthenticationRequest(h)
      PROVE  DataOK' /\ FlagsOK' /\ phase' \in Phases
  <2>1. disp' \in [Handlers -> DispRec]
    BY <1>4, <1>0, IdleType, ZeroType DEF HandlerAuthenticationRequest, DataOK, DispRec, Pcs
  <2>2. key' \in Nat /\ used' \subseteq Count
    BY <1>4, <1>0 DEF HandlerAuthenticationRequest, DataOK
  <2>3. DataOK'
    BY <1>4, <1>0, <2>1, <2>2 DEF HandlerAuthenticationRequest, DataOK, dlVars, ulVars, keyVars
  <2>4. FlagsOK'
    BY <1>4, <1>0 DEF HandlerAuthenticationRequest, FlagsOK, dlVars, ulVars, keyVars
  <2>5. phase' \in Phases
    BY <1>4, <1>0 DEF HandlerAuthenticationRequest, Phases, ulVars, keyVars
  <2> QED
    BY <2>3, <2>4, <2>5
<1>5. ASSUME NEW h \in Handlers, HandlerAuthenticationRequestFailed(h)
      PROVE  DataOK' /\ FlagsOK' /\ phase' \in Phases
  <2>1. disp' \in [Handlers -> DispRec]
    BY <1>5, <1>0, IdleType, ZeroType DEF HandlerAuthenticationRequestFailed, DataOK, DispRec, Pcs
  <2>2. DataOK'
    BY <1>5, <1>0, <2>1 DEF HandlerAuthenticationRequestFailed, DataOK, dlVars, ulVars, keyVars
  <2>3. FlagsOK'
    BY <1>5, <1>0 DEF HandlerAuthenticationRequestFailed, FlagsOK, dlVars, ulVars, keyVars
  <2>4. phase' \in Phases
    BY <1>5, <1>0 DEF HandlerAuthenticationRequestFailed, Phases, ulVars, keyVars
  <2> QED
    BY <2>2, <2>3, <2>4
<1>6. ASSUME NEW h \in Handlers, AmfNewContext(h)
      PROVE  DataOK' /\ FlagsOK' /\ phase' \in Phases
  <2>1. disp' \in [Handlers -> DispRec]
    BY <1>6, <1>0, IdleType, ZeroType DEF AmfNewContext, Listens, DataOK, DispRec, Pcs
  <2>2. next' \in Count /\ gap' \in 0 .. MaxLoss /\ downs' \in Nat /\ amfKey' \in Nat
    BY <1>6, <1>0, AddOneType, ZeroType DEF AmfNewContext, DataOK, Listens
  <2>3. DataOK'
    BY <1>6, <1>0, <2>1, <2>2 DEF AmfNewContext, DataOK, dlVars, ulVars, keyVars
  <2>4. FlagsOK'
    BY <1>6, <1>0 DEF AmfNewContext, FlagsOK, dlVars, ulVars, keyVars
  <2>5. phase' \in Phases
    BY <1>6, <1>0 DEF AmfNewContext, Phases, ulVars, keyVars
  <2> QED
    BY <2>3, <2>4, <2>5
<1>7. ASSUME NEW h \in Handlers, DispatchNasHeader(h)
      PROVE  DataOK' /\ FlagsOK' /\ phase' \in Phases
  <2>1. disp' \in [Handlers -> DispRec]
    BY <1>7, <1>0, IdleType, ZeroType DEF DispatchNasHeader, DataOK, DispRec, Pcs
  <2>2. dl' \in Count
    BY <1>7, <1>0, ZeroType DEF DispatchNasHeader, DataOK
  <2>3. DataOK'
    BY <1>7, <1>0, <2>1, <2>2 DEF DispatchNasHeader, DataOK, dlVars, ulVars, keyVars
  <2>4. FlagsOK'
    BY <1>7, <1>0 DEF DispatchNasHeader, FlagsOK, dlVars, ulVars, keyVars
  <2>5. phase' \in Phases
    BY <1>7, <1>0 DEF DispatchNasHeader, Phases, ulVars, keyVars
  <2> QED
    BY <2>3, <2>4, <2>5
<1>8. ASSUME NEW h \in Handlers, DispatchNasOverflow(h)
      PROVE  DataOK' /\ FlagsOK' /\ phase' \in Phases
  <2>1. disp' \in [Handlers -> DispRec]
    BY <1>8, <1>0, IdleType, ZeroType DEF DispatchNasOverflow, DataOK, DispRec, Pcs
  <2>2. dl' \in Count
    BY <1>8, <1>0, SteppedType DEF DispatchNasOverflow, DataOK, DispRec, Count
  <2>3. DataOK'
    BY <1>8, <1>0, <2>1, <2>2 DEF DispatchNasOverflow, DataOK, dlVars, ulVars, keyVars
  <2>4. FlagsOK'
    BY <1>8, <1>0 DEF DispatchNasOverflow, FlagsOK, dlVars, ulVars, keyVars
  <2>5. phase' \in Phases
    BY <1>8, <1>0 DEF DispatchNasOverflow, Phases, ulVars, keyVars
  <2> QED
    BY <2>3, <2>4, <2>5
<1>9. ASSUME NEW h \in Handlers, DispatchNasSqn(h)
      PROVE  DataOK' /\ FlagsOK' /\ phase' \in Phases
  <2>1. disp' \in [Handlers -> DispRec]
    BY <1>9, <1>0, IdleType, ZeroType DEF DispatchNasSqn, DataOK, DispRec, Pcs
  <2>2. dl' \in Count
    BY <1>9, <1>0 DEF DispatchNasSqn, DataOK, DispRec, Count
  <2>3. DataOK'
    BY <1>9, <1>0, <2>1, <2>2 DEF DispatchNasSqn, DataOK, dlVars, ulVars, keyVars
  <2>4. FlagsOK'
    BY <1>9, <1>0 DEF DispatchNasSqn, FlagsOK, dlVars, ulVars, keyVars
  <2>5. phase' \in Phases
    BY <1>9, <1>0 DEF DispatchNasSqn, Phases, ulVars, keyVars
  <2> QED
    BY <2>3, <2>4, <2>5
<1>10. ASSUME NEW h \in Handlers, DispatchNasMac(h)
      PROVE  DataOK' /\ FlagsOK' /\ phase' \in Phases
  <2>1. disp' \in [Handlers -> DispRec]
    BY <1>10, <1>0, IdleType, ZeroType DEF DispatchNasMac, DataOK, DispRec, Pcs
  <2>2. DataOK'
    BY <1>10, <1>0, <2>1 DEF DispatchNasMac, DataOK, dlVars, ulVars, keyVars
  <2>3. FlagsOK'
    BY <1>10, <1>0 DEF DispatchNasMac, FlagsOK, dlVars, ulVars, keyVars, DataOK, DispRec
  <2>4. phase' \in Phases
    BY <1>10, <1>0 DEF DispatchNasMac, Phases, ulVars, keyVars
  <2> QED
    BY <2>2, <2>3, <2>4
<1>11. ASSUME NEW e \in Encoders, NASEncode(e)
      PROVE  DataOK' /\ FlagsOK' /\ phase' \in Phases
  <2>1. enc' \in [Encoders -> EncRec]
    BY <1>11, <1>0, IdleType, ZeroType DEF NASEncode, DataOK, EncRec, EncPcs, Count
  <2>2. ups' \in Nat
    BY <1>11, <1>0 DEF NASEncode, DataOK
  <2>3. DataOK'
    BY <1>11, <1>0, <2>1, <2>2 DEF NASEncode, DataOK, dlVars, ulVars, keyVars
  <2>4. FlagsOK'
    BY <1>11, <1>0 DEF NASEncode, FlagsOK, dlVars, ulVars, keyVars
  <2>5. phase' \in Phases
    BY <1>11, <1>0 DEF NASEncode, Phases, ulVars, keyVars
  <2> QED
    BY <2>3, <2>4, <2>5
<1>12. ASSUME NEW e \in Encoders, NASEncodeSqn(e)
      PROVE  DataOK' /\ FlagsOK' /\ phase' \in Phases
  <2>1. enc' \in [Encoders -> EncRec]
    BY <1>12, <1>0, IdleType, ZeroType DEF NASEncodeSqn, DataOK, EncRec, EncPcs, Count
  <2>2. DataOK'
    BY <1>12, <1>0, <2>1 DEF NASEncodeSqn, DataOK, dlVars, ulVars, keyVars
  <2>3. FlagsOK'
    BY <1>12, <1>0 DEF NASEncodeSqn, FlagsOK, dlVars, ulVars, keyVars
  <2>4. phase' \in Phases
    BY <1>12, <1>0 DEF NASEncodeSqn, Phases, ulVars, keyVars
  <2> QED
    BY <2>2, <2>3, <2>4
<1>13. ASSUME NEW e \in Encoders, NASEncodeMac(e)
      PROVE  DataOK' /\ FlagsOK' /\ phase' \in Phases
  <2>1. enc' \in [Encoders -> EncRec]
    <3>1. enc' = [enc EXCEPT ![e] = [@ EXCEPT !.pc = "load", !.cnt = ul, !.key = key]]
      BY <1>13, <1>0 DEF NASEncodeMac, DataOK, EncRec
    <3>2. [enc[e] EXCEPT !.pc = "load", !.cnt = ul, !.key = key] \in EncRec
      BY <1>0 DEF DataOK, EncRec, EncPcs
    <3> QED
      BY <1>0, <3>1, <3>2 DEF DataOK
  <2>2. used' \subseteq Count
    BY <1>13, <1>0 DEF NASEncodeMac, DataOK
  <2>3. DataOK'
    BY <1>13, <1>0, <2>1, <2>2 DEF NASEncodeMac, DataOK, dlVars, ulVars, keyVars
  <2>4. FlagsOK'
    BY <1>13, <1>0 DEF NASEncodeMac, FlagsOK, dlVars, ulVars, keyVars
  <2>5. phase' \in Phases
    BY <1>13, <1>0 DEF NASEncodeMac, Phases, ulVars, keyVars
  <2> QED
    BY <2>3, <2>4, <2>5
<1>14. ASSUME NEW e \in Encoders, NASEncodeLoad(e)
      PROVE  DataOK' /\ FlagsOK' /\ phase' \in Phases
  <2>1. enc' \in [Encoders -> EncRec]
    BY <1>14, <1>0, IdleType, ZeroType DEF NASEncodeLoad, DataOK, EncRec, EncPcs, Count
  <2>2. DataOK'
    BY <1>14, <1>0, <2>1 DEF NASEncodeLoad, DataOK, dlVars, ulVars, keyVars
  <2>3. FlagsOK'
    BY <1>14, <1>0 DEF NASEncodeLoad, FlagsOK, dlVars, ulVars, keyVars
  <2>4. phase' \in Phases
    BY <1>14, <1>0 DEF NASEncodeLoad, Phases, ulVars, keyVars
  <2> QED
    BY <2>2, <2>3, <2>4
<1>15. ASSUME NEW e \in Encoders, NASEncodeStore(e)
      PROVE  DataOK' /\ FlagsOK' /\ phase' \in Phases
  <2>1. enc' \in [Encoders -> EncRec]
    BY <1>15, <1>0, IdleType, ZeroType DEF NASEncodeStore, DataOK, EncRec, EncPcs, Count
  <2>2. ul' \in Count
    BY <1>15, <1>0, AddOneType DEF NASEncodeStore, DataOK, EncRec
  <2>3. DataOK'
    BY <1>15, <1>0, <2>1, <2>2 DEF NASEncodeStore, DataOK, dlVars, ulVars, keyVars
  <2>4. FlagsOK'
    BY <1>15, <1>0 DEF NASEncodeStore, FlagsOK, dlVars, ulVars, keyVars
  <2>5. phase' \in Phases
    BY <1>15, <1>0 DEF NASEncodeStore, Phases, ulVars, keyVars
  <2> QED
    BY <2>3, <2>4, <2>5
<1>16. ASSUME NEW e \in Encoders, SendToGnb(e)
      PROVE  DataOK' /\ FlagsOK' /\ phase' \in Phases
  <2>1. enc' \in [Encoders -> EncRec]
    BY <1>16, <1>0, IdleType, ZeroType DEF SendToGnb, DataOK, EncRec, EncPcs, Count
  <2>2. amfUl' \in Count
    BY <1>16, <1>0 DEF SendToGnb, DataOK, EncRec
  <2>3. lost' \in 0 .. MaxLoss
    BY <1>16, <1>0 DEF SendToGnb, DataOK
  <2>4. DataOK'
    BY <1>16, <1>0, <2>1, <2>2, <2>3 DEF SendToGnb, DataOK, dlVars, ulVars, keyVars
  <2>5. FlagsOK'
    BY <1>16, <1>0 DEF SendToGnb, FlagsOK, dlVars, ulVars, keyVars
  <2>6. phase' \in Phases
    BY <1>16, <1>0 DEF SendToGnb, Phases, ulVars, keyVars
  <2> QED
    BY <2>4, <2>5, <2>6
<1>17. ASSUME NEW e \in Encoders, SendToGnbDropped(e)
      PROVE  DataOK' /\ FlagsOK' /\ phase' \in Phases
  <2>1. enc' \in [Encoders -> EncRec]
    BY <1>17, <1>0, IdleType, ZeroType DEF SendToGnbDropped, DataOK, EncRec, EncPcs, Count
  <2>2. lost' \in 0 .. MaxLoss
    BY <1>17, <1>0 DEF SendToGnbDropped, DataOK
  <2>3. DataOK'
    BY <1>17, <1>0, <2>1, <2>2 DEF SendToGnbDropped, DataOK, dlVars, ulVars, keyVars
  <2>4. FlagsOK'
    BY <1>17, <1>0 DEF SendToGnbDropped, FlagsOK, dlVars, ulVars, keyVars
  <2>5. phase' \in Phases
    BY <1>17, <1>0 DEF SendToGnbDropped, Phases, ulVars, keyVars
  <2> QED
    BY <2>3, <2>4, <2>5
<1>18. ASSUME NEW h \in Handlers, NEW e \in Encoders, NASEncodeNewContext(h, e)
      PROVE  DataOK' /\ FlagsOK' /\ phase' \in Phases
  <2>1. disp' \in [Handlers -> DispRec]
    BY <1>18, <1>0, IdleType, ZeroType DEF NASEncodeNewContext, DataOK, DispRec, Pcs
  <2>2. enc' \in [Encoders -> EncRec]
    BY <1>18, <1>0, IdleType, ZeroType DEF NASEncodeNewContext, DataOK, EncRec, EncPcs, Count
  <2>3. dl' \in Count /\ ul' \in Count
    BY <1>18, <1>0, ZeroType DEF NASEncodeNewContext, DataOK
  <2>4. DataOK'
    BY <1>18, <1>0, <2>1, <2>2, <2>3 DEF NASEncodeNewContext, DataOK, dlVars, ulVars, keyVars
  <2>5. FlagsOK'
    BY <1>18, <1>0 DEF NASEncodeNewContext, FlagsOK, dlVars, ulVars, keyVars
  <2>6. phase' \in Phases
    BY <1>18, <1>0 DEF NASEncodeNewContext, Phases, ulVars, keyVars
  <2> QED
    BY <2>4, <2>5, <2>6
<1>19. CASE UNCHANGED vars
  BY <1>19, <1>0 DEF vars, dlVars, ulVars, keyVars, DataOK, FlagsOK
<1> QED
  BY <1>1, <1>2, <1>3, <1>4, <1>5, <1>6, <1>7, <1>8, <1>9, <1>10, <1>11, <1>12,
     <1>13, <1>14, <1>15, <1>16, <1>17, <1>18, <1>19
     DEF Next, Downlink, Uplink

(* The counts stay within 16 and 8 bits and every goroutine is at a step   *)
(* it has, for any widths and any number of goroutines.                    *)
THEOREM TypeCorrect == Spec => []TypeOK
BY TypeInit, TypeNext, PTL DEF Spec

-----------------------------------------------------------------------------
(* d is the COUNT g messages after c, for a g below one turn of the SQN.   *)
Ahead(c, d, g) ==
  \/ d.sqn = c.sqn + g /\ d.overflow = c.overflow
  \/ d.sqn + SqnMod = c.sqn + g /\ d.overflow = NextOverflow(c.overflow)

LEMMA AheadZero == Ahead(Zero, AddOne(Zero), 1)
BY SqnModPositive DEF Ahead, Zero, AddOne, NextOverflow

LEMMA AheadNext ==
  ASSUME NEW c \in Count
  PROVE  Ahead(c, AddOne(c), 1)
BY SqnModPositive DEF Ahead, AddOne, Count

LEMMA AheadStep ==
  ASSUME NEW c \in Count, NEW d \in Count, NEW g \in Nat, g + 1 < SqnMod, Ahead(c, d, g)
  PROVE  Ahead(c, AddOne(d), g + 1)
<1>1. CASE d.sqn = c.sqn + g /\ d.overflow = c.overflow
  BY <1>1, SqnModPositive DEF Ahead, AddOne, Count
<1>2. CASE d.sqn + SqnMod = c.sqn + g /\ d.overflow = NextOverflow(c.overflow)
  <2>1. d.sqn + 1 < SqnMod
    BY <1>2, SqnModPositive DEF Count
  <2> QED
    BY <1>2, <2>1, SqnModPositive DEF Ahead, AddOne, Count
<1> QED
  BY <1>1, <1>2 DEF Ahead

(* An encoder step that is not the answer to a Security Mode Command       *)
(* leaves the downlink side alone, and so do the keys.                     *)
LEMMA UplinkLeavesDownlink ==
  ASSUME NEW e \in Encoders,
         \/ NASEncode(e) \/ NASEncodeSqn(e) \/ NASEncodeMac(e) \/ NASEncodeLoad(e)
         \/ NASEncodeStore(e) \/ SendToGnb(e) \/ SendToGnbDropped(e)
  PROVE  UNCHANGED dlVars
BY DEF NASEncode, NASEncodeSqn, NASEncodeMac, NASEncodeLoad, NASEncodeStore, SendToGnb,
       SendToGnbDropped

(* The strengthening of InOrderAccepted and NewContextAccepted.  Between   *)
(* messages the stored count is gap + 1 messages behind the next one on    *)
(* the link; a dispatch under way has its message that far ahead of the    *)
(* stored count, then the right overflow, then the right count.            *)
Busy(h) == disp[h].pc \notin {"idle", "auth"}

Step(h) ==
  LET x == disp[h] IN
  /\ x.pc \notin {"idle", "auth"} => Ahead(x.msg, next, gap + 1) /\ (x.new => x.msg = Zero)
  /\ x.pc = "header" => x.msg = Zero
  /\ x.pc = "check" => \E g \in 0 .. MaxLoss + 1 : Ahead(dl, x.msg, g)
  /\ x.pc = "sqn" => dl.overflow = x.msg.overflow
  /\ x.pc = "mac" => dl = x.msg
  /\ x.pc = "answer" => x.msg = Zero

SyncInv ==
  /\ rejected = {}
  /\ \A h, i \in Handlers : Busy(h) /\ Busy(i) => h = i
  /\ DlFree => Ahead(dl, next, gap + 1)
  /\ \A h \in Handlers : Step(h)

LEMMA SyncInit == Init => SyncInv
BY AheadZero DEF Init, SyncInv, Step, Idle, DlFree, Busy

(* A new security context makes the invariant true again, whatever         *)
(* overlapping dispatches have done to the count, if it finds the UE       *)
(* free: the command is the only message, and its COUNT is zero.           *)
LEMMA SyncNew ==
  ASSUME TypeOK, NEW h \in Handlers, AmfNewContext(h), ~dlOver'
  PROVE  SyncInv'
<1>0. disp \in [Handlers -> DispRec]
  BY DEF TypeOK
<1>1. DlFree
  BY Zenon DEF AmfNewContext
<1>2. /\ disp' = [disp EXCEPT ![h] = [pc |-> "header", msg |-> Zero, key |-> key, new |-> TRUE]]
      /\ next' = AddOne(Zero) /\ gap' = 0 /\ rejected' = {}
  BY DEF AmfNewContext, Listens
<1>3. \A i \in Handlers : i # h => disp'[i] = disp[i] /\ ~Busy(i)
  BY <1>0, <1>1, <1>2 DEF DlFree, Busy
<1>4. Step(h)'
  BY <1>0, <1>2, AheadZero DEF Step
<1>5. \A i \in Handlers : i # h => Step(i)'
  BY <1>0, <1>2, <1>3 DEF Step, Busy
<1> QED
  BY <1>0, <1>2, <1>3, <1>4, <1>5 DEF SyncInv, Busy, DlFree

LEMMA SyncNext == ~dlOver' /\ TypeOK /\ (dlOver \/ SyncInv) /\ [Next]_vars => SyncInv'
<1> SUFFICES ASSUME ~dlOver', TypeOK, dlOver \/ SyncInv, [Next]_vars PROVE SyncInv'
  OBVIOUS
<1>a. /\ dl \in Count /\ next \in Count /\ gap \in 0 .. MaxLoss
      /\ disp \in [Handlers -> DispRec]
  BY DEF TypeOK
<1>0. ASSUME NEW h \in Handlers, AmfNewContext(h) PROVE SyncInv'
  BY <1>0, SyncNew
<1>b. ASSUME UNCHANGED dlOver PROVE SyncInv
  BY <1>b
<1> USE LossAssumption, <1>a
<1>1. CASE Lose
  <2>0. SyncInv
    BY <1>1, <1>b DEF Lose
  <2>1. ASSUME NEW c \in Count, Ahead(c, next, gap + 1) PROVE Ahead(c, next', gap' + 1)
    <3>1. gap + 1 \in Nat /\ (gap + 1) + 1 < SqnMod
      BY <1>1, SqnModPositive DEF Lose
    <3>2. Ahead(c, AddOne(next), (gap + 1) + 1)
      BY <2>1, <3>1, AheadStep
    <3>3. next' = AddOne(next) /\ gap' = gap + 1
      BY <1>1 DEF Lose
    <3> QED
      BY <3>2, <3>3
  <2> QED
    BY <1>1, <2>0, <2>1 DEF Lose, SyncInv, Step, DlFree, DispRec, Busy
<1>2. ASSUME NEW h \in Handlers, UeListen(h) PROVE SyncInv'
  <2>0. DlFree /\ ~dlOver
    BY <1>2, Zenon DEF UeListen
  <2>1. SyncInv /\ Ahead(dl, next, gap + 1) /\ gap + 1 \in 0 .. MaxLoss + 1
    BY <2>0 DEF SyncInv
  <2>2. Ahead(next, next', gap' + 1)
    BY <1>2, AheadNext DEF UeListen
  <2>3. /\ disp' = [disp EXCEPT ![h] = [pc |-> "check", msg |-> next, key |-> amfKey, new |-> FALSE]]
        /\ UNCHANGED <<dl, rejected>>
    BY <1>2 DEF UeListen, Listens
  <2>4. \A i \in Handlers : i # h => disp'[i] = disp[i] /\ ~Busy(i)
    BY <2>0, <2>3 DEF DlFree, Busy
  <2>5. Step(h)'
    BY <2>1, <2>2, <2>3 DEF Step
  <2>6. \A i \in Handlers : i # h => Step(i)'
    BY <2>1, <2>3, <2>4 DEF Step, Busy, SyncInv
  <2> QED
    BY <2>1, <2>3, <2>4, <2>5, <2>6 DEF SyncInv, DlFree, Busy
<1>3. ASSUME NEW h \in Handlers, AmfAuthenticate(h) PROVE SyncInv'
  <2>0. SyncInv
    BY <1>3, <1>b DEF AmfAuthenticate
  <2> QED
    BY <1>3, <2>0 DEF AmfAuthenticate, Listens, SyncInv, Step, DlFree, Busy, DispRec
<1>4. ASSUME NEW h \in Handlers, DispatchNasHeader(h) PROVE SyncInv'
  <2>0. SyncInv
    BY <1>4, <1>b DEF DispatchNasHeader
  <2>1. disp[h].msg = Zero /\ dl' = Zero
    BY <1>4, <2>0 DEF DispatchNasHeader, SyncInv, Step
  <2>2. Ahead(Zero, Zero, 0)
    BY SqnModPositive DEF Ahead, Zero
  <2> QED
    BY <1>4, <2>0, <2>1, <2>2 DEF DispatchNasHeader, SyncInv, Step, DlFree, DispRec, Busy
<1>5. ASSUME NEW h \in Handlers, DispatchNasOverflow(h) PROVE SyncInv'
  <2>0. SyncInv
    BY <1>5, <1>b DEF DispatchNasOverflow
  <2>1. PICK g \in 0 .. MaxLoss + 1 : Ahead(dl, disp[h].msg, g)
    BY <1>5, <2>0 DEF DispatchNasOverflow, SyncInv, Step
  <2>2. disp[h].msg \in Count
    BY DEF DispRec
  <2>3. dl'.overflow = disp[h].msg.overflow
    BY <1>5, <2>1, <2>2, SqnModPositive DEF DispatchNasOverflow, Stepped, Ahead, Count
  <2> QED
    BY <1>5, <2>0, <2>3 DEF DispatchNasOverflow, SyncInv, Step, DlFree, DispRec, Busy
<1>6. ASSUME NEW h \in Handlers, DispatchNasSqn(h) PROVE SyncInv'
  <2>0. SyncInv
    BY <1>6, <1>b DEF DispatchNasSqn
  <2>1. dl.overflow = disp[h].msg.overflow /\ disp[h].msg \in Count
    BY <1>6, <2>0 DEF DispatchNasSqn, SyncInv, Step, DispRec
  <2>2. dl' = disp[h].msg
    BY <1>6, <2>1 DEF DispatchNasSqn, Count
  <2> QED
    BY <1>6, <2>0, <2>2 DEF DispatchNasSqn, SyncInv, Step, DlFree, DispRec, Busy
<1>7. ASSUME NEW h \in Handlers, DispatchNasMac(h) PROVE SyncInv'
  <2>0. SyncInv
    BY <1>7, <1>b DEF DispatchNasMac
  <2>1. dl = disp[h].msg /\ Ahead(dl, next, gap + 1)
    BY <1>7, <2>0 DEF DispatchNasMac, SyncInv, Step
  <2>2. rejected' = {} /\ UNCHANGED <<dl, next, gap>>
    BY <1>7, <2>0, <2>1 DEF DispatchNasMac, SyncInv
  <2>3. PICK x : x \in {Idle, [disp[h] EXCEPT !.pc = "answer"]}
                 /\ (x # Idle => disp[h].new) /\ disp' = [disp EXCEPT ![h] = x]
    BY <1>7, <2>1 DEF DispatchNasMac
  <2>4. \A i \in Handlers : i # h => disp'[i] = disp[i]
    BY <2>3
  <2>5. Step(h)'
    BY <1>7, <2>0, <2>1, <2>2, <2>3 DEF DispatchNasMac, SyncInv, Step, DispRec, Idle
  <2>6. \A i \in Handlers : i # h => Step(i)'
    BY <2>0, <2>2, <2>4 DEF SyncInv, Step
  <2>7. \A i \in Handlers : Busy(i)' => Busy(i)
    BY <1>7, <2>3, <2>4 DEF Busy, Idle, DispatchNasMac
  <2> QED
    BY <2>0, <2>1, <2>2, <2>5, <2>6, <2>7 DEF SyncInv, DlFree, Busy
<1>8. ASSUME NEW h \in Handlers, NEW e \in Encoders, NASEncodeNewContext(h, e)
      PROVE  SyncInv'
  <2>0. SyncInv
    BY <1>8, <1>b DEF NASEncodeNewContext
  <2>1. disp[h].msg = Zero /\ Ahead(Zero, next, gap + 1)
    BY <1>8, <2>0 DEF NASEncodeNewContext, SyncInv, Step
  <2> QED
    BY <1>8, <2>0, <2>1 DEF NASEncodeNewContext, SyncInv, Step, DlFree, DispRec, Idle, Busy
<1>9. ASSUME NEW h \in Handlers,
             HandlerAuthenticationRequest(h) \/ HandlerAuthenticationRequestFailed(h)
      PROVE  SyncInv'
  <2>0. SyncInv
    BY <1>9, <1>b DEF HandlerAuthenticationRequest, HandlerAuthenticationRequestFailed
  <2> QED
    BY <1>9, <2>0 DEF HandlerAuthenticationRequest, HandlerAuthenticationRequestFailed,
                      SyncInv, Step, DlFree, DispRec, Idle, Busy
<1>10. ASSUME UNCHANGED dlVars PROVE SyncInv'
  <2>0. SyncInv
    BY <1>10, <1>b DEF dlVars
  <2> QED
    BY <1>10, <2>0 DEF SyncInv, Step, DlFree, Busy, dlVars
<1>11. CASE UNCHANGED vars
  BY <1>10, <1>11 DEF vars
<1> QED
  BY <1>0, <1>1, <1>2, <1>3, <1>4, <1>5, <1>6, <1>7, <1>8, <1>9, <1>10, <1>11,
     UplinkLeavesDownlink
     DEF Next, Downlink, Uplink

(* dlOver \/ SyncInv is inductive.                                         *)
LEMMA Sync == Spec => [](dlOver \/ SyncInv)
<1> DEFINE Inv == dlOver \/ SyncInv
<1>1. Init => Inv
  BY SyncInit
<1>2. TypeOK /\ Inv /\ [Next]_vars => Inv'
  BY SyncNext
<1> QED
  BY <1>1, <1>2, TypeCorrect, PTL DEF Spec

(* Whatever the widths of SQN and overflow, and with up to MaxLoss         *)
(* messages lost in a row (fewer than a turn of the SQN), a UE whose       *)
(* dispatches do not overlap never drops a genuine downlink message.       *)
THEOREM InOrder == Spec => []InOrderAccepted
<1>1. (dlOver \/ SyncInv) => InOrderAccepted
  BY DEF SyncInv, InOrderAccepted
<1> QED
  BY <1>1, Sync, PTL

(* Whatever the widths, the losses and the overlaps of earlier contexts, a *)
(* Security Mode Command with a new context that overlaps no other         *)
(* dispatch is never dropped: a UE whose count has run away recovers with  *)
(* the next security mode procedure.                                       *)
THEOREM NewContext == Spec => []NewContextAccepted
<1>1. (dlOver \/ SyncInv) => NewContextAccepted
  BY DEF SyncInv, NewContextAccepted
<1> QED
  BY <1>1, Sync, PTL

-----------------------------------------------------------------------------
(* The AMF's procedures: a challenge is answered once, the UE has the      *)
(* AMF's keys in normal operation and during a security mode procedure, a  *)
(* procedure has one command and one answer, and the counts restart once   *)
(* for a set of keys, which has protected no uplink message before unless  *)
(* one was early.                                                          *)
Commanded(h) == Busy(h) /\ disp[h].new
Active(e)    == enc[e].pc # "idle"
Answers(e)   == Active(e) /\ enc[e].new

ProcInv ==
  /\ \A h \in Handlers : disp[h].pc = "auth" => phase = "auth"
  /\ \A h, i \in Handlers : disp[h].pc = "auth" /\ disp[i].pc = "auth" => h = i
  /\ phase \in {"smc", "run"} => amfKey = key
  /\ \A h \in Handlers : disp[h].pc \in {"header", "answer"} => disp[h].new
  /\ \A h \in Handlers : Commanded(h) => phase = "smc" /\ ~restarted
  /\ \A h, i \in Handlers : Commanded(h) /\ Commanded(i) => h = i
  /\ \A e \in Encoders : Answers(e) => phase = "smc"
  /\ \A e, f \in Encoders : Answers(e) /\ Answers(f) => e = f
  /\ \A h \in Handlers, e \in Encoders : ~(Commanded(h) /\ Answers(e))
  /\ phase = "answered" => ~restarted
  /\ ~restarted /\ ~early => used = {} /\ ~reused

LEMMA ProcInit == Init => ProcInv
BY DEF Init, ProcInv, Commanded, Answers, Active, Busy, Idle, EncIdle

LEMMA ProcNext == TypeOK /\ ProcInv /\ [Next]_vars => ProcInv'
<1> SUFFICES ASSUME TypeOK, ProcInv, [Next]_vars PROVE ProcInv'
  OBVIOUS
<1>a. /\ disp \in [Handlers -> DispRec] /\ enc \in [Encoders -> EncRec]
      /\ restarted \in BOOLEAN /\ early \in BOOLEAN /\ reused \in BOOLEAN
  BY DEF TypeOK
<1> USE <1>a DEF ProcInv, Commanded, Answers, Active, Busy
<1>1. CASE Lose
  BY <1>1 DEF Lose, ulVars, keyVars
<1>2. ASSUME NEW h \in Handlers, UeListen(h)
      PROVE  ProcInv'
  BY <1>2 DEF UeListen, Listens, DispRec, ulVars, keyVars
<1>3. ASSUME NEW h \in Handlers, AmfAuthenticate(h)
      PROVE  ProcInv'
  BY <1>3 DEF AmfAuthenticate, Listens, DispRec, ulVars, keyVars
<1>4. ASSUME NEW h \in Handlers, HandlerAuthenticationRequest(h)
      PROVE  ProcInv'
  BY <1>4 DEF HandlerAuthenticationRequest, DispRec, Idle, ulVars
<1>5. ASSUME NEW h \in Handlers, HandlerAuthenticationRequestFailed(h)
      PROVE  ProcInv'
  BY <1>5 DEF HandlerAuthenticationRequestFailed, DispRec, Idle, ulVars, keyVars
<1>6. ASSUME NEW h \in Handlers, AmfNewContext(h)
      PROVE  ProcInv'
  BY <1>6 DEF AmfNewContext, Listens, DispRec, ulVars, keyVars
<1>7. ASSUME NEW h \in Handlers, DispatchNasHeader(h)
      PROVE  ProcInv'
  BY <1>7 DEF DispatchNasHeader, DispRec, ulVars, keyVars
<1>8. ASSUME NEW h \in Handlers, DispatchNasOverflow(h)
      PROVE  ProcInv'
  BY <1>8 DEF DispatchNasOverflow, DispRec, ulVars, keyVars
<1>9. ASSUME NEW h \in Handlers, DispatchNasSqn(h)
      PROVE  ProcInv'
  BY <1>9 DEF DispatchNasSqn, DispRec, ulVars, keyVars
<1>10. ASSUME NEW h \in Handlers, DispatchNasMac(h)
      PROVE  ProcInv'
  BY <1>10 DEF DispatchNasMac, DispRec, Idle, ulVars, keyVars
<1>11. ASSUME NEW e \in Encoders, NASEncode(e)
      PROVE  ProcInv'
  BY <1>11 DEF NASEncode, EncRec, EncIdle, dlVars, keyVars
<1>12. ASSUME NEW e \in Encoders, NASEncodeSqn(e)
      PROVE  ProcInv'
  BY <1>12 DEF NASEncodeSqn, EncRec, dlVars, keyVars
<1>13. ASSUME NEW e \in Encoders, NASEncodeMac(e)
      PROVE  ProcInv'
  <2>1. restarted' \/ early'
    BY <1>13, Zenon DEF NASEncodeMac
  <2>2. \A f \in Encoders : Answers(f)' => Answers(f)
    BY <1>13 DEF NASEncodeMac, EncRec
  <2>3. UNCHANGED <<disp, phase, key, amfKey, restarted>>
    BY <1>13 DEF NASEncodeMac, dlVars
  <2> QED
    BY <2>1, <2>2, <2>3
<1>14. ASSUME NEW e \in Encoders, NASEncodeLoad(e)
      PROVE  ProcInv'
  BY <1>14 DEF NASEncodeLoad, EncRec, dlVars, keyVars
<1>15. ASSUME NEW e \in Encoders, NASEncodeStore(e)
      PROVE  ProcInv'
  BY <1>15 DEF NASEncodeStore, EncRec, dlVars, keyVars
<1>16. ASSUME NEW e \in Encoders, SendToGnb(e)
      PROVE  ProcInv'
  BY <1>16 DEF SendToGnb, EncRec, EncIdle, dlVars, keyVars
<1>17. ASSUME NEW e \in Encoders, SendToGnbDropped(e)
      PROVE  ProcInv'
  BY <1>17 DEF SendToGnbDropped, EncRec, EncIdle, dlVars, keyVars
<1>18. ASSUME NEW h \in Handlers, NEW e \in Encoders, NASEncodeNewContext(h, e)
      PROVE  ProcInv'
  BY <1>18 DEF NASEncodeNewContext, DispRec, EncRec, Idle, EncIdle
<1>19. CASE UNCHANGED vars
  BY <1>19 DEF vars, dlVars, ulVars, keyVars
<1> QED
  BY <1>1, <1>2, <1>3, <1>4, <1>5, <1>6, <1>7, <1>8, <1>9, <1>10, <1>11, <1>12,
     <1>13, <1>14, <1>15, <1>16, <1>17, <1>18, <1>19
     DEF Next, Downlink, Uplink

LEMMA Procedures == Spec => []ProcInv
BY ProcInit, ProcNext, TypeCorrect, PTL DEF Spec

-----------------------------------------------------------------------------
(* Completing the SQN of a message that is less than a turn of the SQN     *)
(* ahead gives back its COUNT.                                             *)
LEMMA SteppedAhead ==
  ASSUME NEW c \in Count, NEW d \in Count, NEW g \in Nat, g < SqnMod, Ahead(c, d, g)
  PROVE  [Stepped(c, d.sqn) EXCEPT !.sqn = d.sqn] = d
<1>1. Stepped(c, d.sqn).overflow = d.overflow
  BY SqnModPositive DEF Ahead, Stepped, Count
<1>2. Stepped(c, d.sqn) \in Count
  BY SteppedType DEF Count
<1> QED
  BY <1>1, <1>2 DEF Count

(* The strengthening of UplinkAccepted: encoders take turns; the SQN, the  *)
(* COUNT and the keys of a message belong together; and in normal          *)
(* operation the message under way, or else the next one, is lost + 1      *)
(* messages after the last one the AMF has accepted.                       *)
Protected(e) == enc[e].pc \in {"load", "store", "send"}

Encoding(e) ==
  LET x == enc[e] IN
  /\ x.pc = "mac" => x.sqn = ul.sqn
  /\ Protected(e) => x.sqn = x.cnt.sqn
  /\ x.pc \in {"load", "store"} => x.cnt = ul
  /\ x.pc = "store" => x.load = ul
  /\ x.pc = "send" => ul = AddOne(x.cnt)
  /\ x.new /\ x.pc \in {"sqn", "mac"} => ul = Zero
  /\ x.new /\ Protected(e) => x.cnt = Zero
  /\ (x.new \/ phase = "run") /\ Protected(e) => x.key = amfKey
  /\ phase = "run" /\ x.pc = "send" => Ahead(amfUl, x.cnt, lost + 1)

Alone == \A e, f \in Encoders : Active(e) /\ Active(f) => e = f

UlInv ==
  /\ ~refused /\ Alone
  /\ \A e \in Encoders : Encoding(e)
  /\ phase = "run" /\ (\A e \in Encoders : enc[e].pc # "send") => Ahead(amfUl, ul, lost + 1)

LEMMA UlInit == Init => UlInv
BY AheadZero DEF Init, UlInv, Alone, Encoding, Protected, Active, EncIdle

(* The answer to a command makes the invariant true again, if it finds no  *)
(* other encoder.                                                          *)
LEMMA UlNew ==
  ASSUME TypeOK, ProcInv, NEW h \in Handlers, NEW e \in Encoders,
         NASEncodeNewContext(h, e), ~ulOver'
  PROVE  UlInv' /\ (\A f \in Encoders : enc'[f].pc \in {"idle", "sqn"})
<1>0. enc \in [Encoders -> EncRec]
  BY DEF TypeOK
<1>1. UlFree
  BY Zenon DEF NASEncodeNewContext
<1>2. /\ enc' = [enc EXCEPT ![e] = [EncIdle EXCEPT !.pc = "sqn", !.new = TRUE]]
      /\ ul' = Zero /\ phase' = phase /\ disp[h].pc = "answer"
  BY DEF NASEncodeNewContext
<1>3. phase = "smc"
  BY <1>2 DEF ProcInv, Commanded, Busy
<1>4. ~refused'
  BY Zenon DEF NASEncodeNewContext
<1>5. /\ enc'[e].pc = "sqn" /\ \A f \in Encoders : f # e => enc'[f].pc = "idle"
  BY <1>0, <1>1, <1>2 DEF UlFree, EncRec, EncIdle
<1>6. \A f \in Encoders : Encoding(f)'
  BY <1>2, <1>3, <1>5 DEF Encoding, Protected
<1> QED
  BY <1>2, <1>3, <1>4, <1>5, <1>6 DEF UlInv, Alone, Active

LEMMA UlNext ==
  ~ulOver' /\ TypeOK /\ ProcInv /\ (ulOver \/ UlInv) /\ [Next]_vars => UlInv'
<1> SUFFICES ASSUME ~ulOver', TypeOK, ProcInv, ulOver \/ UlInv, [Next]_vars PROVE UlInv'
  OBVIOUS
<1>a. /\ ul \in Count /\ amfUl \in Count /\ lost \in 0 .. MaxLoss
      /\ enc \in [Encoders -> EncRec]
  BY DEF TypeOK
<1>b. ASSUME UNCHANGED ulOver PROVE UlInv
  BY <1>b
<1>c. \A f \in Encoders : Answers(f) => phase = "smc"
  BY DEF ProcInv
<1>d. phase \in {"smc", "run"} => amfKey = key
  BY DEF ProcInv
<1>e. \A f \in Encoders : enc[f].cnt \in Count /\ enc[f].load \in Count
  BY <1>a DEF EncRec
<1> USE LossAssumption, <1>a, <1>e
<1>0. ASSUME NEW h \in Handlers, NEW e \in Encoders, NASEncodeNewContext(h, e) PROVE UlInv'
  BY <1>0, UlNew
<1>1. ASSUME NEW e \in Encoders, NASEncode(e) PROVE UlInv'
  <2>0. UlFree /\ ~ulOver
    BY <1>1, Zenon DEF NASEncode
  <2>1. /\ enc' = [enc EXCEPT ![e] = [EncIdle EXCEPT !.pc = "mac", !.sqn = ul.sqn]]
        /\ UNCHANGED <<ul, amfUl, lost, phase>>
    BY <1>1 DEF NASEncode
  <2>2. enc'[e].pc = "mac" /\ enc'[e].sqn = ul.sqn /\ ~enc'[e].new
        /\ \A f \in Encoders : f # e => enc'[f].pc = "idle"
    BY <2>0, <2>1 DEF UlFree, EncIdle, EncRec
  <2>3. ~refused'
    BY <1>1, <2>0, Zenon DEF NASEncode, UlInv
  <2>4. \A f \in Encoders : Encoding(f)'
    BY <2>1, <2>2 DEF Encoding, Protected
  <2>5. phase = "run" => Ahead(amfUl, ul, lost + 1)
    BY <2>0 DEF UlInv, UlFree
  <2> QED
    BY <2>1, <2>2, <2>3, <2>4, <2>5 DEF UlInv, Alone, Active
<1>2. ASSUME NEW e \in Encoders,
             NASEncodeSqn(e) \/ NASEncodeMac(e) \/ NASEncodeLoad(e) \/ NASEncodeStore(e)
      PROVE  UlInv'
  <2>0. UlInv /\ UNCHANGED <<amfUl, lost, phase, amfKey, refused, ulOver>>
    BY <1>2, <1>b DEF NASEncodeSqn, NASEncodeMac, NASEncodeLoad, NASEncodeStore, dlVars
  <2>1. Active(e) /\ \A f \in Encoders : f # e => enc'[f] = enc[f] /\ ~Active(f)
    BY <1>2, <2>0 DEF NASEncodeSqn, NASEncodeMac, NASEncodeLoad, NASEncodeStore, UlInv, Alone,
                      Active
  <2>2. \A f \in Encoders : f # e => Encoding(f)'
    BY <2>1 DEF Encoding, Protected, Active
  <2>3. Alone' /\ ~refused'
    BY <2>0, <2>1 DEF UlInv, Alone, Active
  <2>4. phase = "run" /\ enc[e].pc # "send" => Ahead(amfUl, ul, lost + 1)
    BY <2>0, <2>1 DEF UlInv, Active
  <2>5. Encoding(e) /\ (enc[e].new => phase = "smc")
    BY <2>0, <2>1, <1>c DEF UlInv, Answers
  <2>6. CASE NASEncodeSqn(e)
    BY <1>d, <2>0, <2>2, <2>3, <2>4, <2>5, <2>6
       DEF NASEncodeSqn, UlInv, Encoding, Protected, EncRec
  <2>7. CASE NASEncodeMac(e)
    BY <1>d, <2>0, <2>2, <2>3, <2>4, <2>5, <2>7
       DEF NASEncodeMac, UlInv, Encoding, Protected, EncRec
  <2>8. CASE NASEncodeLoad(e)
    BY <2>0, <2>2, <2>3, <2>4, <2>5, <2>8
       DEF NASEncodeLoad, UlInv, Encoding, Protected, EncRec
  <2>9. CASE NASEncodeStore(e)
    <3>1. /\ enc[e].load = ul /\ enc[e].cnt = ul /\ ul' = AddOne(ul)
          /\ enc' = [enc EXCEPT ![e].pc = "send"]
      BY <2>5, <2>9 DEF NASEncodeStore, Encoding
    <3>2. Encoding(e)'
      BY <2>0, <2>4, <2>5, <2>9, <3>1 DEF NASEncodeStore, Encoding, Protected, EncRec
    <3> QED
      BY <2>0, <2>2, <2>3, <3>1, <3>2 DEF UlInv, EncRec
  <2> QED
    BY <1>2, <2>6, <2>7, <2>8, <2>9
<1>3. ASSUME NEW e \in Encoders, SendToGnb(e) PROVE UlInv'
  <2> DEFINE x == enc[e]
             heard == phase = IF x.new THEN "smc" ELSE "run"
  <2>0. UlInv /\ UNCHANGED <<ul, amfKey, ulOver>>
    BY <1>3, <1>b DEF SendToGnb, dlVars
  <2>1. /\ x.pc = "send" /\ Active(e) /\ Encoding(e) /\ (x.new => phase = "smc")
        /\ \A f \in Encoders : f # e => ~Active(f)
    BY <1>3, <1>c, <2>0 DEF SendToGnb, UlInv, Alone, Active, Answers
  <2>2. \A f \in Encoders : enc'[f].pc = "idle"
    BY <1>3, <2>1 DEF SendToGnb, Active, EncIdle
  <2>3. /\ lost' = IF heard THEN 0 ELSE lost
        /\ amfUl' = IF heard /\ Accepts(x) THEN x.cnt ELSE amfUl
        /\ phase' = IF heard /\ x.new THEN IF Accepts(x) THEN "run" ELSE "failed" ELSE phase
    BY <1>3 DEF SendToGnb
  <2>4. heard => Accepts(x) /\ x.sqn = x.cnt.sqn
    <3>1. CASE heard /\ x.new
      BY <2>1, <3>1 DEF Accepts, Encoding, Protected
    <3>2. CASE heard /\ ~x.new
      <4>1. Ahead(amfUl, x.cnt, lost + 1) /\ x.sqn = x.cnt.sqn /\ x.key = amfKey
        BY <2>1, <3>2 DEF Encoding, Protected
      <4>2. lost + 1 \in Nat /\ lost + 1 < SqnMod
        BY SqnModPositive
      <4>3. [Stepped(amfUl, x.sqn) EXCEPT !.sqn = x.sqn] = x.cnt
        BY <4>1, <4>2, SteppedAhead
      <4> QED
        BY <3>2, <4>1, <4>3 DEF Accepts
    <3> QED
      BY <3>1, <3>2
  <2>5. ~refused'
    <3>1. refused' = (refused \/ (heard /\ ~(Accepts(x) /\ x.sqn = x.cnt.sqn)))
      BY <1>3, Zenon DEF SendToGnb
    <3> QED
      BY <2>0, <2>4, <3>1, Zenon DEF UlInv
  <2>6. phase' = "run" => Ahead(amfUl', ul, lost' + 1)
    <3>1. ASSUME phase' = "run" PROVE heard
      BY <2>1, <2>3, <3>1
    <3>2. ul = AddOne(x.cnt) /\ Ahead(x.cnt, AddOne(x.cnt), 1)
      BY <2>1, AheadNext DEF Encoding
    <3> QED
      BY <2>3, <2>4, <3>1, <3>2
  <2>7. Alone' /\ \A f \in Encoders : Encoding(f)'
    BY <2>2 DEF Alone, Active, Encoding, Protected
  <2> QED
    BY <2>0, <2>5, <2>6, <2>7 DEF UlInv
<1>4. ASSUME NEW e \in Encoders, SendToGnbDropped(e) PROVE UlInv'
  <2>0. UlInv /\ UNCHANGED <<ul, amfUl, amfKey, refused, ulOver>>
    BY <1>4, <1>b DEF SendToGnbDropped, dlVars
  <2>1. /\ enc[e].pc = "send" /\ Active(e) /\ Encoding(e)
        /\ \A f \in Encoders : f # e => ~Active(f)
    BY <1>4, <2>0 DEF SendToGnbDropped, UlInv, Alone, Active
  <2>2. \A f \in Encoders : enc'[f].pc = "idle"
    BY <1>4, <2>1 DEF SendToGnbDropped, Active, EncIdle
  <2>3. phase' = "run" => Ahead(amfUl, ul, lost' + 1)
    <3> SUFFICES ASSUME phase' = "run" PROVE Ahead(amfUl, ul, lost' + 1)
      OBVIOUS
    <3>1. phase = "run" /\ lost' = lost + 1 /\ lost < MaxLoss
      BY <1>4 DEF SendToGnbDropped
    <3>2. Ahead(amfUl, enc[e].cnt, lost + 1) /\ ul = AddOne(enc[e].cnt)
      BY <2>1, <3>1 DEF Encoding
    <3>3. lost + 1 \in Nat /\ (lost + 1) + 1 < SqnMod
      BY <3>1, SqnModPositive
    <3>4. Ahead(amfUl, AddOne(enc[e].cnt), (lost + 1) + 1)
      BY <3>2, <3>3, AheadStep
    <3> QED
      BY <3>1, <3>2, <3>4
  <2>4. Alone' /\ \A f \in Encoders : Encoding(f)'
    BY <2>2 DEF Alone, Active, Encoding, Protected
  <2> QED
    BY <2>0, <2>3, <2>4 DEF UlInv
<1>5. ASSUME NEW h \in Handlers,
             \/ AmfNewContext(h) \/ HandlerAuthenticationRequest(h)
             \/ HandlerAuthenticationRequestFailed(h)
      PROVE  UlInv'
  <2>0. UlInv /\ UNCHANGED ulVars /\ phase' # "run" /\ phase # "smc"
    <3>1. phase # "smc"
      BY <1>5 DEF AmfNewContext, HandlerAuthenticationRequest,
             HandlerAuthenticationRequestFailed, ProcInv
    <3> QED
      BY <1>5, <1>b, <3>1 DEF AmfNewContext, HandlerAuthenticationRequest,
                           HandlerAuthenticationRequestFailed, ulVars
  <2>1. \A f \in Encoders : Protected(f) => ~enc[f].new
    BY <1>c, <2>0 DEF Answers, Active, Protected
  <2> QED
    BY <2>0, <2>1 DEF UlInv, Alone, Active, Encoding, Protected, ulVars
<1>6. ASSUME NEW h \in Handlers, AmfAuthenticate(h) PROVE UlInv'
  <2>0. UlInv /\ UNCHANGED <<ulVars, amfKey>> /\ phase' # "run"
    BY <1>6, <1>b DEF AmfAuthenticate, ulVars
  <2> QED
    BY <2>0 DEF UlInv, Alone, Active, Encoding, Protected, ulVars
<1>7. ASSUME UNCHANGED <<ulVars, phase, amfKey>> PROVE UlInv'
  <2>0. UlInv
    BY <1>7, <1>b DEF ulVars
  <2> QED
    BY <1>7, <2>0 DEF UlInv, Alone, Active, Encoding, Protected, ulVars
<1>8. ASSUME Lose \/ (\E h \in Handlers : \/ UeListen(h) \/ DispatchNasHeader(h)
                                          \/ DispatchNasOverflow(h) \/ DispatchNasSqn(h)
                                          \/ DispatchNasMac(h))
      PROVE  UlInv'
  BY <1>7, <1>8 DEF Lose, UeListen, DispatchNasHeader, DispatchNasOverflow, DispatchNasSqn,
                    DispatchNasMac
<1>9. CASE UNCHANGED vars
  BY <1>7, <1>9 DEF vars, dlVars
<1> QED
  BY <1>0, <1>1, <1>2, <1>3, <1>4, <1>5, <1>6, <1>8, <1>9 DEF Next, Downlink, Uplink

(* Whatever the widths of SQN and overflow, and with up to MaxLoss         *)
(* messages dropped in a row (fewer than a turn of the SQN), the AMF       *)
(* accepts every message of a UE whose encoders have not overlapped since  *)
(* its security context began.                                             *)
THEOREM Uplinks == Spec => []UplinkAccepted
<1> DEFINE Inv == ulOver \/ UlInv
<1>1. Init => Inv
  BY UlInit
<1>2. TypeOK /\ ProcInv /\ Inv /\ [Next]_vars => Inv'
  BY UlNext
<1>3. Inv => UplinkAccepted
  BY DEF UlInv, UplinkAccepted
<1> QED
  BY <1>1, <1>2, <1>3, TypeCorrect, Procedures, PTL DEF Spec

-----------------------------------------------------------------------------
(* A COUNT as one number, which a step increases by one unless all bits    *)
(* wrap.                                                                   *)
Val(c) == SqnMod * c.overflow + c.sqn

LEMMA ValType ==
  ASSUME NEW c \in Count
  PROVE  Val(c) \in Nat
BY ModAssumption DEF Val, Count

LEMMA ValZero == Val(Zero) = 0
BY ModAssumption DEF Val, Zero

LEMMA ValStep ==
  ASSUME NEW c \in Count, Val(c) + 1 < SqnMod * OverflowMod
  PROVE  Val(AddOne(c)) = Val(c) + 1
<1> USE SqnModPositive, ModAssumption
<1>1. CASE c.sqn + 1 # SqnMod
  BY <1>1 DEF Val, AddOne, Count
<1>2. CASE c.sqn + 1 = SqnMod
  <2> DEFINE o == c.overflow
  <2>1. o \in 0 .. OverflowMod - 1 /\ c.sqn \in 0 .. SqnMod - 1
    BY DEF Count
  <2>2. SqnMod * (o + 1) = SqnMod * o + SqnMod
    BY <2>1
  <2>3. Val(c) + 1 = SqnMod * (o + 1)
    <3>1. SqnMod * o \in Nat
      BY <2>1
    <3> QED
      BY <1>2, <2>1, <2>2, <3>1 DEF Val
  <2>4. o + 1 # OverflowMod
    BY <2>3
  <2>5. AddOne(c) = [overflow |-> o + 1, sqn |-> 0]
    BY <1>2, <2>4 DEF AddOne, NextOverflow
  <2> QED
    BY <2>1, <2>3, <2>5 DEF Val
<1> QED
  BY <1>1, <1>2

(* The strengthening of UlCountFresh: the stored count is at most the      *)
(* number of messages so far, plus the Security Mode Complete, so that it  *)
(* does not wrap; and the COUNTs used with these keys are below the stored *)
(* one, or up to it while the encoder that used it has not stepped it.     *)
Used(e) == enc[e].pc \in {"load", "store"}

CountInv ==
  /\ ups \in 0 .. MaxUp
  /\ Val(ul) <= ups + 1
  /\ \A e \in Encoders : enc[e].pc \notin {"idle", "send"} => Val(ul) <= ups

UsedInv ==
  /\ ~reused
  /\ \A c \in used : Val(c) <= Val(ul)
  /\ (\A e \in Encoders : ~Used(e)) => \A c \in used : Val(c) < Val(ul)

FreshInv == CountInv /\ (early \/ UsedInv)

LEMMA FreshInit == Init => FreshInv
<1> SUFFICES ASSUME Init PROVE FreshInv
  OBVIOUS
<1>1. Val(AddOne(Zero)) = 1
  <2>1. SqnMod * OverflowMod \in Nat /\ Val(Zero) + 1 < SqnMod * OverflowMod
    BY ValZero, ModAssumption, UpAssumption
  <2> QED
    BY <2>1, ValZero, ValStep, ZeroType
<1> QED
  BY <1>1, ValZero, UpAssumption DEF Init, FreshInv, CountInv, UsedInv, EncIdle

LEMMA UpsBound == Spec => [](ups \in 0 .. MaxUp)
<1> DEFINE Inv == ups \in 0 .. MaxUp
<1>1. Init => Inv
  BY UpAssumption DEF Init
<1>2. Inv /\ [Next]_vars => Inv'
  <2>1. ASSUME Inv, NEW e \in Encoders, NASEncode(e) PROVE Inv'
    BY <2>1, UpAssumption DEF NASEncode
  <2>2. ASSUME [Next]_vars, \A e \in Encoders : ~NASEncode(e) PROVE UNCHANGED ups
    BY <2>2
       DEF Next, Downlink, Uplink, Lose, UeListen, AmfAuthenticate,
           HandlerAuthenticationRequest, HandlerAuthenticationRequestFailed,
           AmfNewContext, DispatchNasHeader,
           DispatchNasOverflow, DispatchNasSqn, DispatchNasMac, NASEncodeSqn, NASEncodeMac,
           NASEncodeLoad, NASEncodeStore, SendToGnb, SendToGnbDropped, NASEncodeNewContext,
           vars, ulVars
  <2> QED
    BY <2>1, <2>2
<1> QED
  BY <1>1, <1>2, PTL DEF Spec

LEMMA FreshNext ==
  /\ ~ulOver' /\ TypeOK /\ ProcInv /\ ups \in 0 .. MaxUp
  /\ (ulOver \/ (UlInv /\ FreshInv)) /\ [Next]_vars
  => FreshInv'
<1> SUFFICES ASSUME ~ulOver', TypeOK, ProcInv, ups \in 0 .. MaxUp,
                    ulOver \/ (UlInv /\ FreshInv), [Next]_vars
             PROVE  FreshInv'
  OBVIOUS
<1>a. /\ ul \in Count /\ used \subseteq Count /\ reused \in BOOLEAN /\ early \in BOOLEAN
      /\ enc \in [Encoders -> EncRec] /\ Val(ul) \in Nat
      /\ \A c \in used : Val(c) \in Nat
  BY ValType DEF TypeOK
<1>b. ASSUME UNCHANGED ulOver PROVE UlInv /\ FreshInv
  BY <1>b
<1> USE <1>a, UpAssumption
<1>1. ASSUME NEW e \in Encoders, NASEncode(e) PROVE FreshInv'
  <2>1. UlFree /\ ~ulOver
    BY <1>1, Zenon DEF NASEncode
  <2>2. ups' = ups + 1 /\ ups' \in 0 .. MaxUp /\ UNCHANGED <<ul, used, reused, early>>
    BY <1>1 DEF NASEncode, keyVars
  <2>3. \A f \in Encoders : enc'[f].pc \in {"idle", "mac"}
    BY <1>1, <2>1 DEF NASEncode, UlFree, EncRec, EncIdle
  <2>4. CountInv /\ (early \/ UsedInv)
    BY <2>1 DEF FreshInv
  <2>5. CountInv'
    BY <2>2, <2>3, <2>4 DEF CountInv
  <2>6. UsedInv => UsedInv'
    BY <2>1, <2>2 DEF UsedInv, Used, UlFree
  <2> QED
    BY <2>2, <2>4, <2>5, <2>6 DEF FreshInv
<1>2. ASSUME NEW e \in Encoders, NASEncodeSqn(e) PROVE FreshInv'
  <2>1. /\ CountInv /\ (early \/ UsedInv) /\ UNCHANGED <<ul, ups, used, reused, early>>
        /\ enc[e].pc = "sqn"
    BY <1>2, <1>b DEF NASEncodeSqn, keyVars, FreshInv
  <2>2. enc'[e].pc = "mac" /\ \A f \in Encoders : f # e => enc'[f] = enc[f]
    BY <1>2 DEF NASEncodeSqn, EncRec
  <2>3. CountInv'
    BY <2>1, <2>2 DEF CountInv
  <2>4. UsedInv => UsedInv'
    BY <2>1, <2>2 DEF UsedInv, Used
  <2> QED
    BY <2>1, <2>3, <2>4 DEF FreshInv
<1>3. ASSUME NEW e \in Encoders, NASEncodeMac(e) PROVE FreshInv'
  <2>1. /\ CountInv /\ (early \/ UsedInv) /\ UlInv /\ UNCHANGED <<ul, ups>>
        /\ enc[e].pc = "mac" /\ used' = used \cup {ul}
    BY <1>3, <1>b DEF NASEncodeMac, FreshInv
  <2>2. enc'[e].pc = "load" /\ \A f \in Encoders : f # e => enc'[f] = enc[f] /\ enc[f].pc = "idle"
    BY <1>3, <2>1 DEF NASEncodeMac, EncRec, UlInv, Alone, Active
  <2>3. CountInv'
    BY <2>1, <2>2 DEF CountInv
  <2>4. ASSUME ~early' PROVE UsedInv'
    <3>1. ~early
      BY <1>3, <2>4, Zenon DEF NASEncodeMac
    <3>2. ul \notin used
      BY <2>1, <2>2, <3>1 DEF UsedInv, Used
    <3>3. ~reused'
      BY <1>3, <2>1, <3>1, <3>2, Zenon DEF NASEncodeMac, UsedInv
    <3>4. \A c \in used' : Val(c) <= Val(ul)
      BY <2>1, <3>1 DEF UsedInv
    <3> QED
      BY <2>1, <2>2, <3>3, <3>4 DEF UsedInv, Used
  <2>5. early' \in BOOLEAN
    BY <1>3 DEF NASEncodeMac
  <2> QED
    BY <2>3, <2>4, <2>5 DEF FreshInv
<1>4. ASSUME NEW e \in Encoders, NASEncodeLoad(e) PROVE FreshInv'
  <2>1. /\ CountInv /\ (early \/ UsedInv) /\ UNCHANGED <<ul, ups, used, reused, early>>
        /\ enc[e].pc = "load"
    BY <1>4, <1>b DEF NASEncodeLoad, keyVars, FreshInv
  <2>2. enc'[e].pc = "store" /\ \A f \in Encoders : f # e => enc'[f] = enc[f]
    BY <1>4 DEF NASEncodeLoad, EncRec
  <2>3. CountInv'
    BY <2>1, <2>2 DEF CountInv
  <2>4. UsedInv => UsedInv'
    BY <2>1, <2>2 DEF UsedInv, Used
  <2> QED
    BY <2>1, <2>3, <2>4 DEF FreshInv
<1>5. ASSUME NEW e \in Encoders, NASEncodeStore(e) PROVE FreshInv'
  <2>1. /\ CountInv /\ (early \/ UsedInv) /\ UlInv /\ UNCHANGED <<ups, used, reused, early>>
        /\ enc[e].pc = "store" /\ ul' = AddOne(enc[e].load)
    BY <1>5, <1>b DEF NASEncodeStore, keyVars, FreshInv
  <2>2. enc'[e].pc = "send" /\ \A f \in Encoders : f # e => enc'[f] = enc[f] /\ enc[f].pc = "idle"
    BY <1>5, <2>1 DEF NASEncodeStore, EncRec, UlInv, Alone, Active
  <2>3. ul' = AddOne(ul) /\ Val(ul) <= ups
    BY <2>1 DEF UlInv, Encoding, CountInv
  <2>4. Val(ul') = Val(ul) + 1
    <3>1. SqnMod * OverflowMod \in Nat
      BY ModAssumption
    <3>2. Val(ul) + 1 < SqnMod * OverflowMod
      BY <2>3, <3>1
    <3> QED
      BY <2>3, <3>2, ValStep
  <2>5. Val(ul)' = Val(ul')
    BY DEF Val
  <2>6. CountInv'
    BY <2>1, <2>2, <2>3, <2>4, <2>5 DEF CountInv
  <2>7. UsedInv => UsedInv'
    BY <2>1, <2>2, <2>4, <2>5 DEF UsedInv, Used
  <2> QED
    BY <2>1, <2>6, <2>7 DEF FreshInv
<1>6. ASSUME NEW e \in Encoders, SendToGnb(e) \/ SendToGnbDropped(e) PROVE FreshInv'
  <2>1. /\ CountInv /\ (early \/ UsedInv) /\ UNCHANGED <<ul, ups, used, reused, early>>
        /\ enc[e].pc = "send"
    BY <1>6, <1>b DEF SendToGnb, SendToGnbDropped, keyVars, FreshInv
  <2>2. enc'[e].pc = "idle" /\ \A f \in Encoders : f # e => enc'[f] = enc[f]
    BY <1>6 DEF SendToGnb, SendToGnbDropped, EncRec, EncIdle
  <2>3. CountInv'
    BY <2>1, <2>2 DEF CountInv
  <2>4. UsedInv => UsedInv'
    BY <2>1, <2>2 DEF UsedInv, Used
  <2> QED
    BY <2>1, <2>3, <2>4 DEF FreshInv
<1>7. ASSUME NEW h \in Handlers, NEW e \in Encoders, NASEncodeNewContext(h, e)
      PROVE  FreshInv'
  <2>1. \A f \in Encoders : enc'[f].pc \in {"idle", "sqn"}
    BY <1>7, UlNew
  <2>2. ul' = Zero /\ UNCHANGED <<ups, used, reused, early>> /\ disp[h].pc = "answer"
    BY <1>7 DEF NASEncodeNewContext
  <2>3. Val(ul)' = 0
    BY <2>2, ValZero DEF Val
  <2>4. early \/ (used = {} /\ ~reused)
    BY <2>2 DEF ProcInv, Commanded, Busy
  <2>5. CountInv'
    BY <2>2, <2>3 DEF CountInv
  <2>6. early \/ UsedInv'
    BY <2>2, <2>4 DEF UsedInv
  <2> QED
    BY <2>2, <2>5, <2>6 DEF FreshInv
<1>8. ASSUME NEW h \in Handlers, HandlerAuthenticationRequest(h) PROVE FreshInv'
  <2>1. CountInv /\ UNCHANGED ulVars /\ used' = {} /\ ~reused'
    BY <1>8, <1>b DEF HandlerAuthenticationRequest, ulVars, FreshInv
  <2>2. CountInv'
    BY <2>1 DEF CountInv, ulVars, Val
  <2>3. UsedInv'
    BY <2>1 DEF UsedInv
  <2> QED
    BY <2>2, <2>3 DEF FreshInv
<1>9. ASSUME UNCHANGED <<ulVars, keyVars>> PROVE FreshInv'
  <2>1. CountInv /\ (early \/ UsedInv)
    BY <1>9, <1>b DEF ulVars, FreshInv
  <2>2. CountInv' /\ UNCHANGED early
    BY <1>9, <2>1 DEF CountInv, ulVars, keyVars, Val
  <2>3. UsedInv => UsedInv'
    BY <1>9 DEF UsedInv, Used, ulVars, keyVars, Val
  <2> QED
    BY <2>1, <2>2, <2>3 DEF FreshInv
<1>10. ASSUME Lose \/ (\E h \in Handlers : \/ UeListen(h) \/ AmfAuthenticate(h) \/ AmfNewContext(h)
                                           \/ HandlerAuthenticationRequestFailed(h)
                                           \/ DispatchNasHeader(h) \/ DispatchNasOverflow(h)
                                           \/ DispatchNasSqn(h) \/ DispatchNasMac(h))
       PROVE  FreshInv'
  BY <1>9, <1>10 DEF Lose, UeListen, AmfAuthenticate, AmfNewContext, DispatchNasHeader,
                     HandlerAuthenticationRequestFailed,
                     DispatchNasOverflow, DispatchNasSqn, DispatchNasMac
<1>11. CASE UNCHANGED vars
  BY <1>9, <1>11 DEF vars
<1> QED
  BY <1>1, <1>2, <1>3, <1>4, <1>5, <1>6, <1>7, <1>8, <1>10, <1>11 DEF Next, Downlink, Uplink

(* Whatever the widths, a UE whose encoders do not overlap, and which      *)
(* sends nothing between an authentication and the Security Mode Complete, *)
(* uses no uplink COUNT twice with the same keys, as long as it sends      *)
(* fewer messages than there are COUNTs.                                   *)
THEOREM Fresh == Spec => []UlCountFresh
<1> DEFINE Inv == ulOver \/ (UlInv /\ FreshInv)
<1>1. Init => Inv
  BY UlInit, FreshInit
<1>2. TypeOK /\ ProcInv /\ ups \in 0 .. MaxUp /\ Inv /\ [Next]_vars => Inv'
  BY UlNext, FreshNext
<1>3. Inv => UlCountFresh
  BY DEF FreshInv, UsedInv, UlCountFresh
<1> QED
  BY <1>1, <1>2, <1>3, TypeCorrect, Procedures, UpsBound, PTL DEF Spec

============================================================================
