------------------------------ MODULE NasCount ------------------------------
(***************************************************************************)
(* The NAS COUNTs of one UE: lib/nas/security/counter.go, the downlink     *)
(* estimate of DispatchNas (ue/nas/dispatcher.go) and the uplink count of  *)
(* NASEncode (integrity-ciphering-nas.go).                                 *)
(*                                                                         *)
(* A MAC verifies exactly when both sides used the same keys and the same  *)
(* COUNT, so a message is its COUNT and the number of its key set.         *)
(* UeListen runs one goroutine per downlink message and every handler that *)
(* answers encodes in its own goroutine; nothing locks the counts or the   *)
(* keys, and a new security context waits for nobody.  dlOver and ulOver   *)
(* record that two goroutines of one kind have run at the same time since  *)
(* the current security context began.                                     *)
(***************************************************************************)
EXTENDS Naturals

CONSTANTS
  SqnMod,       \* 2^8 in the code
  OverflowMod,  \* 2^16 in the code
  Handlers,     \* goroutines that dispatch downlink messages
  Encoders,     \* goroutines that encode uplink messages
  MaxLoss,      \* longest run of messages lost on the way, in each direction
  MaxDown,      \* bound: downlink messages
  MaxUp,        \* bound: uplink messages
  MaxMsgs       \* bound: messages in both directions together

ASSUME ModAssumption   == SqnMod \in Nat /\ OverflowMod \in Nat \ {0}
ASSUME LossAssumption  == MaxLoss \in Nat /\ MaxLoss + 1 < SqnMod
ASSUME UpAssumption    == MaxUp \in Nat /\ MaxUp + 1 < SqnMod * OverflowMod

VARIABLES
  key,      \* key set the UE uses (KnasInt, KnasEnc), by its number
  dl,       \* UeSecurity.DLCount
  ul,       \* UeSecurity.ULCount
  disp,     \* per handler goroutine: where it is and the message it has
  enc,      \* per encoder goroutine: where it is and what it has read
  amfKey,   \* key set the AMF uses
  phase,    \* the AMF's authentication and security mode procedures
  next,     \* COUNT of the AMF's next downlink message
  gap,      \* downlink messages lost since the last one that arrived
  amfUl,    \* COUNT of the last uplink message the AMF accepted
  lost,     \* uplink messages lost since then
  rejected, \* kinds of message the UE has dropped under this context
  refused,  \* the AMF has refused an uplink message of this context
  used,     \* uplink COUNTs used in MACs with these keys
  reused,   \* one of them has been used twice
  restarted,\* the counts have restarted since the keys were taken
  early,    \* an uplink message used these keys before they had
  dlOver,   \* dispatches have overlapped under this context
  ulOver,   \* encoders have overlapped under this context
  downs, ups

dlVars == <<dl, disp, amfKey, next, gap, rejected, dlOver, downs>>
ulVars == <<ul, enc, amfUl, lost, refused, ulOver, ups>>
keyVars == <<key, used, reused, restarted, early>>
vars   == <<dlVars, ulVars, keyVars, phase>>

Count == [overflow : 0 .. OverflowMod - 1, sqn : 0 .. SqnMod - 1]
Zero  == [overflow |-> 0, sqn |-> 0]

(* Mutant: the overflow is not cut to 16 bits.                             *)
NextOverflow_NoWrap(o) == o + 1

(* SetOverflow(Overflow() + 1): uint16 arithmetic.                         *)
NextOverflow(o) == IF o + 1 = OverflowMod THEN 0 ELSE o + 1

(* AddOne: 24-bit increment of overflow || sqn.                            *)
AddOne(c) ==
  IF c.sqn + 1 = SqnMod THEN [overflow |-> NextOverflow(c.overflow), sqn |-> 0]
                        ELSE [c EXCEPT !.sqn = @ + 1]

(* How a receiver completes a received SQN with the count it has stored:   *)
(* the overflow is stepped when the stored SQN is above the received one.  *)
Stepped(c, sqn) ==
  IF c.sqn > sqn THEN [c EXCEPT !.overflow = NextOverflow(@)] ELSE c

Idle    == [pc |-> "idle", msg |-> Zero, key |-> 0, new |-> FALSE]
EncIdle == [pc |-> "idle", sqn |-> 0, cnt |-> Zero, key |-> 0, load |-> Zero,
            new |-> FALSE]

(* The state after the first Security Mode Complete, whose COUNT is 0.     *)
Init ==
  /\ key = 0 /\ dl = Zero /\ ul = AddOne(Zero)
  /\ disp = [h \in Handlers |-> Idle] /\ enc = [e \in Encoders |-> EncIdle]
  /\ amfKey = 0 /\ phase = "run"
  /\ next = AddOne(Zero) /\ gap = 0 /\ amfUl = Zero /\ lost = 0
  /\ rejected = {} /\ refused = FALSE
  /\ used = {Zero} /\ reused = FALSE /\ restarted = TRUE /\ early = FALSE
  /\ dlOver = FALSE /\ ulOver = FALSE /\ downs = 0 /\ ups = 0

-----------------------------------------------------------------------------
(* Downlink                                                                *)

(* No protected message is being dispatched.                               *)
DlFree == \A h \in Handlers : disp[h].pc \in {"idle", "auth"}

(* UeListen starts a goroutine for the message that arrives.               *)
Listens(h, x) ==
  /\ downs < MaxDown /\ downs + ups < MaxMsgs /\ downs' = downs + 1
  /\ disp[h].pc = "idle"
  /\ disp' = [disp EXCEPT ![h] = x]

UeListen(h) ==
  /\ Listens(h, [pc |-> "check", msg |-> next, key |-> amfKey, new |-> FALSE])
  /\ dlOver' = (dlOver \/ ~DlFree)
  /\ next' = AddOne(next) /\ gap' = 0
  /\ UNCHANGED <<dl, amfKey, phase, rejected, ulVars, keyVars>>

(* A message is lost before the UE (chaos rules of the gNB side, a write   *)
(* that fails).                                                            *)
Lose ==
  /\ downs < MaxDown /\ downs + ups < MaxMsgs /\ gap < MaxLoss
  /\ next' = AddOne(next) /\ gap' = gap + 1 /\ downs' = downs + 1
  /\ UNCHANGED <<dl, disp, amfKey, phase, rejected, dlOver, ulVars, keyVars>>

(* The AMF (external) challenges the UE; the request is not protected.     *)
AmfAuthenticate(h) ==
  /\ phase \in {"run", "failed"} /\ phase' = "auth"
  /\ Listens(h, [pc |-> "auth", msg |-> Zero, key |-> 0, new |-> FALSE])
  /\ UNCHANGED <<dl, amfKey, next, gap, rejected, dlOver, ulVars, keyVars>>

(* DeriveRESstarAndSetKey replaces the keys that are in use at once, while *)
(* the counts go on until the Security Mode Complete.  The answer may be   *)
(* lost, and then the AMF's procedure fails.                               *)
HandlerAuthenticationRequest(h) ==
  /\ disp[h].pc = "auth"
  /\ disp' = [disp EXCEPT ![h] = Idle]
  /\ key' = key + 1
  /\ used' = {} /\ reused' = FALSE /\ restarted' = FALSE /\ early' = FALSE
  /\ phase' \in {"answered", "failed"}
  /\ UNCHANGED <<dl, amfKey, next, gap, rejected, dlOver, downs, ulVars>>

(* A challenge whose MAC or sequence number does not fit leaves the keys   *)
(* alone, and the AMF's procedure fails.                                   *)
HandlerAuthenticationRequestFailed(h) ==
  /\ disp[h].pc = "auth"
  /\ disp' = [disp EXCEPT ![h] = Idle]
  /\ phase' = "failed"
  /\ UNCHANGED <<dl, amfKey, next, gap, rejected, dlOver, downs, ulVars, keyVars>>

(* The AMF (external) takes the new keys and commands a new security       *)
(* context, with COUNT 0.  Messages it sent before may still be under way. *)
AmfNewContext(h) ==
  /\ phase = "answered" /\ phase' = "smc"
  /\ Listens(h, [pc |-> "header", msg |-> Zero, key |-> key, new |-> TRUE])
  /\ amfKey' = key /\ next' = AddOne(Zero) /\ gap' = 0
  /\ rejected' = {} /\ dlOver' = ~DlFree
  /\ UNCHANGED <<dl, ulVars, keyVars>>

(* Mutant: the count does not restart.                                     *)
DispatchNasHeader_NoReset(h) ==
  /\ disp[h].pc = "header"
  /\ disp' = [disp EXCEPT ![h].pc = "check"]
  /\ UNCHANGED <<dl, amfKey, phase, next, gap, rejected, dlOver, downs, ulVars, keyVars>>

(* Security header "new 5G NAS security context": the count restarts.      *)
DispatchNasHeader(h) ==
  /\ disp[h].pc = "header"
  /\ dl' = Zero
  /\ disp' = [disp EXCEPT ![h].pc = "check"]
  /\ UNCHANGED <<amfKey, phase, next, gap, rejected, dlOver, downs, ulVars, keyVars>>

(* Mutant: the wrap of the sequence number is not noticed.                 *)
DispatchNasOverflow_NoWrap(h) ==
  /\ disp[h].pc = "check"
  /\ disp' = [disp EXCEPT ![h].pc = "sqn"]
  /\ UNCHANGED <<dl, amfKey, phase, next, gap, rejected, dlOver, downs, ulVars, keyVars>>

DispatchNasOverflow(h) ==
  /\ disp[h].pc = "check"
  /\ dl' = Stepped(dl, disp[h].msg.sqn)
  /\ disp' = [disp EXCEPT ![h].pc = "sqn"]
  /\ UNCHANGED <<amfKey, phase, next, gap, rejected, dlOver, downs, ulVars, keyVars>>

DispatchNasSqn(h) ==
  /\ disp[h].pc = "sqn"
  /\ dl' = [dl EXCEPT !.sqn = disp[h].msg.sqn]
  /\ disp' = [disp EXCEPT ![h].pc = "mac"]
  /\ UNCHANGED <<amfKey, phase, next, gap, rejected, dlOver, downs, ulVars, keyVars>>

(* The MAC is computed over the count as it is now; a message that does    *)
(* not verify is dropped, and the count stays as it was set.  A message of *)
(* a key set the UE no longer has cannot verify and is not held against    *)
(* the count.                                                              *)
DispatchNasMac(h) ==
  /\ disp[h].pc = "mac"
  /\ LET verified == dl = disp[h].msg /\ key = disp[h].key IN
     /\ rejected' = IF dl # disp[h].msg /\ disp[h].key = key /\ key = amfKey
                    THEN rejected \cup {disp[h].new} ELSE rejected
     /\ disp' = [disp EXCEPT ![h] = IF verified /\ disp[h].new
                                    THEN [@ EXCEPT !.pc = "answer"] ELSE Idle]
  /\ UNCHANGED <<dl, amfKey, phase, next, gap, dlOver, downs, ulVars, keyVars>>

-----------------------------------------------------------------------------
(* Uplink                                                                  *)

UlFree == \A e \in Encoders : enc[e].pc = "idle"

(* NASEncode without a new context reads the SQN of the header ...         *)
NASEncode(e) ==
  /\ ups < MaxUp /\ downs + ups < MaxMsgs /\ ups' = ups + 1
  /\ enc[e].pc = "idle"
  /\ ulOver' = (ulOver \/ ~UlFree)
  /\ enc' = [enc EXCEPT ![e] = [EncIdle EXCEPT !.pc = "mac", !.sqn = ul.sqn]]
  /\ UNCHANGED <<ul, amfUl, lost, refused, dlVars, keyVars, phase>>

(* Mutant: the SQN of the header is read before the counts restart.        *)
NASEncodeNewContext_SqnFirst(h, e) ==
  /\ disp[h].pc = "answer"
  /\ enc[e].pc = "idle"
  /\ ul' = Zero /\ dl' = Zero /\ restarted' = TRUE
  /\ ulOver' = ~UlFree /\ refused' = FALSE
  /\ enc' = [enc EXCEPT ![e] = [EncIdle EXCEPT !.pc = "mac", !.sqn = ul.sqn, !.new = TRUE]]
  /\ disp' = [disp EXCEPT ![h] = Idle]
  /\ UNCHANGED <<amfKey, phase, next, gap, rejected, dlOver, downs, amfUl, lost, ups,
                 key, used, reused, early>>

(* ... for Security Mode Complete both counts restart first.  The handler  *)
(* of the Security Mode Command encodes in its own goroutine.              *)
NASEncodeNewContext(h, e) ==
  /\ disp[h].pc = "answer"
  /\ enc[e].pc = "idle"
  /\ ul' = Zero /\ dl' = Zero /\ restarted' = TRUE
  /\ ulOver' = ~UlFree /\ refused' = FALSE
  /\ enc' = [enc EXCEPT ![e] = [EncIdle EXCEPT !.pc = "sqn", !.new = TRUE]]
  /\ disp' = [disp EXCEPT ![h] = Idle]
  /\ UNCHANGED <<amfKey, phase, next, gap, rejected, dlOver, downs, amfUl, lost, ups,
                 key, used, reused, early>>

NASEncodeSqn(e) ==
  /\ enc[e].pc = "sqn"
  /\ enc' = [enc EXCEPT ![e].pc = "mac", ![e].sqn = ul.sqn]
  /\ UNCHANGED <<ul, amfUl, lost, refused, ulOver, ups, dlVars, keyVars, phase>>

(* The payload is ciphered and the MAC computed with the keys and the      *)
(* count as they are now.                                                  *)
NASEncodeMac(e) ==
  /\ enc[e].pc = "mac"
  /\ used'   = used \cup {ul}
  /\ reused' = (reused \/ ul \in used)
  /\ early'  = (early \/ ~restarted)
  /\ enc' = [enc EXCEPT ![e].pc = "load", ![e].cnt = ul, ![e].key = key]
  /\ UNCHANGED <<ul, amfUl, lost, refused, ulOver, ups, dlVars, key, restarted, phase>>

(* AddOne is count++: a load ...                                           *)
NASEncodeLoad(e) ==
  /\ enc[e].pc = "load"
  /\ enc' = [enc EXCEPT ![e].pc = "store", ![e].load = ul]
  /\ UNCHANGED <<ul, amfUl, lost, refused, ulOver, ups, dlVars, keyVars, phase>>

(* Mutant: the count is not stepped.                                       *)
NASEncodeStore_NotStepped(e) ==
  /\ enc[e].pc = "store"
  /\ ul' = enc[e].load
  /\ enc' = [enc EXCEPT ![e].pc = "send"]
  /\ UNCHANGED <<amfUl, lost, refused, ulOver, ups, dlVars, keyVars, phase>>

(* ... and a store.                                                        *)
NASEncodeStore(e) ==
  /\ enc[e].pc = "store"
  /\ ul' = AddOne(enc[e].load)
  /\ enc' = [enc EXCEPT ![e].pc = "send"]
  /\ UNCHANGED <<amfUl, lost, refused, ulOver, ups, dlVars, keyVars, phase>>

(* The AMF (external) completes the SQN it receives with the COUNT of the  *)
(* last message it accepted and checks the MAC.                            *)
Accepts(x) ==
  x.key = amfKey
    /\ x.cnt = IF x.new THEN Zero ELSE [Stepped(amfUl, x.sqn) EXCEPT !.sqn = x.sqn]

(* SendToGnb: the message reaches the AMF, which listens to anything in    *)
(* normal operation and to the Security Mode Complete alone during its     *)
(* procedure; without the Complete the procedure fails.                    *)
SendToGnb(e) ==
  /\ enc[e].pc = "send"
  /\ enc' = [enc EXCEPT ![e] = EncIdle]
  /\ LET x     == enc[e]
         heard == phase = IF x.new THEN "smc" ELSE "run"
     IN  /\ lost'    = IF heard THEN 0 ELSE lost
         /\ amfUl'   = IF heard /\ Accepts(x) THEN x.cnt ELSE amfUl
         /\ refused' = (refused \/ (heard /\ ~(Accepts(x) /\ x.sqn = x.cnt.sqn)))
         /\ phase'   = IF heard /\ x.new THEN IF Accepts(x) THEN "run" ELSE "failed"
                       ELSE phase
  /\ UNCHANGED <<ul, ulOver, ups, dlVars, keyVars>>

(* The chaos rules drop it.                                                *)
SendToGnbDropped(e) ==
  /\ enc[e].pc = "send" /\ lost < MaxLoss
  /\ enc' = [enc EXCEPT ![e] = EncIdle]
  /\ lost' = lost + 1
  /\ phase' = IF phase = "smc" /\ enc[e].new THEN "failed" ELSE phase
  /\ UNCHANGED <<ul, amfUl, refused, ulOver, ups, dlVars, keyVars>>

-----------------------------------------------------------------------------
Downlink ==
  \/ Lose
  \/ \E h \in Handlers : \/ UeListen(h) \/ AmfAuthenticate(h)
                         \/ HandlerAuthenticationRequest(h)
                         \/ HandlerAuthenticationRequestFailed(h) \/ AmfNewContext(h)
                         \/ DispatchNasHeader(h) \/ DispatchNasOverflow(h)
                         \/ DispatchNasSqn(h) \/ DispatchNasMac(h)

Uplink ==
  \/ \E e \in Encoders : \/ NASEncode(e) \/ NASEncodeSqn(e) \/ NASEncodeMac(e)
                         \/ NASEncodeLoad(e) \/ NASEncodeStore(e)
                         \/ SendToGnb(e) \/ SendToGnbDropped(e)
  \/ \E h \in Handlers, e \in Encoders : NASEncodeNewContext(h, e)

Next == Downlink \/ Uplink

Spec == Init /\ [][Next]_vars

-----------------------------------------------------------------------------
(* Properties                                                              *)

Pcs    == {"idle", "auth", "header", "check", "sqn", "mac", "answer"}
EncPcs == {"idle", "sqn", "mac", "load", "store", "send"}
Phases == {"run", "auth", "answered", "smc", "failed"}

DispRec == [pc : Pcs, msg : Count, key : Nat, new : BOOLEAN]
EncRec  == [pc : EncPcs, sqn : 0 .. SqnMod - 1, cnt : Count, key : Nat, load : Count,
            new : BOOLEAN]

(* Every variable keeps its type: the counts stay within 16 and 8 bits.    *)
TypeOK ==
  /\ key \in Nat /\ dl \in Count /\ ul \in Count
  /\ disp \in [Handlers -> DispRec] /\ enc \in [Encoders -> EncRec]
  /\ amfKey \in Nat /\ phase \in Phases
  /\ next \in Count /\ gap \in 0 .. MaxLoss /\ amfUl \in Count /\ lost \in 0 .. MaxLoss
  /\ rejected \subseteq BOOLEAN /\ refused \in BOOLEAN
  /\ used \subseteq Count /\ reused \in BOOLEAN
  /\ restarted \in BOOLEAN /\ early \in BOOLEAN
  /\ dlOver \in BOOLEAN /\ ulOver \in BOOLEAN /\ downs \in Nat /\ ups \in Nat

(* As long as no two dispatches have overlapped since the security context *)
(* began, the UE's estimate of the downlink COUNT is right for every       *)
(* message: none is dropped with a MAC failure, across wraps of the SQN    *)
(* and of the whole COUNT, and whatever was lost in between (DispatchNas). *)
InOrderAccepted == dlOver \/ FALSE \notin rejected

(* Overlapping dispatches can leave the count one overflow ahead, and then *)
(* every message is dropped.  A Security Mode Command with a new context   *)
(* is accepted all the same and repairs the UE, unless a message of the    *)
(* old context is being dispatched beside the command itself.              *)
NewContextAccepted == dlOver \/ TRUE \notin rejected

(* No uplink COUNT is used twice with the same keys before the 24 bits     *)
(* wrap (NASEncode), unless encoders have overlapped since the context     *)
(* began or a message was encoded between the authentication, which        *)
(* replaces the keys, and the Security Mode Complete, which restarts the   *)
(* count.                                                                  *)
UlCountFresh == ulOver \/ early \/ ~reused

(* The AMF, which sees only the SQN of an uplink message, completes it to  *)
(* the COUNT that NASEncode has computed the MAC with, and accepts the     *)
(* message: over wraps, messages dropped by the chaos rules and restarts   *)
(* of the count, as long as no two encoders have overlapped since the      *)
(* context began.                                                          *)
UplinkAccepted == ulOver \/ ~refused

=============================================================================
