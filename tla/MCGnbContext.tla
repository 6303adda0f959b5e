---------------------------- MODULE MCGnbContext ----------------------------
(***************************************************************************)
(* Two UEs with one session each, two messages handled at a time beside    *)
(* the goroutine that accepts links.  UEs and handlers are                 *)
(* interchangeable.                                                        *)
(*                                                                         *)
(* A run also starts where some UEs have already been accepted and had     *)
(* their Initial Context Setup, so that its messages are left for what     *)
(* follows; Start messages are then counted as spent.                      *)
(***************************************************************************)
EXTENDS GnbContext, FiniteSets, TLC

CONSTANTS u1, u2, h1, h2, Start
MCUes == {u1, u2}
MCHandlers == {h1, h2}
Symmetry == Permutations(MCUes) \cup Permutations(MCHandlers)

(* n[u] is the place of u in the order in which the UEs of A came.         *)
Attached(A, n) ==
  LET addr(u) == (FirstIp + n[u] - 1) % IpMod
      k       == Cardinality(A)
  IN
  /\ st = [u \in Ues |-> IF u \in A THEN "ongoing" ELSE "absent"]
  /\ amfUeId = [u \in Ues |-> IF u \in A THEN n[u] ELSE 0]
  /\ nssai = [u \in Ues |-> u \in A]
  /\ ran = amfUeId /\ uePool = A /\ ranGen = k + 1
  /\ ctx = [u \in Ues |-> IF u \in A THEN [teid |-> n[u], ip |-> addr(u)] ELSE NoTunnel]
  /\ sess = [u \in Ues |-> [s \in Sessions |-> NoTunnel]]
  /\ teidPool = [t \in Teids |-> IF t <= k THEN CHOOSE u \in A : n[u] = t ELSE NoUe]
  /\ ueIpPool = [i \in Ips |-> IF \E u \in A : addr(u) = i
                               THEN CHOOSE u \in A : addr(u) = i ELSE NoUe]
  /\ teidGen = k + 1 /\ ipGen = (FirstIp + k) % IpMod
  /\ thr = [h \in Threads |-> Free]
  /\ amfConn = amfUeId /\ amfSetup = nssai
  /\ amfRel = [u \in Ues |-> FALSE] /\ amfSwitch = amfRel /\ amfNext = k + 1
  /\ msgs = Start
  /\ told = [u \in Ues |-> {}] /\ toldIp = [u \in Ues |-> {}]
  /\ took = [u \in Ues |-> IF u \in A THEN {n[u]} ELSE {}]
  /\ teidOver = FALSE /\ ipOver = FALSE /\ ips = k
  /\ switched = {} /\ released = {}

MCInit ==
  \/ Init
  \/ \E A \in SUBSET Ues \ {{}} : \E n \in [A -> 1 .. Cardinality(A)] :
       (\A u, v \in A : n[u] = n[v] => u = v) /\ Attached(A, n)

MCSpec == MCInit /\ [][Next]_vars

=============================================================================
