--------------------------- MODULE MCProfileStore ---------------------------
(***************************************************************************)
(* The fleet's UE profiles (the gNB's are alike) and AMF profiles (the     *)
(* slices and the security profiles are alike), the users and the          *)
(* scenarios.  There is one name for requests, which is also that of the   *)
(* default AMF profile.  Two batches see the same clock.  One import       *)
(* empties the UE profiles, another brings two of one name.                *)
(***************************************************************************)
EXTENDS ProfileStore

CONSTANTS n1, v1, v2, b1, b2, t1
MCLists    == {"ue", "amf", "users", "scenarios"}
MCStores   == {"fleet", "users", "scenarios"}
MCStoreOf  == [l \in MCLists |-> IF l \in {"users", "scenarios"} THEN l ELSE "fleet"]
MCNames    == {n1}
MCContent(c) == [n \in MCNames \cup ({t1} \X (1 .. MaxCount)) |-> IF n = n1 THEN c ELSE <<>>]
MCDefaults == [l \in {"amf"} |-> MCContent(<<v1>>)]
MCImports  == {[l \in {"ue"} |-> MCContent(<<>>)], [l \in {"ue"} |-> MCContent(<<v2, v2>>)]}

=============================================================================
