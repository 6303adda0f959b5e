------------------------ MODULE ProfileStore_proofs ------------------------
(***************************************************************************)
(* Proofs about ProfileStore, for any stores, lists, names, batches and    *)
(* imports and any number of requests and stops: type correctness, that    *)
(* what is saved agrees with the memory, that an acknowledged change lasts *)
(* and that the temporary profiles of batches do not stay and are what the *)
(* batches launch from.                                                    *)
(***************************************************************************)
EXTENDS ProfileStore, TLAPS

Some    == Entries \cup {Free, Gone}
SaveRec == [at : {"free", "open", "write"}, by : {"web", "start"} \cup Batches,
            l : Lists, n : AllNames \cup {NoName}, val : Some]
FileRec == [st : {"absent", "torn", "ok"}, data : [Lists -> Content]]
BatchRec == [pc : {"idle", "next", "upsert", "launch", "launched", "delete", "done"},
             i : 0 .. MaxCount, name : Temps \cup {NoName}]

StoreType ==
  /\ up \in {"down", "starting", "up"} /\ mem \in [Lists -> Content]
  /\ file \in [Stores -> FileRec] /\ saving \in [Stores -> SaveRec]
  /\ due \in [Lists -> [Names -> Some]] /\ saved \subseteq Stores

(* What the memory and the file have to keep.                              *)
Promised(l, n) == due[l][n] # Free /\ ~(due[l][n] = Gone /\ l \in Refilled)

(* A save belongs to its store, and the memory has what it will promise    *)
(* when it succeeds.  A file that is being written does not count as saved.*)
LockInv ==
  \A s \in Stores :
    /\ saving[s].at # "free" =>
         /\ up # "down" /\ StoreOf[saving[s].l] = s
         /\ saving[s].n \in Names /\ saving[s].val # Free =>
              Get(saving[s].l, saving[s].n) = saving[s].val
    /\ saving[s].at = "write" => s \notin saved

(* What is promised is in the memory of a server that runs, and in every   *)
(* file that is whole; while the server is down, the file is whole.        *)
MemAck  == up # "down" => \A l \in Lists, n \in Names : Promised(l, n) => Get(l, n) = due[l][n]
DiskAck == \A l \in Lists, n \in Names : Promised(l, n) =>
             /\ file[StoreOf[l]].st = "ok" => First(file[StoreOf[l]].data[l][n]) = due[l][n]
             /\ up = "down" => file[StoreOf[l]].st = "ok"

StoreInv == StoreType /\ LockInv /\ SavedAgrees /\ MemAck /\ DiskAck

-----------------------------------------------------------------------------
(* Sequences of entries.                                                   *)
LEMMA UpsertedSeq ==
  ASSUME NEW c \in Seq(Entries), NEW v \in Entries
  PROVE  /\ Upserted(c, v) \in Seq(Entries) /\ First(Upserted(c, v)) = v
         /\ Len(c) <= 1 => Len(Upserted(c, v)) <= 1
<1>1. CASE c = <<>>
  <2>1. Upserted(c, v) = <<v>>
      BY <1>1 DEF Upserted
  <2> QED BY <2>1 DEF First
<1>2. CASE c # <<>>
  <2>1. Upserted(c, v) = [c EXCEPT ![1] = v] /\ Len(c) \in Nat /\ Len(c) >= 1
      BY <1>2 DEF Upserted
  <2>2. [c EXCEPT ![1] = v] \in Seq(Entries) /\ Len([c EXCEPT ![1] = v]) = Len(c)
      BY <2>1
  <2>3. [c EXCEPT ![1] = v][1] = v /\ [c EXCEPT ![1] = v] # <<>>
      BY <2>1, <2>2
  <2> QED BY <2>1, <2>2, <2>3 DEF First
<1> QED BY <1>1, <1>2

LEMMA OneSeq ==
  ASSUME NEW v \in Entries
  PROVE  <<v>> \in Seq(Entries) /\ First(<<v>>) = v
  BY DEF First

LEMMA TailSeq ==
  ASSUME NEW c \in Seq(Entries), c # <<>>
  PROVE  /\ Tail(c) \in Seq(Entries)
         /\ Len(c) <= 1 => Tail(c) = <<>>
  OBVIOUS

LEMMA Sets ==
  /\ "ue" \in Lists /\ StoreOf["ue"] = Fleet /\ "ue" \notin Refilled /\ Fleet \in Stores
  /\ "users" \in Lists /\ "scenarios" \in Lists
  /\ \A l \in Lists : StoreOf[l] \in Stores
  /\ \A s : Listed(s) \subseteq Lists /\ \A l \in Lists : l \in Listed(s) <=> StoreOf[l] = s
  /\ Empty \in Content /\ NoLists \in [Lists -> Content]
  /\ \A l \in Lists, c \in Content : Load(l, c) \in Content
  /\ Names \subseteq AllNames /\ Temps \subseteq AllNames /\ NoName \notin AllNames
  BY ListsAssumption, DefaultsAssumption, NamesAssumption
     DEF Listed, Empty, NoLists, Load, Content, AllNames

LEMMA Saves ==
  /\ NoSave \in SaveRec /\ NoSave.at = "free" /\ NoSave.n = NoName /\ NoSave.l = "ue"
  /\ NoSave.by = "web"
  BY Sets DEF NoSave, SaveRec, Some

-----------------------------------------------------------------------------
LEMMA InitStore == Init => StoreInv
<1> SUFFICES ASSUME Init PROVE StoreInv
    OBVIOUS
<1>1. [st |-> "absent", data |-> NoLists] \in FileRec
    BY Sets DEF FileRec
<1>2. StoreType
    BY <1>1, Sets, Saves DEF Init, StoreType, Some
<1>3. LockInv /\ SavedAgrees
    BY Saves DEF Init, LockInv, SavedAgrees
<1>4. MemAck /\ DiskAck
    BY DEF Init, MemAck, DiskAck, Promised
<1> QED BY <1>2, <1>3, <1>4 DEF StoreInv

LEMMA SameStore ==
  ASSUME StoreInv, UNCHANGED storeVars, up' = up \/ (up = "starting" /\ up' = "up")
  PROVE  StoreInv'
<1>1. StoreType'
    BY DEF StoreInv, StoreType, storeVars
<1>2. LockInv'
    BY DEF StoreInv, LockInv, storeVars, Get, StoreType
<1>3. SavedAgrees'
    BY DEF StoreInv, SavedAgrees, storeVars
<1>4. MemAck' /\ DiskAck'
    BY DEF StoreInv, MemAck, DiskAck, Promised, Get, storeVars, StoreType
<1> QED BY <1>1, <1>2, <1>3, <1>4 DEF StoreInv

(* A change keeps the invariant: it holds the lock of its store, and       *)
(* nothing is promised about its name.                                     *)
LEMMA ChangeStore ==
  ASSUME StoreInv, NEW l \in Lists, NEW n \in AllNames, NEW c \in Seq(Entries),
         NEW val \in Some, NEW by \in {"web", "start"} \cup Batches,
         Change(l, n, c, val, by), n \in Names /\ val # Free => First(c) = val
  PROVE  StoreInv'
<1> DEFINE s == StoreOf[l]
           r == [at |-> "open", by |-> by, l |-> l, n |-> n, val |-> val]
<1>1. /\ up = "up" /\ up' = "up" /\ s \in Stores /\ saving[s] = NoSave
      /\ saving' = [saving EXCEPT ![s] = r] /\ file' = file /\ saved' = saved
    BY Sets DEF Change
<1>2. r \in SaveRec /\ r.at = "open" /\ r.l = l /\ r.n = n /\ r.val = val
    BY Sets DEF SaveRec
<1>3. /\ mem \in [Lists -> Content] /\ saving \in [Stores -> SaveRec]
      /\ due \in [Lists -> [Names -> Some]]
    BY DEF StoreInv, StoreType
<1>4. /\ mem' \in [Lists -> Content] /\ mem'[l][n] = c
      /\ \A k \in Lists : k # l => mem'[k] = mem[k]
      /\ \A m \in AllNames : m # n => mem'[l][m] = mem[l][m]
  <2>1. mem' = [mem EXCEPT ![l][n] = c]
      BY DEF Change
  <2> QED BY <1>3, <2>1 DEF Content
<1>5. /\ due' \in [Lists -> [Names -> Some]] /\ (n \in Names => due'[l][n] = Free)
      /\ \A k \in Lists : k # l => due'[k] = due[k]
      /\ \A m \in Names : m # n => due'[l][m] = due[l][m]
  <2>1. due' = [due EXCEPT ![l] = [m \in Names |-> IF m = n THEN Free ELSE due[l][m]]]
      BY DEF Change
  <2>2. [m \in Names |-> IF m = n THEN Free ELSE due[l][m]] \in [Names -> Some]
      BY <1>3 DEF Some
  <2> QED BY <1>3, <2>1, <2>2
<1>6. \A k \in Lists, m \in Names : Promised(k, m)' => Promised(k, m) /\ due'[k][m] = due[k][m]
                                                     /\ mem'[k][m] = mem[k][m]
    BY <1>4, <1>5, Sets DEF Promised
<1> HIDE DEF r, s
<1>7. /\ saving' \in [Stores -> SaveRec] /\ saving'[s] = r
      /\ \A t \in Stores : t # s => saving'[t] = saving[t]
    BY <1>1, <1>2, <1>3
<1>8. StoreType'
    BY <1>1, <1>4, <1>5, <1>7 DEF StoreInv, StoreType
<1>9. LockInv'
  <2> SUFFICES ASSUME NEW t \in Stores
               PROVE  /\ saving'[t].at # "free" =>
                          /\ up' # "down" /\ StoreOf[saving'[t].l] = t
                          /\ saving'[t].n \in Names /\ saving'[t].val # Free =>
                               First(mem'[saving'[t].l][saving'[t].n]) = saving'[t].val
                      /\ saving'[t].at = "write" => t \notin saved'
      BY DEF LockInv, Get
  <2>1. CASE t = s
      BY <1>1, <1>2, <1>4, <1>7, <2>1 DEF Get, s
  <2>2. CASE t # s
    <3>1. saving'[t] = saving[t] /\ saving[t] \in SaveRec
        BY <1>3, <1>7, <2>2
    <3>2. saving[t].at # "free" => saving[t].l # l /\ saving[t].l \in Lists
        BY <2>2, <3>1 DEF StoreInv, LockInv, s, SaveRec
    <3> QED BY <1>1, <1>4, <3>1, <3>2 DEF StoreInv, LockInv, Get
  <2> QED BY <2>1, <2>2
<1>10. SavedAgrees'
  <2> SUFFICES ASSUME NEW t \in saved, saving'[t].at = "free"
               PROVE  /\ file[t].st = "ok"
                      /\ \A k \in Listed(t) : mem'[k] \in {file[t].data[k], Load(k, file[t].data[k])}
      BY <1>1 DEF SavedAgrees
  <2>1. t \in Stores /\ t # s
      BY <1>2, <1>7 DEF StoreInv, StoreType
  <2>2. saving[t].at = "free" /\ \A k \in Listed(t) : k \in Lists /\ k # l
      BY <1>7, <2>1, Sets DEF s
  <2> QED BY <1>4, <2>1, <2>2 DEF StoreInv, SavedAgrees
<1>11. MemAck' /\ DiskAck'
    BY <1>1, <1>6 DEF StoreInv, MemAck, DiskAck, Get
<1> QED BY <1>8, <1>9, <1>10, <1>11 DEF StoreInv

(* A failed login reads what the file of the users has promised.           *)
LEMMA LoginStore ==
  ASSUME StoreInv, HandleAuthLogin
  PROVE  StoreInv'
<1> DEFINE s == StoreOf["users"]
<1>1. /\ up = "up" /\ up' = "up" /\ s \in Stores /\ saving[s] = NoSave /\ file[s].st = "ok"
      /\ saving' = saving /\ file' = file /\ saved' = saved \cup {s} /\ due' = due
      /\ mem' = [l \in Lists |-> IF l \in Listed(s) THEN file[s].data[l] ELSE mem[l]]
    BY Sets DEF HandleAuthLogin
<1> HIDE DEF s
<1>2. /\ mem \in [Lists -> Content] /\ saving \in [Stores -> SaveRec]
      /\ file[s].data \in [Lists -> Content]
    BY <1>1 DEF StoreInv, StoreType, FileRec
<1>3. /\ mem' \in [Lists -> Content]
      /\ \A l \in Lists : StoreOf[l] = s => mem'[l] = file[s].data[l]
      /\ \A l \in Lists : StoreOf[l] # s => mem'[l] = mem[l]
    BY <1>1, <1>2, Sets
<1>4. StoreType'
    BY <1>1, <1>3 DEF StoreInv, StoreType
<1>5. LockInv'
  <2> SUFFICES ASSUME NEW t \in Stores
               PROVE  /\ saving[t].at # "free" =>
                          /\ up' # "down" /\ StoreOf[saving[t].l] = t
                          /\ saving[t].n \in Names /\ saving[t].val # Free =>
                               First(mem'[saving[t].l][saving[t].n]) = saving[t].val
                      /\ saving[t].at = "write" => t \notin saved'
      BY <1>1 DEF LockInv, Get
  <2>1. CASE t = s
      BY <1>1, <2>1, Saves
  <2>2. CASE t # s
    <3>1. saving[t] \in SaveRec
        BY <1>2
    <3>2. saving[t].at # "free" => mem'[saving[t].l] = mem[saving[t].l]
        BY <1>3, <2>2, <3>1 DEF StoreInv, LockInv, SaveRec
    <3> QED BY <1>1, <2>2, <3>2 DEF StoreInv, LockInv, Get
  <2> QED BY <2>1, <2>2
<1>6. SavedAgrees'
  <2> SUFFICES ASSUME NEW t \in saved \cup {s}, saving[t].at = "free"
               PROVE  /\ file[t].st = "ok"
                      /\ \A k \in Listed(t) : mem'[k] \in {file[t].data[k], Load(k, file[t].data[k])}
      BY <1>1 DEF SavedAgrees
  <2>1. CASE t = s
      BY <1>1, <1>3, <2>1, Sets
  <2>2. CASE t # s
      BY <1>3, <2>2, Sets DEF StoreInv, SavedAgrees
  <2> QED BY <2>1, <2>2
<1>7. MemAck'
  <2> SUFFICES ASSUME NEW l \in Lists, NEW n \in Names, Promised(l, n)
               PROVE  First(mem'[l][n]) = due[l][n]
      BY <1>1 DEF MemAck, Promised, Get
  <2>1. CASE StoreOf[l] = s
      BY <1>1, <1>3, <2>1 DEF StoreInv, DiskAck
  <2>2. CASE StoreOf[l] # s
      BY <1>1, <1>3, <2>2 DEF StoreInv, MemAck, Get
  <2> QED BY <2>1, <2>2
<1>8. DiskAck'
    BY <1>1 DEF StoreInv, DiskAck, Promised
<1> QED BY <1>4, <1>5, <1>6, <1>7, <1>8 DEF StoreInv

LEMMA ImportStore ==
  ASSUME StoreInv, NEW c \in Imports, ImportFleet(c)
  PROVE  StoreInv'
<1>1. /\ up = "up" /\ up' = "up" /\ saving[Fleet] = NoSave /\ file' = file /\ saved' = saved
      /\ saving' = [saving EXCEPT ![Fleet].at = "open"]
    BY DEF ImportFleet
<1>2. /\ mem \in [Lists -> Content] /\ saving \in [Stores -> SaveRec]
      /\ due \in [Lists -> [Names -> Some]]
    BY DEF StoreInv, StoreType
<1>3. /\ mem' \in [Lists -> Content]
      /\ \A l \in Lists : StoreOf[l] # Fleet => mem'[l] = mem[l]
      /\ \A l \in Lists : mem'[l] = mem[l] \/ l \in DOMAIN c
    BY <1>2, ImportsAssumption, Sets DEF ImportFleet
<1>4. /\ due' \in [Lists -> [Names -> Some]]
      /\ \A l \in Lists : l \notin DOMAIN c => due'[l] = due[l]
      /\ \A l \in Lists, n \in Names : l \in DOMAIN c => due'[l][n] = Free
    BY <1>2 DEF ImportFleet, Some
<1>5. \A l \in Lists, n \in Names : Promised(l, n)' => Promised(l, n) /\ due'[l][n] = due[l][n]
                                                     /\ mem'[l][n] = mem[l][n]
    BY <1>3, <1>4 DEF Promised
<1> DEFINE r == [NoSave EXCEPT !.at = "open"]
<1>6. r \in SaveRec /\ r.at = "open" /\ r.l = "ue" /\ r.n = NoName
    BY Saves DEF SaveRec
<1>7. saving' = [saving EXCEPT ![Fleet] = r]
    BY <1>1, <1>2, Sets
<1> HIDE DEF r
<1>8. /\ saving' \in [Stores -> SaveRec] /\ saving'[Fleet] = r
      /\ \A t \in Stores : t # Fleet => saving'[t] = saving[t]
    BY <1>2, <1>6, <1>7, Sets
<1>9. StoreType'
    BY <1>1, <1>3, <1>4, <1>8 DEF StoreInv, StoreType
<1>10. LockInv'
  <2> SUFFICES ASSUME NEW t \in Stores
               PROVE  /\ saving'[t].at # "free" =>
                          /\ up' # "down" /\ StoreOf[saving'[t].l] = t
                          /\ saving'[t].n \in Names /\ saving'[t].val # Free =>
                               First(mem'[saving'[t].l][saving'[t].n]) = saving'[t].val
                      /\ saving'[t].at = "write" => t \notin saved'
      BY DEF LockInv, Get
  <2>1. CASE t = Fleet
      BY <1>1, <1>6, <1>8, <2>1, Sets
  <2>2. CASE t # Fleet
    <3>1. saving'[t] = saving[t] /\ saving[t] \in SaveRec
        BY <1>2, <1>8, <2>2
    <3>2. saving[t].at # "free" => StoreOf[saving[t].l] # Fleet /\ saving[t].l \in Lists
        BY <2>2, <3>1 DEF StoreInv, LockInv, SaveRec
    <3>3. saving[t].at # "free" => mem'[saving[t].l] = mem[saving[t].l]
        BY <1>3, <3>2
    <3> QED BY <1>1, <3>1, <3>3 DEF StoreInv, LockInv, Get
  <2> QED BY <2>1, <2>2
<1>11. SavedAgrees'
  <2> SUFFICES ASSUME NEW t \in saved, saving'[t].at = "free"
               PROVE  /\ file[t].st = "ok"
                      /\ \A k \in Listed(t) : mem'[k] \in {file[t].data[k], Load(k, file[t].data[k])}
      BY <1>1 DEF SavedAgrees
  <2>1. t \in Stores /\ t # Fleet
      BY <1>6, <1>8 DEF StoreInv, StoreType
  <2>2. saving[t].at = "free" /\ \A k \in Listed(t) : k \in Lists /\ StoreOf[k] # Fleet
      BY <1>8, <2>1, Sets
  <2> QED BY <1>3, <2>1, <2>2 DEF StoreInv, SavedAgrees
<1>12. MemAck' /\ DiskAck'
    BY <1>1, <1>5 DEF StoreInv, MemAck, DiskAck, Get
<1> QED BY <1>9, <1>10, <1>11, <1>12 DEF StoreInv

(* A start loads what is promised: a list that is filled with the defaults *)
(* was empty, and in such a list no deletion is promised.                  *)
LEMMA StartStore ==
  ASSUME StoreInv, StartServer
  PROVE  StoreInv'
<1> DEFINE F(l) == file[StoreOf[l]]
           L(l) == CASE F(l).st = "ok"     -> Load(l, F(l).data[l])
                     [] F(l).st = "absent" -> Load(l, Empty)
                     [] F(l).st = "torn"   -> Empty
           r == IF file[Fleet].st # "absent" THEN NoSave
                ELSE [NoSave EXCEPT !.at = "open", !.by = "start"]
<1>1. /\ up = "down" /\ up' = "starting" /\ file' = file /\ due' = due
      /\ mem' = [l \in Lists |-> L(l)] /\ saving' = [saving EXCEPT ![Fleet] = r]
      /\ saved' = {s \in Stores : file[s].st = "ok"}
    BY DEF StartServer
<1>2. \A l \in Lists : F(l) \in FileRec /\ F(l).data[l] \in Content
                       /\ F(l).st \in {"absent", "torn", "ok"}
  <2>1. \A l \in Lists : F(l) \in FileRec
      BY Sets DEF StoreInv, StoreType
  <2> HIDE DEF F
  <2>2. \A g \in FileRec : g.st \in {"absent", "torn", "ok"} /\ g.data \in [Lists -> Content]
      BY DEF FileRec
  <2> QED BY <2>1, <2>2
<1>3. /\ \A l \in Lists : L(l) \in Content
      /\ \A l \in Lists : F(l).st = "ok" => L(l) = Load(l, F(l).data[l])
    BY <1>2, Sets
<1>4. r \in SaveRec /\ r.l = "ue" /\ r.n = NoName /\ r.at # "write"
    BY Saves DEF SaveRec
<1>5. /\ saving' \in [Stores -> SaveRec] /\ saving'[Fleet] = r
      /\ \A t \in Stores : t # Fleet => saving'[t] = saving[t] /\ saving[t].at = "free"
    BY <1>1, <1>4, Sets DEF StoreInv, StoreType, LockInv
<1> HIDE DEF L, r
<1>6. mem' \in [Lists -> Content] /\ \A l \in Lists : mem'[l] = L(l)
    BY <1>1, <1>3
<1>7. StoreType'
    BY <1>1, <1>5, <1>6 DEF StoreInv, StoreType
<1>8. LockInv'
    BY <1>1, <1>4, <1>5, Sets DEF LockInv
<1>9. SavedAgrees'
  <2> SUFFICES ASSUME NEW t \in Stores, file[t].st = "ok", NEW k \in Listed(t)
               PROVE  mem'[k] = Load(k, file[t].data[k])
      BY <1>1 DEF SavedAgrees
  <2> QED BY <1>3, <1>6, Sets DEF F
<1>10. MemAck'
  <2> SUFFICES ASSUME NEW l \in Lists, NEW n \in Names, Promised(l, n)
               PROVE  First(mem'[l][n]) = due[l][n]
      BY <1>1 DEF MemAck, Promised, Get
  <2>1. F(l).st = "ok" /\ First(F(l).data[l][n]) = due[l][n]
      BY <1>1 DEF StoreInv, DiskAck
  <2>2. mem'[l] = Load(l, F(l).data[l])
      BY <1>3, <1>6, <2>1
  <2>3. CASE l \in Refilled /\ F(l).data[l] = Empty
      BY <2>1, <2>3, Sets DEF First, Empty, Promised
  <2>4. CASE ~(l \in Refilled /\ F(l).data[l] = Empty)
      BY <2>1, <2>2, <2>4 DEF Load
  <2> QED BY <2>3, <2>4
<1>11. DiskAck'
    BY <1>1 DEF StoreInv, DiskAck, Promised
<1> QED BY <1>7, <1>8, <1>9, <1>10, <1>11 DEF StoreInv

LEMMA OpensStore ==
  ASSUME StoreInv, NEW s \in Stores, Opens(s)
  PROVE  StoreInv'
<1> DEFINE r == [saving[s] EXCEPT !.at = "write"]
           f == [st |-> "torn", data |-> NoLists]
<1>1. /\ saving[s].at = "open" /\ up' = up /\ mem' = mem /\ due' = due /\ saved' = saved \ {s}
      /\ file' = [file EXCEPT ![s] = f] /\ saving' = [saving EXCEPT ![s].at = "write"]
    BY DEF Opens
<1>2. /\ saving \in [Stores -> SaveRec] /\ file \in [Stores -> FileRec] /\ saving[s] \in SaveRec
      /\ \A l \in Lists : StoreOf[l] \in Stores
    BY Sets DEF StoreInv, StoreType
<1>3. /\ r \in SaveRec /\ r.l = saving[s].l /\ r.n = saving[s].n /\ r.val = saving[s].val
      /\ f \in FileRec /\ f.st = "torn"
    BY <1>2, Sets DEF SaveRec, FileRec
<1>4. saving' = [saving EXCEPT ![s] = r]
    BY <1>1, <1>2
<1> HIDE DEF r, f
<1>5. /\ saving' \in [Stores -> SaveRec] /\ saving'[s] = r /\ file' \in [Stores -> FileRec]
      /\ file'[s] = f
      /\ \A t \in Stores : t # s => saving'[t] = saving[t] /\ file'[t] = file[t]
    BY <1>1, <1>2, <1>3, <1>4
<1>6. StoreType'
    BY <1>1, <1>5 DEF StoreInv, StoreType
<1>7. LockInv'
  <2> SUFFICES ASSUME NEW t \in Stores
               PROVE  /\ saving'[t].at # "free" =>
                          /\ up' # "down" /\ StoreOf[saving'[t].l] = t
                          /\ saving'[t].n \in Names /\ saving'[t].val # Free =>
                               First(mem'[saving'[t].l][saving'[t].n]) = saving'[t].val
                      /\ saving'[t].at = "write" => t \notin saved'
      BY DEF LockInv, Get
  <2>1. CASE t = s
      BY <1>1, <1>3, <1>5, <2>1 DEF StoreInv, LockInv, Get
  <2>2. CASE t # s
      BY <1>1, <1>5, <2>2 DEF StoreInv, LockInv, Get
  <2> QED BY <2>1, <2>2
<1>8. SavedAgrees'
    BY <1>1, <1>5 DEF StoreInv, SavedAgrees, StoreType
<1>9. MemAck'
    BY <1>1 DEF StoreInv, MemAck, Promised, Get
<1>10. up # "down"
    BY <1>1 DEF StoreInv, LockInv
<1>11. DiskAck'
    BY <1>1, <1>2, <1>3, <1>5, <1>10 DEF StoreInv, DiskAck, Promised
<1> QED BY <1>6, <1>7, <1>8, <1>9, <1>11 DEF StoreInv

(* The return of a save that failed.                                       *)
LEMMA FailsStore ==
  ASSUME StoreInv, NEW s \in Stores, OpenFails(s) \/ WriteFails(s)
  PROVE  StoreInv'
<1>1. /\ up' = up /\ mem' = mem /\ due' = due /\ file' = file /\ s \notin saved'
      /\ saved' \subseteq saved /\ saving' = [saving EXCEPT ![s] = NoSave]
    BY DEF OpenFails, WriteFails, Returns, StoreInv, LockInv
<1>2. /\ saving' \in [Stores -> SaveRec] /\ saving'[s] = NoSave
      /\ \A t \in Stores : t # s => saving'[t] = saving[t]
    BY <1>1, Saves DEF StoreInv, StoreType
<1>3. StoreType'
    BY <1>1, <1>2 DEF StoreInv, StoreType
<1>4. LockInv'
    BY <1>1, <1>2, Saves DEF StoreInv, LockInv, Get
<1>5. SavedAgrees'
    BY <1>1, <1>2 DEF StoreInv, SavedAgrees, StoreType
<1>6. MemAck' /\ DiskAck'
    BY <1>1 DEF StoreInv, MemAck, DiskAck, Promised, Get
<1> QED BY <1>3, <1>4, <1>5, <1>6 DEF StoreInv

(* The return of one that succeeded: what it promises is in the memory,    *)
(* and the file is the memory.                                             *)
LEMMA WritesStore ==
  ASSUME StoreInv, NEW s \in Stores, Writes(s)
  PROVE  StoreInv'
<1> DEFINE D == [l \in Lists |-> IF StoreOf[l] = s THEN mem[l] ELSE Empty]
           f == [st |-> "ok", data |-> D]
           w == saving[s]
<1>1. /\ w.at = "write" /\ up' = up /\ mem' = mem /\ saved' = saved \cup {s}
      /\ file' = [file EXCEPT ![s] = f] /\ saving' = [saving EXCEPT ![s] = NoSave]
      /\ due' = [l \in Lists |-> [n \in Names |->
                   IF l = w.l /\ n = w.n THEN w.val ELSE due[l][n]]]
    BY DEF Writes, Returns
<1>2. /\ mem \in [Lists -> Content] /\ saving \in [Stores -> SaveRec] /\ w \in SaveRec
      /\ file \in [Stores -> FileRec] /\ due \in [Lists -> [Names -> Some]]
    BY DEF StoreInv, StoreType
<1>3. /\ f \in FileRec /\ f.st = "ok" /\ f.data = D
      /\ \A l \in Lists : StoreOf[l] = s => D[l] = mem[l]
  <2>1. D \in [Lists -> Content]
      BY <1>2, Sets
  <2> QED BY <2>1 DEF FileRec
<1>4. /\ w.val \in Some /\ up # "down" /\ StoreOf[w.l] = s /\ w.l \in Lists
      /\ w.n \in Names /\ w.val # Free => First(mem[w.l][w.n]) = w.val
  <2>1. w.val \in Some /\ w.l \in Lists
      BY <1>2 DEF SaveRec
  <2> QED BY <1>1, <2>1 DEF StoreInv, LockInv, Get
<1> HIDE DEF f, D, w
<1>5. /\ saving' \in [Stores -> SaveRec] /\ saving'[s] = NoSave /\ file' \in [Stores -> FileRec]
      /\ file'[s] = f
      /\ \A t \in Stores : t # s => saving'[t] = saving[t] /\ file'[t] = file[t]
    BY <1>1, <1>2, <1>3, Saves
<1>6. /\ due' \in [Lists -> [Names -> Some]]
      /\ \A l \in Lists, n \in Names : due'[l][n] = due[l][n] \/ (l = w.l /\ n = w.n /\ due'[l][n] = w.val)
  <2> DEFINE d(l, n) == IF l = w.l /\ n = w.n THEN w.val ELSE due[l][n]
  <2>1. \A l \in Lists, n \in Names : d(l, n) \in Some
      BY <1>2, <1>4
  <2>2. due' = [l \in Lists |-> [n \in Names |-> d(l, n)]]
      BY <1>1
  <2>3. \A l \in Lists, n \in Names : d(l, n) = due[l][n] \/ (l = w.l /\ n = w.n /\ d(l, n) = w.val)
      OBVIOUS
  <2> HIDE DEF d
  <2> QED BY <2>1, <2>2, <2>3
<1>7. StoreType'
    BY <1>1, <1>5, <1>6 DEF StoreInv, StoreType
<1>8. LockInv'
  <2> SUFFICES ASSUME NEW t \in Stores
               PROVE  /\ saving'[t].at # "free" =>
                          /\ up' # "down" /\ StoreOf[saving'[t].l] = t
                          /\ saving'[t].n \in Names /\ saving'[t].val # Free =>
                               First(mem'[saving'[t].l][saving'[t].n]) = saving'[t].val
                      /\ saving'[t].at = "write" => t \notin saved'
      BY DEF LockInv, Get
  <2>1. CASE t = s
      BY <1>5, <2>1, Saves
  <2>2. CASE t # s
      BY <1>1, <1>5, <2>2 DEF StoreInv, LockInv, Get
  <2> QED BY <2>1, <2>2
<1>9. SavedAgrees'
  <2> SUFFICES ASSUME NEW t \in saved', saving'[t].at = "free"
               PROVE  /\ file'[t].st = "ok"
                      /\ \A k \in Listed(t) : mem[k] \in {file'[t].data[k], Load(k, file'[t].data[k])}
      BY <1>1 DEF SavedAgrees
  <2>1. CASE t = s
      BY <1>3, <1>5, <2>1, Sets
  <2>2. CASE t # s
    <3>1. t \in Stores /\ t \in saved /\ saving[t].at = "free" /\ file'[t] = file[t]
        BY <1>1, <1>5, <2>2 DEF StoreInv, StoreType
    <3> QED BY <3>1 DEF StoreInv, SavedAgrees
  <2> QED BY <2>1, <2>2
<1>10. \A l \in Lists, n \in Names : Promised(l, n)' => First(mem[l][n]) = due'[l][n]
    BY <1>4, <1>6 DEF StoreInv, MemAck, Promised, Get
<1>11. MemAck'
    BY <1>1, <1>10 DEF MemAck, Get
<1>12. DiskAck'
  <2> SUFFICES ASSUME NEW l \in Lists, NEW n \in Names, Promised(l, n)', file'[StoreOf[l]].st = "ok"
               PROVE  First(file'[StoreOf[l]].data[l][n]) = due'[l][n]
      BY <1>1, <1>4 DEF DiskAck
  <2>1. CASE StoreOf[l] = s
      BY <1>3, <1>5, <1>10, <2>1
  <2>2. CASE StoreOf[l] # s
    <3>1. due'[l][n] = due[l][n] /\ file'[StoreOf[l]] = file[StoreOf[l]]
        BY <1>4, <1>5, <1>6, <2>2, Sets
    <3> QED BY <3>1 DEF StoreInv, DiskAck, Promised
  <2> QED BY <2>1, <2>2
<1> QED BY <1>7, <1>8, <1>9, <1>11, <1>12 DEF StoreInv

LEMMA StopStore ==
  ASSUME StoreInv, Stop
  PROVE  StoreInv'
<1>1. /\ up' = "down" /\ mem' = NoLists /\ saving' = [s \in Stores |-> NoSave] /\ saved' = {}
      /\ file' = file
      /\ due' = [l \in Lists |-> IF file[StoreOf[l]].st = "ok" THEN due[l]
                                 ELSE [n \in Names |-> Free]]
    BY DEF Stop
<1>2. due' \in [Lists -> [Names -> Some]]
    BY <1>1 DEF StoreInv, StoreType, Some
<1>3. StoreType'
    BY <1>1, <1>2, Sets, Saves DEF StoreInv, StoreType
<1>4. LockInv' /\ SavedAgrees' /\ MemAck'
    BY <1>1, Saves DEF LockInv, SavedAgrees, MemAck
<1>5. DiskAck'
    BY <1>1 DEF StoreInv, DiskAck, Promised
<1> QED BY <1>3, <1>4, <1>5 DEF StoreInv

-----------------------------------------------------------------------------
(* The batches.  A name has at most one temporary profile, in memory and   *)
(* on disk; a batch that is deleting one has removed it from the memory    *)
(* and holds the lock; while the server is down, the ones on disk are cut. *)
BatchType == batch \in [Batches -> BatchRec] /\ cut \subseteq Temps
Named     == \A b \in Batches : Busy(b) => batch[b].name \in Temps
Deleting  == \A b \in Batches : batch[b].pc = "delete" =>
               /\ saving[Fleet].at # "free" /\ saving[Fleet].by = b
               /\ mem["ue"][batch[b].name] = <<>>
Single    == \A t \in Temps : Len(mem["ue"][t]) <= 1 /\ Len(file[Fleet].data["ue"][t]) <= 1
DiskCut   == up = "down" => \A t \in Temps : file[Fleet].data["ue"][t] # <<>> => t \in cut

BatchInv == BatchType /\ Named /\ Deleting /\ Single /\ DiskCut /\ TempsGone

LEMMA Lens == Len(<<>>) = 0 /\ \A n \in AllNames : Empty[n] = <<>> /\ NoLists["ue"][n] = <<>>
  BY Sets DEF Empty, NoLists

LEMMA Batch0 == NoBatch \in BatchRec /\ NoBatch.pc = "idle" /\ NoBatch.name = NoName
  BY MaxAssumption DEF NoBatch, BatchRec

LEMMA InitBatch == Init => BatchInv
<1> SUFFICES ASSUME Init PROVE BatchInv
    OBVIOUS
<1>1. BatchType /\ \A b \in Batches : batch[b] = NoBatch
    BY Batch0 DEF Init, BatchType
<1>2. Named /\ Deleting
    BY <1>1, Batch0 DEF Named, Deleting, Busy
<1>3. mem = NoLists /\ file[Fleet].data = NoLists
    BY Sets DEF Init
<1>4. Single /\ DiskCut /\ TempsGone
    BY <1>3, Lens, Sets DEF Single, DiskCut, TempsGone
<1> QED BY <1>1, <1>2, <1>4 DEF BatchInv

(* A step that touches no batch, and no temporary profile other than by    *)
(* taking it away.                                                         *)
LEMMA KeepTemps ==
  ASSUME BatchInv, UNCHANGED <<batch, cut, file>>, up' # "down",
         saving'[Fleet] = saving[Fleet] \/ saving[Fleet] = NoSave,
         \A t \in Temps : mem'["ue"][t] \in {mem["ue"][t], <<>>}
  PROVE  BatchInv'
<1>1. BatchType' /\ Named' /\ DiskCut'
    BY DEF BatchInv, BatchType, Named, Busy, DiskCut
<1>2. Deleting'
    BY Saves DEF BatchInv, Deleting, Named, Busy
<1>3. Single'
    BY Lens DEF BatchInv, Single
<1>4. TempsGone'
    BY DEF BatchInv, TempsGone, Busy
<1> QED BY <1>1, <1>2, <1>3, <1>4 DEF BatchInv

(* A change made by a request.                                             *)
LEMMA RequestBatch ==
  ASSUME BatchInv, StoreInv, NEW l \in Lists, NEW n \in Names, NEW c, NEW val, NEW by,
         Change(l, n, c, val, by), UNCHANGED batch
  PROVE  BatchInv'
<1>1. /\ up' = "up" /\ cut' = cut /\ file' = file /\ mem' = [mem EXCEPT ![l][n] = c]
      /\ saving[StoreOf[l]] = NoSave /\ \E r : saving' = [saving EXCEPT ![StoreOf[l]] = r]
    BY DEF Change
<1>2. saving'[Fleet] = saving[Fleet] \/ saving[Fleet] = NoSave
    BY <1>1, Sets DEF StoreInv, StoreType
<1>3. \A t \in Temps : mem'["ue"][t] = mem["ue"][t]
    BY <1>1, Sets, NamesAssumption DEF StoreInv, StoreType, Content
<1> QED BY <1>1, <1>2, <1>3, KeepTemps

LEMMA ImportBatch ==
  ASSUME BatchInv, StoreInv, NEW c \in Imports, ImportFleet(c)
  PROVE  BatchInv'
<1>1. up' = "up" /\ UNCHANGED <<batch, cut, file>> /\ saving[Fleet] = NoSave
    BY DEF ImportFleet, Request
<1>2. \A t \in Temps : mem'["ue"][t] \in {mem["ue"][t], <<>>}
    BY Sets, ImportsAssumption DEF ImportFleet
<1> QED BY <1>1, <1>2, KeepTemps

(* The users are not in the fleet's file.                                  *)
LEMMA LoginTemps == HandleAuthLogin => mem'["ue"] = mem["ue"] /\ up' = "up"
  BY Sets, ListsAssumption DEF HandleAuthLogin, Listed

LEMMA LoginBatch ==
  ASSUME BatchInv, HandleAuthLogin
  PROVE  BatchInv'
  BY LoginTemps DEF HandleAuthLogin, BatchInv, BatchType, Named, Deleting, Single, DiskCut,
                    TempsGone, Busy

LEMMA ServesBatch ==
  ASSUME BatchInv, Serves
  PROVE  BatchInv'
  BY KeepTemps DEF Serves, storeVars

LEMMA StartBatch ==
  ASSUME BatchInv, StoreInv, StartServer
  PROVE  BatchInv'
<1>1. up = "down" /\ up' = "starting" /\ UNCHANGED <<batch, cut, file>>
    BY DEF StartServer
<1>2. \A b \in Batches : batch[b].pc # "delete"
    BY <1>1, Sets DEF BatchInv, Deleting, StoreInv, LockInv
<1>3. mem'["ue"] \in {file[Fleet].data["ue"], Empty}
  <2>1. file[Fleet].st \in {"absent", "torn", "ok"}
      BY Sets DEF StoreInv, StoreType, FileRec
  <2> QED BY <2>1, Sets DEF StartServer, Load
<1>4. BatchType' /\ Named' /\ Deleting' /\ DiskCut'
    BY <1>1, <1>2 DEF BatchInv, BatchType, Named, Busy, Deleting, DiskCut
<1>5. Single' /\ TempsGone'
    BY <1>1, <1>3, Lens, Sets DEF BatchInv, Single, TempsGone, DiskCut
<1> QED BY <1>4, <1>5 DEF BatchInv

LEMMA StopBatch ==
  ASSUME BatchInv, StoreInv, Stop
  PROVE  BatchInv'
<1>1. /\ up' = "down" /\ mem' = NoLists /\ file' = file
      /\ batch' = [b \in Batches |-> NoBatch]
      /\ cut' = cut \cup {t \in Temps : file[Fleet].data["ue"][t] # <<>>}
    BY DEF Stop
<1>2. BatchType' /\ \A b \in Batches : batch'[b] = NoBatch
    BY <1>1, Batch0 DEF BatchInv, BatchType
<1>3. Named' /\ Deleting'
    BY <1>2, Batch0 DEF Named, Deleting, Busy
<1>4. Single' /\ DiskCut' /\ TempsGone'
    BY <1>1, Lens, Sets DEF BatchInv, Single, DiskCut, TempsGone
<1> QED BY <1>2, <1>3, <1>4 DEF BatchInv

LEMMA OpensBatch ==
  ASSUME BatchInv, StoreInv, NEW s \in Stores, Opens(s)
  PROVE  BatchInv'
<1>1. /\ up' = up /\ UNCHANGED <<batch, cut, mem>>
      /\ file' = [file EXCEPT ![s] = [st |-> "torn", data |-> NoLists]]
      /\ saving' = [saving EXCEPT ![s].at = "write"] /\ saving[s].at = "open"
    BY DEF Opens
<1>2. up # "down"
    BY <1>1 DEF StoreInv, LockInv
<1>3. file'[Fleet].data = file[Fleet].data \/ file'[Fleet].data = NoLists
    BY <1>1, Sets DEF StoreInv, StoreType
<1>4. saving'[Fleet].by = saving[Fleet].by
      /\ (saving[Fleet].at # "free" => saving'[Fleet].at # "free")
  <2>1. saving[s] \in SaveRec /\ saving \in [Stores -> SaveRec]
      BY DEF StoreInv, StoreType
  <2>2. [saving[s] EXCEPT !.at = "write"].by = saving[s].by
        /\ [saving[s] EXCEPT !.at = "write"].at = "write"
      BY <2>1 DEF SaveRec
  <2> QED BY <1>1, <2>1, <2>2, Sets
<1>5. BatchType' /\ Named' /\ TempsGone'
    BY <1>1 DEF BatchInv, BatchType, Named, TempsGone, Busy
<1>6. Deleting' /\ DiskCut'
    BY <1>1, <1>2, <1>4 DEF BatchInv, Deleting, DiskCut
<1>7. Single'
    BY <1>1, <1>3, Lens, Sets DEF BatchInv, Single
<1> QED BY <1>5, <1>6, <1>7 DEF BatchInv

(* A batch whose save returns goes on; one that was deleting lets go of a  *)
(* profile that is not there any more.                                     *)
LEMMA ReturnsBatch ==
  ASSUME BatchInv, StoreInv, NEW s \in Stores, Returns(s), saving[s].at # "free",
         \A t \in Temps : Len(file'[Fleet].data["ue"][t]) <= 1
  PROVE  BatchInv'
<1>1. /\ up' = up /\ UNCHANGED <<cut, mem>> /\ saving' = [saving EXCEPT ![s] = NoSave]
      /\ batch' = [b \in Batches |-> IF saving[s].by = b THEN BatchNext(b) ELSE batch[b]]
    BY DEF Returns
<1>2. up # "down"
    BY DEF StoreInv, LockInv
<1>3. \A b \in Batches : batch[b] \in BatchRec
    BY DEF BatchInv, BatchType
<1>4. \A b \in Batches :
        /\ BatchNext(b) \in BatchRec /\ BatchNext(b).name = batch[b].name
        /\ batch[b].pc = "delete" => BatchNext(b).pc = "next"
        /\ batch[b].pc = "upsert" => BatchNext(b).pc = "launch"
        /\ batch[b].pc \notin {"upsert", "delete"} => BatchNext(b).pc = batch[b].pc
    BY <1>3 DEF BatchNext, BatchRec
<1>5. \A b \in Batches :
        /\ batch'[b] \in BatchRec /\ batch'[b].name = batch[b].name
        /\ Busy(b)' => Busy(b)
        /\ Busy(b) => Busy(b)' \/ batch[b].pc = "delete"
        /\ batch'[b].pc = "delete" => batch[b].pc = "delete" /\ saving[s].by # b
  <2> TAKE b \in Batches
  <2>1. batch'[b] = IF saving[s].by = b THEN BatchNext(b) ELSE batch[b]
      BY <1>1
  <2>2. CASE saving[s].by = b
      BY <1>3, <1>4, <2>1, <2>2 DEF Busy
  <2>3. CASE saving[s].by # b
      BY <1>3, <2>1, <2>3 DEF Busy
  <2> QED BY <2>2, <2>3
<1>6. BatchType' /\ Named'
    BY <1>1, <1>5 DEF BatchInv, BatchType, Named
<1>7. Deleting'
  <2> SUFFICES ASSUME NEW b \in Batches, batch'[b].pc = "delete"
               PROVE  /\ saving'[Fleet].at # "free" /\ saving'[Fleet].by = b
                      /\ mem["ue"][batch[b].name] = <<>>
      BY <1>1, <1>5 DEF Deleting
  <2>1. batch[b].pc = "delete" /\ saving[s].by # b
      BY <1>5
  <2>2. /\ saving[Fleet].at # "free" /\ saving[Fleet].by = b /\ mem["ue"][batch[b].name] = <<>>
      BY <2>1 DEF BatchInv, Deleting
  <2>3. saving'[Fleet] = saving[Fleet]
      BY <1>1, <2>1, <2>2, Sets DEF StoreInv, StoreType
  <2> QED BY <2>2, <2>3
<1>8. Single' /\ DiskCut'
    BY <1>1, <1>2 DEF BatchInv, Single, DiskCut
<1>9. TempsGone'
    BY <1>1, <1>5 DEF BatchInv, TempsGone, Deleting
<1> QED BY <1>6, <1>7, <1>8, <1>9 DEF BatchInv

LEMMA SavesBatch ==
  ASSUME BatchInv, StoreInv, NEW s \in Stores, SaveStep(s)
  PROVE  BatchInv'
<1>1. CASE Opens(s)
    BY <1>1, OpensBatch
<1>2. CASE OpenFails(s) \/ WriteFails(s)
  <2>1. Returns(s) /\ saving[s].at # "free" /\ file' = file
      BY <1>2 DEF OpenFails, WriteFails
  <2> QED BY <2>1, ReturnsBatch DEF BatchInv, Single
<1>3. CASE Writes(s)
  <2> DEFINE D == [l \in Lists |-> IF StoreOf[l] = s THEN mem[l] ELSE Empty]
  <2>1. Returns(s) /\ saving[s].at # "free" /\ file' = [file EXCEPT ![s] = [st |-> "ok", data |-> D]]
      BY <1>3 DEF Writes
  <2>2. file'[Fleet] = file[Fleet] \/ file'[Fleet].data["ue"] = mem["ue"]
      BY <2>1, Sets DEF StoreInv, StoreType
  <2>3. \A t \in Temps : Len(file'[Fleet].data["ue"][t]) <= 1
      BY <2>2 DEF BatchInv, Single
  <2> QED BY <2>1, <2>3, ReturnsBatch
<1> QED BY <1>1, <1>2, <1>3 DEF SaveStep

(* The steps of a batch that change its place and nothing else.            *)
LEMMA BatchMoves ==
  ASSUME BatchInv, UNCHANGED <<up, storeVars, cut>>, NEW b \in Batches, NEW r \in BatchRec,
         batch' = [batch EXCEPT ![b] = r], r.pc # "delete",
         \/ Busy(b) /\ r.pc \in {"upsert", "launch", "launched"} /\ r.name = batch[b].name
         \/ /\ r.pc \in {"idle", "next", "done"}
            /\ Busy(b) => mem["ue"][batch[b].name] = <<>>
  PROVE  BatchInv'
<1>1. /\ batch' \in [Batches -> BatchRec] /\ batch'[b] = r
      /\ \A o \in Batches : o # b => batch'[o] = batch[o]
    BY DEF BatchInv, BatchType
<1>2. \A o \in Batches : o # b => (Busy(o)' <=> Busy(o))
    BY <1>1 DEF Busy
<1>3. BatchType' /\ Named'
    BY <1>1, <1>2 DEF BatchInv, BatchType, Named, Busy
<1>4. Deleting' /\ Single' /\ DiskCut'
    BY <1>1 DEF BatchInv, Deleting, Single, DiskCut, storeVars
<1>5. TempsGone'
    BY <1>1, <1>2 DEF BatchInv, TempsGone, Busy, storeVars
<1> QED BY <1>3, <1>4, <1>5 DEF BatchInv

LEMMA BatchStartBatch ==
  ASSUME BatchInv, NEW b \in Batches, BatchStart(b)
  PROVE  BatchInv'
<1> DEFINE r == [batch[b] EXCEPT !.pc = "next"]
<1>1. batch[b] \in BatchRec /\ batch \in [Batches -> BatchRec]
    BY DEF BatchInv, BatchType
<1>2. r \in BatchRec /\ r.pc = "next"
    BY <1>1 DEF BatchRec
<1>3. UNCHANGED <<up, storeVars, cut>> /\ batch' = [batch EXCEPT ![b] = r] /\ ~Busy(b)
    BY <1>1 DEF BatchStart, Busy
<1> HIDE DEF r
<1> QED BY <1>2, <1>3, BatchMoves

LEMMA BatchLaunchBatch ==
  ASSUME BatchInv, NEW b \in Batches, BatchLaunch(b)
  PROVE  BatchInv'
<1> DEFINE r == [batch[b] EXCEPT !.pc = "launched"]
<1>1. batch[b] \in BatchRec /\ batch \in [Batches -> BatchRec]
    BY DEF BatchInv, BatchType
<1>2. r \in BatchRec /\ r.pc = "launched" /\ r.name = batch[b].name
    BY <1>1 DEF BatchRec
<1>3. UNCHANGED <<up, storeVars, cut>> /\ batch' = [batch EXCEPT ![b] = r] /\ Busy(b)
    BY <1>1 DEF BatchLaunch, Busy
<1> HIDE DEF r
<1> QED BY <1>2, <1>3, BatchMoves

LEMMA BatchDeleteMissingBatch ==
  ASSUME BatchInv, NEW b \in Batches, BatchDeleteMissing(b)
  PROVE  BatchInv'
<1> DEFINE r == [batch[b] EXCEPT !.pc = "next"]
<1>1. batch[b] \in BatchRec /\ batch \in [Batches -> BatchRec]
    BY DEF BatchInv, BatchType
<1>2. r \in BatchRec /\ r.pc = "next"
    BY <1>1 DEF BatchRec
<1>3. UNCHANGED <<up, storeVars, cut>> /\ batch' = [batch EXCEPT ![b] = r]
      /\ mem["ue"][batch[b].name] = <<>>
    BY <1>1 DEF BatchDeleteMissing
<1> HIDE DEF r
<1> QED BY <1>2, <1>3, BatchMoves

LEMMA BatchReturnsBatch ==
  ASSUME BatchInv, NEW b \in Batches, BatchReturns(b)
  PROVE  BatchInv'
<1> DEFINE r == [NoBatch EXCEPT !.pc = "done"]
<1>1. r \in BatchRec /\ r.pc = "done"
    BY Batch0 DEF BatchRec
<1>2. UNCHANGED <<up, storeVars, cut>> /\ batch' = [batch EXCEPT ![b] = r] /\ ~Busy(b)
    BY DEF BatchReturns, Busy
<1> HIDE DEF r
<1> QED BY <1>1, <1>2, BatchMoves

(* The steps of a batch that save: no other batch is deleting, because the *)
(* lock is free.                                                           *)
LEMMA BatchUpsertBatch ==
  ASSUME BatchInv, StoreInv, NEW b \in Batches, NEW t \in Stamps, BatchUpsert(b, t)
  PROVE  BatchInv'
<1> DEFINE i == batch[b].i + 1
           n == <<t, i>>
           r == [pc |-> "upsert", i |-> i, name |-> n]
           c == Upserted(mem["ue"][n], b)
<1>1. i \in 1 .. MaxCount /\ n \in Temps /\ n \in AllNames
  <2>1. batch[b].i \in 0 .. MaxCount
      BY DEF BatchInv, BatchType, BatchRec
  <2>2. i <= MaxCount
      BY DEF BatchUpsert
  <2>3. i \in 1 .. MaxCount
      BY <2>1, <2>2, MaxAssumption
  <2> QED BY <2>3, Sets DEF Temps
<1>2. r \in BatchRec /\ r.pc = "upsert" /\ r.name = n
    BY <1>1, MaxAssumption DEF BatchRec
<1>3. /\ Change("ue", n, c, b, b) /\ batch' = [batch EXCEPT ![b] = r]
      /\ saving[Fleet] = NoSave /\ file' = file /\ cut' = cut /\ up = up'
      /\ mem' = [mem EXCEPT !["ue"][n] = c]
    BY Sets DEF BatchUpsert, Change
<1>4. mem["ue"][n] \in Seq(Entries) /\ b \in Entries /\ mem \in [Lists -> Content]
  <2> HIDE DEF n
  <2>1. mem \in [Lists -> Content] /\ b \in Entries
      BY DEF StoreInv, StoreType, Entries
  <2>2. mem["ue"] \in Content
      BY <2>1, Sets
  <2> QED BY <1>1, <2>1, <2>2 DEF Content
<1>5. Len(c) <= 1
    BY <1>1, <1>4, UpsertedSeq DEF BatchInv, Single
<1> HIDE DEF i, n, r, c
<1>6. mem'["ue"][n] = c /\ \A m \in Temps : m # n => mem'["ue"][m] = mem["ue"][m]
    BY <1>1, <1>3, <1>4, Sets DEF Content
<1>7. /\ batch' \in [Batches -> BatchRec] /\ batch'[b] = r
      /\ \A o \in Batches : o # b => batch'[o] = batch[o] /\ (Busy(o)' <=> Busy(o))
    BY <1>2, <1>3 DEF BatchInv, BatchType, Busy
<1>8. ~Busy(b) /\ \A o \in Batches : batch[o].pc # "delete"
    BY <1>3, Saves DEF BatchInv, Deleting, Busy, BatchUpsert
<1>9. BatchType' /\ Named' /\ Deleting'
    BY <1>1, <1>2, <1>3, <1>7, <1>8 DEF BatchInv, BatchType, Named, Busy, Deleting
<1>10. Single' /\ DiskCut'
    BY <1>3, <1>5, <1>6 DEF BatchInv, Single, DiskCut
<1>11. TempsGone'
    BY <1>1, <1>2, <1>3, <1>6, <1>7, <1>8 DEF BatchInv, TempsGone, Busy
<1> QED BY <1>9, <1>10, <1>11 DEF BatchInv

LEMMA BatchDeleteBatch ==
  ASSUME BatchInv, StoreInv, NEW b \in Batches, BatchDelete(b)
  PROVE  BatchInv'
<1> DEFINE n == batch[b].name
           r == [batch[b] EXCEPT !.pc = "delete"]
           c == Tail(mem["ue"][n])
           w == [at |-> "open", by |-> b, l |-> "ue", n |-> n, val |-> Free]
<1>1. /\ n \in Temps /\ n \in AllNames /\ batch[b] \in BatchRec /\ batch \in [Batches -> BatchRec]
      /\ Busy(b)
  <2>1. Busy(b)
      BY DEF BatchDelete, Busy
  <2> QED BY <2>1, Sets DEF BatchInv, BatchType, Named
<1>2. r \in BatchRec /\ r.pc = "delete" /\ r.name = n
    BY <1>1 DEF BatchRec
<1>3. /\ batch' = [batch EXCEPT ![b] = r] /\ mem["ue"][n] # <<>>
      /\ saving[Fleet] = NoSave /\ file' = file /\ cut' = cut /\ up = up'
      /\ mem' = [mem EXCEPT !["ue"][n] = c] /\ saving' = [saving EXCEPT ![Fleet] = w]
    BY <1>1, Sets DEF BatchDelete, Change
<1>4. mem["ue"][n] \in Seq(Entries) /\ mem \in [Lists -> Content] /\ Fleet \in DOMAIN saving
    BY <1>1, Sets DEF StoreInv, StoreType, Content
<1>5. c = <<>>
    BY <1>1, <1>3, <1>4, TailSeq DEF BatchInv, Single
<1>6. saving'[Fleet].at = "open" /\ saving'[Fleet].by = b
    BY <1>3, <1>4
<1> HIDE DEF n, r, c, w
<1>7. mem'["ue"][n] = <<>> /\ \A m \in Temps : m # n => mem'["ue"][m] = mem["ue"][m]
    BY <1>1, <1>3, <1>4, <1>5, Sets DEF Content
<1>8. /\ batch' \in [Batches -> BatchRec] /\ batch'[b] = r
      /\ \A o \in Batches : o # b => batch'[o] = batch[o] /\ (Busy(o)' <=> Busy(o))
    BY <1>1, <1>2, <1>3 DEF Busy
<1>9. \A o \in Batches : batch[o].pc # "delete"
    BY <1>3, Saves DEF BatchInv, Deleting
<1>10. BatchType' /\ Named' /\ Deleting'
    BY <1>1, <1>2, <1>3, <1>6, <1>7, <1>8, <1>9 DEF BatchInv, BatchType, Named, Busy, Deleting
<1>11. Single' /\ DiskCut'
    BY <1>3, <1>7, Lens DEF BatchInv, Single, DiskCut
<1>12. TempsGone'
    BY <1>2, <1>3, <1>7, <1>8 DEF BatchInv, TempsGone, Busy, n
<1> QED BY <1>10, <1>11, <1>12 DEF BatchInv

-----------------------------------------------------------------------------
Bounded == ops \in 0 .. MaxOps /\ stops \in 0 .. MaxStops

IInv == StoreInv /\ BatchInv /\ Bounded

(* The requests: each is a change of one name.                             *)
LEMMA RequestStep ==
  ASSUME IInv, NEW l \in Lists, NEW n \in Names, NEW c \in Seq(Entries), NEW val \in Some,
         Change(l, n, c, val, "web"), UNCHANGED batch, val # Free => First(c) = val
  PROVE  StoreInv' /\ BatchInv'
<1>1. StoreInv'
    BY ChangeStore, Sets DEF IInv
<1>2. BatchInv'
    BY RequestBatch DEF IInv
<1> QED BY <1>1, <1>2

LEMMA Requests ==
  ASSUME IInv, NEW l \in Lists, NEW n \in Names, NEW v \in Vals,
         \/ Upsert(l, n, v) \/ Update(l, n, v)
         \/ HandleCreateUser(n, v) \/ HandleAuthSetup(n, v)
  PROVE  StoreInv' /\ BatchInv'
<1>1. mem[l][n] \in Seq(Entries) /\ v \in Entries /\ v \in Some /\ Free \in Some /\ Gone \in Some
    BY Sets DEF IInv, StoreInv, StoreType, Content, Entries, Some
<1>2. CASE Upsert(l, n, v) \/ Update(l, n, v)
  <2>1. Change(l, n, Upserted(mem[l][n], v), v, "web") /\ UNCHANGED batch
      BY <1>2 DEF Upsert, Update, Request
  <2>2. Upserted(mem[l][n], v) \in Seq(Entries) /\ First(Upserted(mem[l][n], v)) = v
      BY <1>1, UpsertedSeq
  <2> QED BY <1>1, <2>1, <2>2, RequestStep
<1>3. CASE HandleCreateUser(n, v) \/ HandleAuthSetup(n, v)
  <2>1. Change("users", n, <<v>>, v, "web") /\ UNCHANGED batch
      BY <1>3 DEF HandleCreateUser, HandleAuthSetup, Request
  <2> QED BY <1>1, <2>1, OneSeq, Sets, RequestStep
<1> QED BY <1>2, <1>3

LEMMA Batching ==
  ASSUME IInv, NEW b \in Batches, BatchStart(b) \/ BatchStep(b)
  PROVE  StoreInv' /\ BatchInv'
<1>1. CASE BatchStart(b) \/ BatchLaunch(b) \/ BatchDeleteMissing(b) \/ BatchReturns(b)
  <2>1. UNCHANGED <<up, storeVars>>
      BY <1>1 DEF BatchStart, BatchLaunch, BatchDeleteMissing, BatchReturns
  <2>2. StoreInv'
      BY <2>1, SameStore DEF IInv
  <2> QED BY <1>1, <2>2, BatchStartBatch, BatchLaunchBatch, BatchDeleteMissingBatch,
             BatchReturnsBatch DEF IInv
<1>2. ASSUME NEW t \in Stamps, BatchUpsert(b, t) PROVE StoreInv' /\ BatchInv'
  <2> DEFINE n == <<t, batch[b].i + 1>>
             c == Upserted(mem["ue"][n], b)
  <2>1. Change("ue", n, c, b, b)
      BY <1>2 DEF BatchUpsert
  <2>2. n \in Temps /\ n \in AllNames /\ b \in Some /\ b \in Entries
    <3>1. batch[b].i \in 0 .. MaxCount /\ batch[b].i + 1 <= MaxCount
        BY <1>2 DEF IInv, BatchInv, BatchType, BatchRec, BatchUpsert
    <3>2. batch[b].i + 1 \in 1 .. MaxCount
        BY <3>1, MaxAssumption
    <3> QED BY <3>2, Sets DEF Temps, Entries, Some
  <2>3. c \in Seq(Entries) /\ n \notin Names
      BY <2>2, Sets, UpsertedSeq, NamesAssumption DEF IInv, StoreInv, StoreType, Content
  <2> HIDE DEF n, c
  <2>4. StoreInv'
      BY <2>1, <2>2, <2>3, Sets, ChangeStore DEF IInv
  <2> QED BY <1>2, <2>4, BatchUpsertBatch DEF IInv
<1>3. CASE BatchDelete(b)
  <2> DEFINE n == batch[b].name
             c == Tail(mem["ue"][n])
  <2>1. Change("ue", n, c, Free, b) /\ mem["ue"][n] # <<>> /\ Busy(b)
      BY <1>3 DEF BatchDelete, Busy
  <2>2. n \in AllNames /\ Free \in Some
      BY <2>1, Sets DEF IInv, BatchInv, Named, Some
  <2>3. c \in Seq(Entries)
      BY <2>1, <2>2, Sets, TailSeq DEF IInv, StoreInv, StoreType, Content
  <2> HIDE DEF n, c
  <2>4. StoreInv'
      BY <2>1, <2>2, <2>3, Sets, ChangeStore DEF IInv
  <2> QED BY <1>3, <2>4, BatchDeleteBatch DEF IInv
<1> QED BY <1>1, <1>2, <1>3 DEF BatchStep

LEMMA Counting == IInv /\ [Next]_vars => Bounded'
<1> SUFFICES ASSUME IInv, [Next]_vars PROVE Bounded'
    OBVIOUS
<1>1. /\ ops' = ops \/ (ops < MaxOps /\ ops' = ops + 1)
      /\ stops' = stops \/ (stops < MaxStops /\ stops' = stops + 1)
  <2>1. CASE UNCHANGED vars
      BY <2>1 DEF vars
  <2>2. CASE StartServer \/ Serves \/ Stop \/ HandleAuthLogin
      BY <2>2 DEF StartServer, Serves, Stop, HandleAuthLogin
  <2>3. ASSUME NEW l \in Lists, NEW n \in Names, NEW v \in Vals, Upsert(l, n, v) \/ Update(l, n, v)
        PROVE  <1>1!:
      BY <2>3 DEF Upsert, Update, Change, Request
  <2>4. ASSUME NEW l \in Lists, NEW n \in Names, Delete(l, n)
        PROVE  <1>1!:
      BY <2>4 DEF Delete, Change, Request
  <2>5. ASSUME NEW n \in Names, NEW v \in Vals, HandleCreateUser(n, v) \/ HandleAuthSetup(n, v)
        PROVE  <1>1!:
      BY <2>5 DEF HandleCreateUser, HandleAuthSetup, Change, Request
  <2>6. ASSUME NEW c \in Imports, ImportFleet(c)
        PROVE  <1>1!:
      BY <2>6 DEF ImportFleet, Request
  <2>7. ASSUME NEW s \in Stores, SaveStep(s)
        PROVE  <1>1!:
      BY <2>7 DEF SaveStep, Opens, OpenFails, Writes, WriteFails, Returns
  <2>8. ASSUME NEW b \in Batches, BatchStart(b) \/ BatchStep(b)
        PROVE  <1>1!:
      BY <2>8 DEF BatchStart, BatchStep, BatchUpsert, BatchLaunch, BatchDelete,
                  BatchDeleteMissing, BatchReturns, Change
  <2> QED BY <2>1, <2>2, <2>3, <2>4, <2>5, <2>6, <2>7, <2>8 DEF Next
<1> QED BY <1>1, MaxAssumption DEF IInv, Bounded

LEMMA NextIInv == IInv /\ [Next]_vars => IInv'
<1> SUFFICES ASSUME IInv, [Next]_vars PROVE IInv'
    OBVIOUS
<1>1. Bounded'
    BY Counting
<1>2. StoreInv' /\ BatchInv'
  <2>1. CASE UNCHANGED vars
    <3>1. StoreInv'
        BY <2>1, SameStore DEF IInv, vars
    <3>2. BatchInv'
        BY <2>1 DEF IInv, vars, storeVars, BatchInv, BatchType, Named, Deleting, Single, DiskCut,
                    TempsGone, Busy
    <3> QED BY <3>1, <3>2
  <2>2. CASE StartServer
      BY <2>2, StartStore, StartBatch DEF IInv
  <2>3. CASE Serves
    <3>1. StoreInv'
        BY <2>3, SameStore DEF IInv, Serves
    <3> QED BY <2>3, <3>1, ServesBatch DEF IInv
  <2>4. CASE Stop
      BY <2>4, StopStore, StopBatch DEF IInv
  <2>5. ASSUME NEW l \in Lists, NEW n \in Names, NEW v \in Vals, Upsert(l, n, v) \/ Update(l, n, v)
        PROVE  StoreInv' /\ BatchInv'
      BY <2>5, Requests
  <2>6. ASSUME NEW l \in Lists, NEW n \in Names, Delete(l, n)
        PROVE  StoreInv' /\ BatchInv'
    <3> DEFINE val == IF Len(mem[l][n]) = 1 THEN Gone ELSE Free
    <3>1. Change(l, n, Tail(mem[l][n]), val, "web") /\ UNCHANGED batch /\ mem[l][n] # <<>>
        BY <2>6 DEF Delete, Request
    <3>2. mem[l][n] \in Seq(Entries)
        BY Sets DEF IInv, StoreInv, StoreType, Content
    <3>3. Tail(mem[l][n]) \in Seq(Entries) /\ (Len(mem[l][n]) = 1 => Tail(mem[l][n]) = <<>>)
      <4> DEFINE e == mem[l][n]
      <4>1. e \in Seq(Entries) /\ e # <<>>
          BY <3>1, <3>2
      <4> HIDE DEF e
      <4>2. Tail(e) \in Seq(Entries) /\ (Len(e) <= 1 => Tail(e) = <<>>)
          BY <4>1, TailSeq
      <4>3. Len(e) = 1 => Tail(e) = <<>>
          BY <4>2
      <4> QED BY <4>2, <4>3 DEF e
    <3>4. val \in Some /\ (val # Free => First(Tail(mem[l][n])) = val)
        BY <3>3 DEF First, Some
    <3> HIDE DEF val
    <3> QED BY <3>1, <3>3, <3>4, RequestStep
  <2>7. ASSUME NEW n \in Names, NEW v \in Vals, HandleCreateUser(n, v) \/ HandleAuthSetup(n, v)
        PROVE  StoreInv' /\ BatchInv'
      BY <2>7, Requests, Sets
  <2>8. ASSUME NEW c \in Imports, ImportFleet(c)
        PROVE  StoreInv' /\ BatchInv'
      BY <2>8, ImportStore, ImportBatch DEF IInv
  <2>9. ASSUME NEW s \in Stores, SaveStep(s)
        PROVE  StoreInv' /\ BatchInv'
      BY <2>9, SavesBatch, OpensStore, FailsStore, WritesStore DEF IInv, SaveStep
  <2>10. ASSUME NEW b \in Batches, BatchStart(b) \/ BatchStep(b)
         PROVE  StoreInv' /\ BatchInv'
      BY <2>10, Batching
  <2>11. CASE HandleAuthLogin
      BY <2>11, LoginStore, LoginBatch DEF IInv
  <2> QED BY <2>1, <2>2, <2>3, <2>4, <2>5, <2>6, <2>7, <2>8, <2>9, <2>10, <2>11 DEF Next
<1> QED BY <1>1, <1>2 DEF IInv

LEMMA IInvAlways == Spec => []IInv
<1>1. Init => IInv
  <2>1. Init => Bounded
      BY MaxAssumption DEF Init, Bounded
  <2> QED BY <2>1, InitStore, InitBatch DEF IInv
<1> QED BY <1>1, NextIInv, PTL DEF Spec

-----------------------------------------------------------------------------
(* Type correctness of the stores, the saves and the batches.              *)
THEOREM TypeCorrect == Spec => []TypeOK
<1>1. IInv => TypeOK
    BY DEF IInv, StoreInv, StoreType, BatchInv, BatchType, Bounded, TypeOK, SaveRec, FileRec,
           BatchRec, Some
<1> QED BY <1>1, IInvAlways, PTL

(* A save under the lock writes what the memory holds: the file of a store *)
(* whose last save or load succeeded agrees with the memory.               *)
THEOREM SavedCorrect == Spec => []SavedAgrees
<1>1. IInv => SavedAgrees
    BY DEF IInv, StoreInv
<1> QED BY <1>1, IInvAlways, PTL

(* An acknowledged change lasts, across failed saves, stops and starts,    *)
(* other than a stop while the file is not whole.                          *)
THEOREM AckedCorrect == Spec => []AckedKept
<1>1. IInv => AckedKept
    BY DEF IInv, StoreInv, MemAck, Promised, AckedKept
<1> QED BY <1>1, IInvAlways, PTL

(* BatchLaunchUE leaves no temporary profile behind, other than one that   *)
(* was on disk when the server stopped.                                    *)
THEOREM TempsCorrect == Spec => []TempsGone
<1>1. IInv => TempsGone
    BY DEF IInv, BatchInv
<1> QED BY <1>1, IInvAlways, PTL

-----------------------------------------------------------------------------
(* A batch that is about to launch finds its own profile or none, unless   *)
(* another batch is busy with the name: a batch lets go of a name only     *)
(* when the memory has nothing under it.                                   *)
ToLaunch(b) == batch[b].pc \in {"upsert", "launch"}
Finds(b) ==
  \/ Get("ue", batch[b].name) \in {b, Gone}
  \/ \E o \in Batches \ {b} : Busy(o) /\ batch[o].name = batch[b].name

OwnInv ==
  /\ up # "up" => \A b \in Batches : batch[b].pc = "idle"
  /\ \A b \in Batches : ToLaunch(b) => Finds(b)

(* A step of no batch that saves a profile.                                *)
LEMMA OwnKept ==
  ASSUME IInv, OwnInv, up' # "up" => \A b \in Batches : batch'[b].pc = "idle",
         \A b \in Batches : ToLaunch(b)' => ToLaunch(b) /\ batch'[b].name = batch[b].name,
         \A o \in Batches : Busy(o) => \/ Busy(o)' /\ batch'[o].name = batch[o].name
                                       \/ mem'["ue"][batch[o].name] = <<>>,
         \A t \in Temps : mem'["ue"][t] \in {mem["ue"][t], <<>>}
  PROVE  OwnInv'
<1> SUFFICES ASSUME NEW b \in Batches, ToLaunch(b)' PROVE Finds(b)'
    BY DEF OwnInv
<1>1. ToLaunch(b) /\ batch'[b].name = batch[b].name /\ Finds(b)
    BY DEF OwnInv
<1>2. batch[b].name \in Temps
    BY <1>1 DEF ToLaunch, IInv, BatchInv, Named, Busy
<1>3. CASE mem'["ue"][batch[b].name] = <<>>
    BY <1>1, <1>3 DEF Finds, Get, First
<1>4. CASE mem'["ue"][batch[b].name] = mem["ue"][batch[b].name] /\ mem'["ue"][batch[b].name] # <<>>
  <2>1. Get("ue", batch[b].name) \in {b, Gone} => Get("ue", batch[b].name)' \in {b, Gone}
      BY <1>1, <1>4 DEF Get
  <2>2. \A o \in Batches \ {b} : Busy(o) /\ batch[o].name = batch[b].name =>
          Busy(o)' /\ batch'[o].name = batch'[b].name
      BY <1>1, <1>4
  <2> QED BY <1>1, <2>1, <2>2 DEF Finds
<1> QED BY <1>2, <1>3, <1>4

(* The profile a batch saves is its own.                                   *)
LEMMA OwnUpsert ==
  ASSUME IInv, OwnInv, NEW b \in Batches, NEW t \in Stamps, BatchUpsert(b, t)
  PROVE  OwnInv'
<1> DEFINE i == batch[b].i + 1
           n == <<t, i>>
           r == [pc |-> "upsert", i |-> i, name |-> n]
           c == Upserted(mem["ue"][n], b)
<1>1. n \in Temps /\ n \in AllNames
  <2>1. batch[b].i \in 0 .. MaxCount /\ i <= MaxCount
      BY DEF IInv, BatchInv, BatchType, BatchRec, BatchUpsert
  <2>2. i \in 1 .. MaxCount
      BY <2>1, MaxAssumption
  <2> QED BY <2>2, Sets DEF Temps
<1>2. mem["ue"][n] \in Seq(Entries) /\ b \in Entries /\ mem \in [Lists -> Content]
  <2> HIDE DEF n
  <2>1. mem \in [Lists -> Content] /\ b \in Entries
      BY DEF IInv, StoreInv, StoreType, Entries
  <2>2. mem["ue"] \in Content
      BY <2>1, Sets
  <2> QED BY <1>1, <2>1, <2>2 DEF Content
<1>3. First(c) = b
    BY <1>2, UpsertedSeq
<1>4. /\ up' = "up" /\ mem' = [mem EXCEPT !["ue"][n] = c] /\ batch' = [batch EXCEPT ![b] = r]
      /\ ~Busy(b) /\ r.name = n /\ r.pc = "upsert"
    BY DEF BatchUpsert, Change, Busy
<1> HIDE DEF i, n, r, c
<1>5. mem'["ue"][n] = c /\ \A m \in Temps : m # n => mem'["ue"][m] = mem["ue"][m]
    BY <1>1, <1>2, <1>4, Sets DEF Content
<1>6. batch'[b] = r /\ \A o \in Batches : o # b => batch'[o] = batch[o] /\ (Busy(o)' <=> Busy(o))
    BY <1>4 DEF IInv, BatchInv, BatchType, Busy
<1>7. ASSUME NEW o \in Batches, ToLaunch(o)' PROVE Finds(o)'
  <2>1. CASE o = b
      BY <1>3, <1>4, <1>5, <1>6, <2>1 DEF Finds, Get
  <2>2. CASE o # b /\ batch[o].name = n
      BY <1>4, <1>6, <2>2 DEF Finds, Busy
  <2>3. CASE o # b /\ batch[o].name # n
    <3>1. ToLaunch(o) /\ Finds(o) /\ batch[o].name \in Temps
        BY <1>6, <1>7, <2>3 DEF ToLaunch, OwnInv, IInv, BatchInv, Named, Busy
    <3>2. Get("ue", batch[o].name)' = Get("ue", batch[o].name)
        BY <1>5, <1>6, <2>3, <3>1 DEF Get
    <3> QED BY <1>4, <1>6, <2>3, <3>1, <3>2 DEF Finds
  <2> QED BY <2>1, <2>2, <2>3
<1> QED BY <1>4, <1>7 DEF OwnInv

LEMMA OwnRequest ==
  ASSUME IInv, OwnInv, NEW l \in Lists, NEW n \in Names, NEW c, NEW val, NEW by,
         Change(l, n, c, val, by), UNCHANGED batch
  PROVE  OwnInv'
<1>1. up' = "up" /\ mem' = [mem EXCEPT ![l][n] = c]
    BY DEF Change
<1>2. \A t \in Temps : mem'["ue"][t] = mem["ue"][t]
    BY <1>1, Sets, NamesAssumption DEF IInv, StoreInv, StoreType, Content
<1> QED BY <1>1, <1>2, OwnKept DEF ToLaunch, Busy

LEMMA OwnSame ==
  ASSUME IInv, OwnInv, UNCHANGED <<mem, batch>>, up' = up \/ up' = "up"
  PROVE  OwnInv'
  BY OwnKept DEF OwnInv, ToLaunch, Busy

LEMMA OwnSave ==
  ASSUME IInv, OwnInv, NEW s \in Stores, SaveStep(s)
  PROVE  OwnInv'
<1>1. CASE Opens(s)
    BY <1>1, OwnSame DEF Opens
<1>2. CASE ~Opens(s)
  <2>1. Returns(s) /\ up' = up /\ mem' = mem /\ saving[s].at # "free"
      BY <1>2 DEF SaveStep, OpenFails, Writes, WriteFails, Returns
  <2>2. \A o \in Batches : batch[o] \in BatchRec
      BY DEF IInv, BatchInv, BatchType
  <2>3. \A o \in Batches : batch'[o] = batch[o] \/ batch'[o] = BatchNext(o)
      BY <2>1 DEF Returns
  <2>4. \A o \in Batches :
          /\ BatchNext(o).name = batch[o].name
          /\ batch[o].pc = "upsert" => BatchNext(o).pc = "launch"
          /\ batch[o].pc = "delete" => BatchNext(o).pc = "next"
          /\ batch[o].pc \notin {"upsert", "delete"} => BatchNext(o) = batch[o]
      BY <2>2 DEF BatchNext, BatchRec
  <2>5. \A o \in Batches :
          /\ ToLaunch(o)' => ToLaunch(o) /\ batch'[o].name = batch[o].name
          /\ batch[o].pc = "idle" => batch'[o].pc = "idle"
          /\ Busy(o) => \/ batch[o].pc = "delete"
                        \/ Busy(o)' /\ batch'[o].name = batch[o].name
      BY <2>2, <2>3, <2>4 DEF ToLaunch, Busy
  <2>6. \A o \in Batches : batch[o].pc = "delete" => mem["ue"][batch[o].name] = <<>>
      BY DEF IInv, BatchInv, Deleting
  <2> QED BY <2>1, <2>5, <2>6, OwnKept DEF OwnInv
<1> QED BY <1>1, <1>2

(* A batch that is done with a name leaves nothing under it.               *)
LEMMA OwnBatch ==
  ASSUME IInv, OwnInv, NEW b \in Batches, BatchStart(b) \/ BatchStep(b)
  PROVE  OwnInv'
<1>0. batch \in [Batches -> BatchRec] /\ batch[b] \in BatchRec
    BY DEF IInv, BatchInv, BatchType
<1>1. CASE BatchStart(b) \/ BatchLaunch(b) \/ BatchDeleteMissing(b) \/ BatchReturns(b)
  <2>1. UNCHANGED <<up, mem>> /\ (batch[b].pc # "idle" \/ up = "up")
      BY <1>1 DEF BatchStart, BatchLaunch, BatchDeleteMissing, BatchReturns, storeVars
  <2>2. \A o \in Batches : o # b => batch'[o] = batch[o]
      BY <1>0, <1>1 DEF BatchStart, BatchLaunch, BatchDeleteMissing, BatchReturns
  <2>3. /\ batch'[b].pc \in {"next", "launched", "done"}
        /\ Busy(b) => \/ Busy(b)' /\ batch'[b].name = batch[b].name
                      \/ mem["ue"][batch[b].name] = <<>>
    <3>1. CASE BatchStart(b)
        BY <1>0, <3>1 DEF BatchStart, Busy, BatchRec
    <3>2. CASE BatchLaunch(b)
        BY <1>0, <3>2 DEF BatchLaunch, Busy, BatchRec
    <3>3. CASE BatchDeleteMissing(b)
        BY <1>0, <3>3 DEF BatchDeleteMissing, BatchRec
    <3>4. CASE BatchReturns(b)
      <4>1. [NoBatch EXCEPT !.pc = "done"].pc = "done"
          BY DEF NoBatch
      <4> QED BY <1>0, <3>4, <4>1 DEF BatchReturns, Busy
    <3> QED BY <1>1, <3>1, <3>2, <3>3, <3>4
  <2>4. up = "up"
      BY <2>1 DEF OwnInv
  <2> QED BY <2>1, <2>2, <2>3, <2>4, OwnKept DEF ToLaunch, Busy
<1>2. ASSUME NEW t \in Stamps, BatchUpsert(b, t) PROVE OwnInv'
    BY <1>2, OwnUpsert
<1>3. CASE BatchDelete(b)
  <2> DEFINE n == batch[b].name
             c == Tail(mem["ue"][n])
  <2>1. /\ up' = "up" /\ mem["ue"][n] # <<>> /\ mem' = [mem EXCEPT !["ue"][n] = c]
        /\ batch' = [batch EXCEPT ![b].pc = "delete"] /\ Busy(b)
      BY <1>3 DEF BatchDelete, Change, Busy
  <2>2. n \in Temps /\ n \in AllNames /\ mem \in [Lists -> Content]
      BY <2>1, Sets DEF IInv, BatchInv, Named, StoreInv, StoreType
  <2>3. c = <<>>
    <3>1. mem["ue"][n] \in Seq(Entries) /\ Len(mem["ue"][n]) <= 1
        BY <2>2, Sets DEF Content, IInv, BatchInv, Single
    <3> QED BY <2>1, <3>1, TailSeq
  <2>4. /\ batch'[b].pc = "delete" /\ batch'[b].name = n
        /\ \A o \in Batches : o # b => batch'[o] = batch[o]
      BY <1>0, <2>1 DEF BatchRec
  <2> HIDE DEF n, c
  <2>5. mem'["ue"][n] = <<>> /\ \A m \in Temps : m # n => mem'["ue"][m] = mem["ue"][m]
      BY <2>1, <2>2, <2>3, Sets DEF Content
  <2> QED BY <2>1, <2>4, <2>5, OwnKept DEF ToLaunch, Busy, n
<1> QED BY <1>1, <1>2, <1>3 DEF BatchStep

LEMMA OwnNext == IInv /\ OwnInv /\ [Next]_vars => OwnInv'
<1> SUFFICES ASSUME IInv, OwnInv, [Next]_vars PROVE OwnInv'
    OBVIOUS
<1>1. CASE UNCHANGED vars
    BY <1>1, OwnSame DEF vars, storeVars
<1>2. CASE StartServer
  <2>1. \A b \in Batches : batch'[b].pc = "idle"
      BY <1>2 DEF StartServer, OwnInv
  <2> QED BY <2>1 DEF OwnInv, ToLaunch
<1>3. CASE Serves
    BY <1>3, OwnSame DEF Serves, storeVars
<1>4. CASE Stop
  <2>1. \A b \in Batches : batch'[b].pc = "idle"
      BY <1>4, Batch0 DEF Stop
  <2> QED BY <2>1 DEF OwnInv, ToLaunch
<1>5. ASSUME NEW l \in Lists, NEW n \in Names, NEW v \in Vals, Upsert(l, n, v) \/ Update(l, n, v)
      PROVE  OwnInv'
    BY <1>5, OwnRequest DEF Upsert, Update, Request
<1>6. ASSUME NEW l \in Lists, NEW n \in Names, Delete(l, n) PROVE OwnInv'
    BY <1>6, OwnRequest DEF Delete, Request
<1>7. ASSUME NEW n \in Names, NEW v \in Vals, HandleCreateUser(n, v) \/ HandleAuthSetup(n, v)
      PROVE  OwnInv'
    BY <1>7, Sets, OwnRequest DEF HandleCreateUser, HandleAuthSetup, Request
<1>8. ASSUME NEW c \in Imports, ImportFleet(c) PROVE OwnInv'
  <2>1. up' = "up" /\ UNCHANGED batch
      BY <1>8 DEF ImportFleet, Request
  <2>2. \A t \in Temps : mem'["ue"][t] \in {mem["ue"][t], <<>>}
      BY <1>8, Sets, ImportsAssumption DEF ImportFleet
  <2> QED BY <2>1, <2>2, OwnKept DEF ToLaunch, Busy
<1>9. ASSUME NEW s \in Stores, SaveStep(s) PROVE OwnInv'
    BY <1>9, OwnSave
<1>10. ASSUME NEW b \in Batches, BatchStart(b) \/ BatchStep(b) PROVE OwnInv'
    BY <1>10, OwnBatch
<1>11. CASE HandleAuthLogin
    BY <1>11, LoginTemps, OwnKept DEF HandleAuthLogin, ToLaunch, Busy
<1> QED BY <1>1, <1>2, <1>3, <1>4, <1>5, <1>6, <1>7, <1>8, <1>9, <1>10, <1>11 DEF Next

LEMMA OwnAlways == Spec => [](IInv /\ OwnInv)
<1>1. Init => OwnInv
    BY Batch0 DEF Init, OwnInv, ToLaunch
<1> QED BY <1>1, OwnNext, IInvAlways, PTL DEF Spec

(* BatchLaunchUE launches each UE from the profile it saved for it, and    *)
(* not from what an earlier run of the server left under the name, unless  *)
(* another batch has the name too or the profile is gone: the save before  *)
(* the launch replaces what was there.                                     *)
THEOREM LaunchesCorrect == Spec => BatchLaunchesOwn
<1>1. OwnInv => [\A b \in Batches : batch[b].pc = "launch" /\ batch'[b].pc = "launched" =>
          \/ Get("ue", batch[b].name) \in {b, Gone}
          \/ \E o \in Batches \ {b} : Busy(o) /\ batch[o].name = batch[b].name]_vars
    BY DEF OwnInv, ToLaunch, Finds
<1> QED BY <1>1, OwnAlways, PTL DEF BatchLaunchesOwn
=============================================================================
