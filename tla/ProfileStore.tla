---------------------------- MODULE ProfileStore ----------------------------
(***************************************************************************)
(* What the server keeps on disk: fleet.json (config/fleet.go), users.json *)
(* and scenarios.json (webserver/server.go).  Each store is a file with    *)
(* one or more lists of named entries, kept in memory under one lock.      *)
(* Every change is made in memory and then saved, with the lock held, by   *)
(* os.WriteFile: the file is truncated when it is opened and written after *)
(* that, and each of the two may fail.  The server may stop at any step,   *)
(* by a signal (its handler calls os.Exit) or a crash, and start again.    *)
(*                                                                         *)
(* Also here is the user of fleet.json that spans several operations:      *)
(* BatchLaunchUE saves a profile, launches a UE from it and deletes it.    *)
(*                                                                         *)
(* The order of the entries of a list is never looked at, other than to    *)
(* find the first one of a name: a list is, for each name, the sequence of *)
(* its entries.  An import may bring several entries of one name.          *)
(***************************************************************************)
EXTENDS Naturals, Sequences

CONSTANTS
  Lists,      \* the lists of all stores
  Stores,     \* the stores
  StoreOf,    \* the store of each list
  Fleet,      \* the store of fleet.json
  Defaults,   \* for each list that LoadFleet fills when it is empty, its default content
  Names,      \* names of entries that requests use
  Stamps,     \* the clock's part of the name of a batch's profile (UnixNano modulo 1000)
  Vals,       \* what requests write
  Admins,     \* the values of users that are administrators
  Batches,    \* batch launches; what one writes is known by its name
  Imports,    \* the contents a request may import
  NoName,     \* no name
  MaxCount,   \* bound: UEs of a batch
  MaxOps,     \* bound: changes requested in all, batches aside
  MaxStops    \* bound: stops of the server

(* A batch names the profile of its i-th UE by its base profile, the clock *)
(* and i; here all batches have the same base profile.                     *)
Temps    == Stamps \X (1 .. MaxCount)
Entries  == Vals \cup Batches
AllNames == Names \cup Temps
Content  == [AllNames -> Seq(Entries)]
Refilled == DOMAIN Defaults
Listed(s) == {l \in Lists : StoreOf[l] = s}

ASSUME ListsAssumption ==
  /\ "ue" \in Listed(Fleet) /\ {"users", "scenarios"} \subseteq Lists \ Listed(Fleet)
  /\ StoreOf \in [Lists -> Stores] /\ Fleet \in Stores
ASSUME DefaultsAssumption ==
  /\ Refilled \subseteq Listed(Fleet) \ {"ue"}
  /\ \A l \in Refilled : Defaults[l] \in Content
ASSUME NamesAssumption ==
  /\ NoName \notin AllNames /\ Names \cap Temps = {}
  /\ Vals \cap Batches = {} /\ Admins \subseteq Vals
  /\ {"free", "gone"} \cap Entries = {} /\ {"web", "start"} \cap Batches = {}
(* No import brings back the profile of a batch.                           *)
ASSUME ImportsAssumption ==
  \A c \in Imports : /\ DOMAIN c \subseteq Listed(Fleet)
                     /\ \A l \in DOMAIN c : /\ c[l] \in Content
                                            /\ \A t \in Temps : c[l][t] = <<>>
ASSUME MaxAssumption == MaxCount \in Nat /\ MaxOps \in Nat /\ MaxStops \in Nat

VARIABLES
  up,         \* the server: "down", "starting" or "up"
  mem,        \* the lists in memory
  file,       \* the state of each file, and the lists in it
  saving,     \* the save that holds each store's lock
  batch,      \* where each batch is
  ops, stops,
  due,        \* what the last acknowledged request on a name made of it
  saved,      \* stores whose last save succeeded, in this run of the server
  cut         \* the temporary profiles that were on disk when the server stopped

storeVars == <<mem, file, saving, due, saved>>
vars      == <<up, storeVars, batch, ops, stops, cut>>

Empty   == [n \in AllNames |-> <<>>]
NoLists == [l \in Lists |-> Empty]
(* No save; nothing is promised about the name; the name is promised gone. *)
Free == "free"
Gone == "gone"
NoSave == [at |-> "free", by |-> "web", l |-> "ue", n |-> NoName, val |-> Free]
NoBatch == [pc |-> "idle", i |-> 0, name |-> NoName]

(* A list as LoadFleet takes it from the file.                             *)
Load(l, c) == IF l \in Refilled /\ c = Empty THEN Defaults[l] ELSE c

(* GetUEProfile and its like: the first entry of the name.                 *)
First(c)  == IF c = <<>> THEN Gone ELSE Head(c)
Get(l, n) == First(mem[l][n])

(* The batch has a temporary profile.                                      *)
Busy(b) == batch[b].pc \in {"upsert", "launch", "launched", "delete"}

Init ==
  /\ up = "down" /\ mem = NoLists
  /\ file = [s \in Stores |-> [st |-> "absent", data |-> NoLists]]
  /\ saving = [s \in Stores |-> NoSave]
  /\ batch = [b \in Batches |-> NoBatch]
  /\ ops = 0 /\ stops = 0
  /\ due = [l \in Lists |-> [n \in Names |-> Free]]
  /\ saved = {} /\ cut = {}

-----------------------------------------------------------------------------
(* StartServer: LoadFleet, loadUsers, loadSavedScenarios.  Without a file, *)
(* LoadFleet takes the defaults and saves them, the others start empty.  A *)
(* file that does not parse is left alone and the store starts empty.      *)
(* Requests are served only after that.                                    *)

StartServer ==
  /\ up = "down" /\ up' = "starting"
  /\ mem' = [l \in Lists |-> LET f == file[StoreOf[l]] IN
                CASE f.st = "ok"     -> Load(l, f.data[l])
                  [] f.st = "absent" -> Load(l, Empty)
                  [] f.st = "torn"   -> Empty]
  /\ saved' = {s \in Stores : file[s].st = "ok"}
  /\ saving' = [saving EXCEPT ![Fleet] = IF file[Fleet].st # "absent" THEN NoSave
                                         ELSE [NoSave EXCEPT !.at = "open", !.by = "start"]]
  /\ UNCHANGED <<file, due, batch, ops, stops, cut>>

Serves ==
  /\ up = "starting" /\ saving[Fleet] = NoSave /\ up' = "up"
  /\ UNCHANGED <<storeVars, batch, ops, stops, cut>>

-----------------------------------------------------------------------------
(* A change of the entries of name n of list l to c, made by `by': it      *)
(* takes the lock of the store, and the save begins.  When it succeeds,    *)
(* the request is told that the name has the entry val, or none; until     *)
(* then nothing is promised about the name.                                *)
Change(l, n, c, val, by) ==
  LET s == StoreOf[l] IN
  /\ up = "up" /\ saving[s] = NoSave
  /\ mem' = [mem EXCEPT ![l][n] = c]
  /\ saving' = [saving EXCEPT ![s] = [at |-> "open", by |-> by, l |-> l, n |-> n, val |-> val]]
  /\ due' = [due EXCEPT ![l] = [m \in Names |-> IF m = n THEN Free ELSE due[l][m]]]
  /\ UNCHANGED <<up, file, saved, stops, cut>>

Request == ops < MaxOps /\ ops' = ops + 1 /\ UNCHANGED batch

(* Mutant: an entry that is there already is kept.                         *)
Upserted_IfAbsent(c, v) == IF c = <<>> THEN <<v>> ELSE c

(* Mutant: the entry is added after the ones of the same name.             *)
Upserted_Appends(c, v) == Append(c, v)

(* The first entry of the name is replaced, or one is added.               *)
Upserted(c, v) == IF c = <<>> THEN <<v>> ELSE [c EXCEPT ![1] = v]

(* UpsertUEProfile and its like, handleSaveScenario.                       *)
Upsert(l, n, v) ==
  /\ l \in Listed(Fleet) \cup {"scenarios"}
  /\ Change(l, n, Upserted(mem[l][n], v), v, "web") /\ Request

(* DeleteUEProfile and its like, handleDeleteUser, and handleEditScenario  *)
(* with the delete flag: the first entry of the name goes, and if it was   *)
(* the only one the name is gone.  (That the profile of a running gNB is   *)
(* refused is a request less.)                                             *)
Delete(l, n) ==
  /\ mem[l][n] # <<>>
  /\ Change(l, n, Tail(mem[l][n]), IF Len(mem[l][n]) = 1 THEN Gone ELSE Free, "web")
  /\ Request

(* handleUpdateUser, handleChangePassword, handleEditScenario.             *)
Update(l, n, v) ==
  /\ l \in {"users", "scenarios"} /\ mem[l][n] # <<>>
  /\ Change(l, n, Upserted(mem[l][n], v), v, "web") /\ Request

HandleCreateUser(n, v) ==
  /\ mem["users"][n] = <<>>
  /\ Change("users", n, <<v>>, v, "web") /\ Request

(* handleAuthSetup: as long as no user is an administrator.                *)
HandleAuthSetup(n, v) ==
  /\ v \in Admins /\ \A m \in Names : Get("users", m) \notin Admins
  /\ Change("users", n, <<v>>, v, "web") /\ Request

(* handleAuthLogin: a user that is unknown or a password that does not fit *)
(* makes the server read the users again, if their file is whole.          *)
HandleAuthLogin ==
  LET s == StoreOf["users"] IN
  /\ up = "up" /\ saving[s] = NoSave /\ file[s].st = "ok"
  /\ mem' = [l \in Lists |-> IF l \in Listed(s) THEN file[s].data[l] ELSE mem[l]]
  /\ saved' = saved \cup {s}
  /\ UNCHANGED <<up, file, saving, due, batch, ops, stops, cut>>

(* Mutant: a list the request does not have is replaced too, by nil.       *)
ImportFleet_Nil(c) ==
  /\ up = "up" /\ saving[Fleet] = NoSave
  /\ mem' = [l \in Lists |-> IF l \in DOMAIN c THEN c[l] ELSE IF l \in Listed(Fleet) THEN <<>> ELSE mem[l]]
  /\ saving' = [saving EXCEPT ![Fleet].at = "open"]
  /\ due' = [l \in Lists |-> IF l \in DOMAIN c THEN [n \in Names |-> Free] ELSE due[l]]
  /\ Request
  /\ UNCHANGED <<up, file, saved, stops, cut>>

(* ImportFleet replaces the lists that the request has, whole.             *)
ImportFleet(c) ==
  /\ up = "up" /\ saving[Fleet] = NoSave
  /\ mem' = [l \in Lists |-> IF l \in DOMAIN c THEN c[l] ELSE mem[l]]
  /\ saving' = [saving EXCEPT ![Fleet].at = "open"]
  /\ due' = [l \in Lists |-> IF l \in DOMAIN c THEN [n \in Names |-> Free] ELSE due[l]]
  /\ Request
  /\ UNCHANGED <<up, file, saved, stops, cut>>

-----------------------------------------------------------------------------
(* saveFleetLocked, saveUsersLocked, saveSavedScenarios.  An error is      *)
(* returned to the request; the change stays in memory.                    *)

(* The save of store s returns: the lock is free, and the batch goes on.   *)
BatchNext(b) ==
  CASE batch[b].pc = "upsert" -> [batch[b] EXCEPT !.pc = "launch"]
    [] batch[b].pc = "delete" -> [batch[b] EXCEPT !.pc = "next"]
    [] OTHER                  -> batch[b]

Returns(s) ==
  /\ saving' = [saving EXCEPT ![s] = NoSave]
  /\ batch' = [b \in Batches |-> IF saving[s].by = b THEN BatchNext(b) ELSE batch[b]]
  /\ UNCHANGED <<up, mem, ops, stops, cut>>

Opens(s) ==
  /\ saving[s].at = "open"
  /\ saving' = [saving EXCEPT ![s].at = "write"]
  /\ file' = [file EXCEPT ![s] = [st |-> "torn", data |-> NoLists]]
  /\ saved' = saved \ {s}
  /\ UNCHANGED <<up, mem, due, batch, ops, stops, cut>>

OpenFails(s) ==
  /\ saving[s].at = "open" /\ Returns(s)
  /\ saved' = saved \ {s}
  /\ UNCHANGED <<file, due>>

(* Mutant: only the list that was changed is written.                      *)
Writes_Changed(s) ==
  /\ saving[s].at = "write" /\ Returns(s)
  /\ file' = [file EXCEPT ![s] = [st |-> "ok", data |-> [l \in Lists |->
                IF StoreOf[l] = s /\ l = saving[s].l THEN mem[l] ELSE Empty]]]
  /\ saved' = saved \cup {s}
  /\ due' = [l \in Lists |-> [n \in Names |->
               IF l = saving[s].l /\ n = saving[s].n THEN saving[s].val ELSE due[l][n]]]

Writes(s) ==
  /\ saving[s].at = "write" /\ Returns(s)
  /\ file' = [file EXCEPT ![s] = [st |-> "ok", data |-> [l \in Lists |->
                IF StoreOf[l] = s THEN mem[l] ELSE Empty]]]
  /\ saved' = saved \cup {s}
  /\ due' = [l \in Lists |-> [n \in Names |->
               IF l = saving[s].l /\ n = saving[s].n THEN saving[s].val ELSE due[l][n]]]

WriteFails(s) ==
  /\ saving[s].at = "write" /\ Returns(s)
  /\ UNCHANGED <<file, due, saved>>

(* The server stops: the signal handler's os.Exit, or a crash.  What a     *)
(* file that is not whole had promised is lost with it.                    *)
Stop ==
  /\ up # "down" /\ up' = "down" /\ stops < MaxStops /\ stops' = stops + 1
  /\ mem' = NoLists /\ saving' = [s \in Stores |-> NoSave] /\ saved' = {}
  /\ due' = [l \in Lists |-> IF file[StoreOf[l]].st = "ok" THEN due[l]
                             ELSE [n \in Names |-> Free]]
  /\ batch' = [b \in Batches |-> NoBatch]
  /\ cut' = cut \cup {t \in Temps : file[Fleet].data["ue"][t] # <<>>}
  /\ UNCHANGED <<file, ops>>

-----------------------------------------------------------------------------
(* BatchLaunchUE: the base profile is read once; then, for each UE, a      *)
(* profile is saved, a UE is launched from it and it is deleted, whatever  *)
(* the two saves and the launch return.                                    *)
BatchStart(b) ==
  /\ up = "up" /\ saving[Fleet] = NoSave /\ batch[b].pc = "idle"
  /\ \E n \in Names : mem["ue"][n] # <<>>
  /\ batch' = [batch EXCEPT ![b].pc = "next"]
  /\ UNCHANGED <<up, storeVars, ops, stops, cut>>

BatchUpsert(b, t) ==
  LET i == batch[b].i + 1  n == <<t, i>> IN
  /\ batch[b].pc = "next" /\ i <= MaxCount
  /\ Change("ue", n, Upserted(mem["ue"][n], b), b, b)
  /\ batch' = [batch EXCEPT ![b] = [pc |-> "upsert", i |-> i, name |-> n]]
  /\ UNCHANGED ops

(* LaunchUEFromProfile reads the profile by its name; what it does then is *)
(* in FleetUe.                                                             *)
BatchLaunch(b) ==
  /\ saving[Fleet] = NoSave /\ batch[b].pc = "launch"
  /\ batch' = [batch EXCEPT ![b].pc = "launched"]
  /\ UNCHANGED <<up, storeVars, ops, stops, cut>>

(* Mutant: the profile of a UE that was not launched stays.                *)
BatchDelete_IfLaunched(b) ==
  LET n == batch[b].name IN
  /\ batch[b].pc = "launched" /\ saving[Fleet] = NoSave
  /\ \/ /\ mem["ue"][n] # <<>> /\ batch' = [batch EXCEPT ![b].pc = "delete"]
        /\ Change("ue", n, Tail(mem["ue"][n]), Free, b)
     \/ /\ batch' = [batch EXCEPT ![b].pc = "next"]
        /\ UNCHANGED <<up, storeVars, stops, cut>>
  /\ UNCHANGED ops

BatchDelete(b) ==
  LET n == batch[b].name IN
  /\ batch[b].pc = "launched" /\ mem["ue"][n] # <<>>
  /\ Change("ue", n, Tail(mem["ue"][n]), Free, b)
  /\ batch' = [batch EXCEPT ![b].pc = "delete"]
  /\ UNCHANGED ops

BatchDeleteMissing(b) ==
  /\ batch[b].pc = "launched" /\ saving[Fleet] = NoSave /\ mem["ue"][batch[b].name] = <<>>
  /\ batch' = [batch EXCEPT ![b].pc = "next"]
  /\ UNCHANGED <<up, storeVars, ops, stops, cut>>

BatchReturns(b) ==
  /\ batch[b].pc = "next" /\ batch[b].i > 0
  /\ batch' = [batch EXCEPT ![b] = [NoBatch EXCEPT !.pc = "done"]]
  /\ UNCHANGED <<up, storeVars, ops, stops, cut>>

-----------------------------------------------------------------------------
SaveStep(s)  == Opens(s) \/ OpenFails(s) \/ Writes(s) \/ WriteFails(s)
BatchStep(b) == \/ \E t \in Stamps : BatchUpsert(b, t)
                \/ BatchLaunch(b) \/ BatchDelete(b) \/ BatchDeleteMissing(b) \/ BatchReturns(b)

Next ==
  \/ StartServer \/ Serves \/ Stop
  \/ \E l \in Lists, n \in Names, v \in Vals : Upsert(l, n, v) \/ Update(l, n, v)
  \/ \E l \in Lists, n \in Names : Delete(l, n)
  \/ \E n \in Names, v \in Vals : HandleCreateUser(n, v) \/ HandleAuthSetup(n, v)
  \/ HandleAuthLogin
  \/ \E c \in Imports : ImportFleet(c)
  \/ \E s \in Stores : SaveStep(s)
  \/ \E b \in Batches : BatchStart(b) \/ BatchStep(b)

Spec == Init /\ [][Next]_vars

-----------------------------------------------------------------------------
TypeOK ==
  /\ up \in {"down", "starting", "up"}
  /\ mem \in [Lists -> Content]
  /\ file \in [Stores -> [st : {"absent", "torn", "ok"}, data : [Lists -> Content]]]
  /\ saving \in [Stores -> [at : {"free", "open", "write"}, by : {"web", "start"} \cup Batches,
                            l : Lists, n : AllNames \cup {NoName},
                            val : Entries \cup {Free, Gone}]]
  /\ batch \in [Batches -> [pc : {"idle", "next", "upsert", "launch", "launched", "delete", "done"},
                            i : 0 .. MaxCount, name : Temps \cup {NoName}]]
  /\ ops \in 0 .. MaxOps /\ stops \in 0 .. MaxStops
  /\ due \in [Lists -> [Names -> Entries \cup {Free, Gone}]]
  /\ saved \subseteq Stores /\ cut \subseteq Temps

(* An acknowledged change lasts: as long as nobody changes the name again, *)
(* what was saved is what the server finds, across failed saves of other   *)
(* names, stops and starts, other than a stop while the file is not whole. *)
(* An acknowledged deletion lasts too, in the lists without defaults.      *)
AckedKept ==
  up = "up" => \A l \in Lists, n \in Names :
    due[l][n] # Free /\ ~(due[l][n] = Gone /\ l \in Refilled) => Get(l, n) = due[l][n]

(* The file of a store whose last save or load succeeded, when no save is  *)
(* under way, is whole and holds what the memory holds, or what a start    *)
(* makes of it where the list is empty.                                    *)
SavedAgrees ==
  \A s \in saved : saving[s].at = "free" =>
     /\ file[s].st = "ok"
     /\ \A l \in Listed(s) : mem[l] \in {file[s].data[l], Load(l, file[s].data[l])}

(* The temporary profiles of batches do not stay: one that is in memory is *)
(* in use, or was on disk when the server stopped.                         *)
TempsGone ==
  \A t \in Temps : mem["ue"][t] # <<>> =>
     t \in cut \/ \E b \in Batches : Busy(b) /\ batch[b].name = t

(* A batch launches its UEs from its own profiles and not from what an     *)
(* earlier run of the server left under the same name, unless another      *)
(* batch has taken the same name at the same time, or an import has taken  *)
(* the profile away.                                                       *)
BatchLaunchesOwn ==
  [][\A b \in Batches : batch[b].pc = "launch" /\ batch'[b].pc = "launched" =>
       \/ Get("ue", batch[b].name) \in {b, Gone}
       \/ \E o \in Batches \ {b} : Busy(o) /\ batch[o].name = batch[b].name]_vars

(* What the comment of DeleteAMFProfile says: a deleted profile is gone.   *)
DeletedGone ==
  up = "up" => \A l \in Lists, n \in Names : due[l][n] = Gone => Get(l, n) = Gone

=============================================================================
