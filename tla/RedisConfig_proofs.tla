-------------------------- MODULE RedisConfig_proofs --------------------------
(***************************************************************************)
(* Proofs about RedisConfig, for any contents, requests, failures and      *)
(* crashes: an upsert never takes away what an earlier one stored, and so  *)
(* a read misses nothing, although it takes no lock that means anything.   *)
(***************************************************************************)
EXTENDS RedisConfig, TLAPS

(* Clones get names of their own. *)
Apart == Targets \cap Reserved = {}

(* Every name of version f of e is in db, at a version that is not older. *)
Covers(db, e, f) ==
  \A n \in Content[f] : db[<<e, n>>] # Missing /\ db[<<e, n>>][1] = e /\ db[<<e, n>>][2] >= f

(* What a step may write: of a reserved environment only versions that are
   not older than the one it is known to be at.                            *)
Kept(db) ==
  /\ DOMAIN db = Keys
  /\ \A k \in Keys : k[1] \in Reserved =>
       \/ db[k] = kv[k]
       \/ \E v \in Versions : v >= floor[k[1]] /\ db[k] = <<k[1], v>>

Storing ==
  /\ DOMAIN kv = Keys
  /\ uenv \in Reserved /\ floor \in [Reserved -> Versions \cup {0}]
  /\ upc \in {"delete", "store"} => uver \in Versions /\ uver >= floor[uenv]

(* Clones and reads are records, whatever their fields hold. *)
IsClone(j) ==
  j = [pc |-> j.pc, src |-> j.src, dst |-> j.dst, globs |-> j.globs, look |-> j.look,
       puts |-> j.puts, base |-> j.base, held |-> j.held]

IsRead(d) ==
  d = [pc |-> d.pc, env |-> d.env, asked |-> d.asked, todo |-> d.todo, at |-> d.at,
       got |-> d.got, base |-> d.base, floor |-> d.floor, changed |-> d.changed]

Copying ==
  /\ DOMAIN clone = Cloners
  /\ \A c \in Cloners : clone[c].pc \notin {"idle", "ok", "error"} =>
       IsClone(clone[c]) /\ clone[c].dst \in Targets

(* A read of the repository's environment that began at a version. *)
Bound(d) == d.env \in Reserved /\ d.floor > 0

(* What it began with is still there. *)
Behind(d) ==
  /\ d.floor \in Versions \cup {0}
  /\ Bound(d) => d.floor <= floor[d.env] /\ Covers(kv, d.env, d.floor)

(* Each name it has to find is still to look up, was found, or is read. *)
Progress(d) ==
  /\ d.pc = "done" => d.todo = {}
  /\ Bound(d) => \A n \in Content[d.floor] \cap (d.asked[1] \cup d.asked[2]) :
       \/ \E p \in d.todo : p[2] = n
       \/ d.pc = "get" /\ d.at[2] = n
       \/ \E a \in d.got : a[2] = n /\ a[3][2] >= d.floor

Reading ==
  /\ DOMAIN read = Readers
  /\ \A r \in Readers : IsRead(read[r])
  /\ \A r \in Readers : read[r].pc # "idle" => Behind(read[r]) /\ Progress(read[r])

Inv == Storing /\ LatestStored /\ Copying /\ Reading

-----------------------------------------------------------------------------
(* What an environment had at a version, it has after every step. *)
LEMMA VersionsAreNumbers == \A v \in Versions \cup {0} : v \in Nat
BY NamesAssumption DEF Versions

LEMMA KeptCovers ==
  ASSUME Storing, NEW db, Kept(db), NEW e \in Reserved, NEW f \in Versions, f <= floor[e],
         Covers(kv, e, f)
  PROVE  Covers(db, e, f)
<1> SUFFICES ASSUME NEW n \in Content[f]
             PROVE  db[<<e, n>>] # Missing /\ db[<<e, n>>][1] = e /\ db[<<e, n>>][2] >= f
  BY DEF Covers
<1>1. <<e, n>> \in Keys
  BY NamesAssumption DEF Keys
<1>2. CASE db[<<e, n>>] = kv[<<e, n>>]
  BY <1>2 DEF Covers
<1>3. ASSUME NEW v \in Versions, v >= floor[e], db[<<e, n>>] = <<e, v>>
      PROVE  db[<<e, n>>] # Missing /\ db[<<e, n>>][1] = e /\ db[<<e, n>>][2] >= f
  <2>1. v \in Nat /\ f \in Nat /\ floor[e] \in Nat
    <3>1. floor[e] \in Versions \cup {0}
      BY DEF Storing
    <3> QED BY <3>1, VersionsAreNumbers
  <2>2. <<e, v>> # Missing
    BY MissingAssumption, NamesAssumption DEF Values
  <2> QED BY <1>3, <2>1, <2>2
<1> QED BY <1>1, <1>2, <1>3 DEF Kept

(* A step that writes, of which every read learns. *)
LEMMA WriteReading ==
  ASSUME Storing, Reading, Kept(kv'), read' = Touched(kv'),
         \A e \in Reserved : floor'[e] \in Versions \cup {0} /\ floor'[e] >= floor[e]
  PROVE  Reading'
<1>1. ASSUME NEW r \in Readers
      PROVE  /\ IsRead(read'[r])
             /\ read'[r].pc # "idle" => Behind(read[r])' /\ Progress(read'[r])
  <2>1. PICK d : d = read[r] /\ IsRead(d) /\ (d.pc # "idle" => Behind(d) /\ Progress(d))
    BY DEF Reading
  <2>2. PICK i, changed : i = read'[r] /\ i = [d EXCEPT !.changed = changed]
    BY <2>1 DEF Touched
  <2>3. /\ IsRead(i) /\ i.pc = d.pc /\ i.env = d.env /\ i.asked = d.asked /\ i.todo = d.todo
        /\ i.at = d.at /\ i.got = d.got /\ i.floor = d.floor
    BY <2>1, <2>2 DEF IsRead
  <2>4. CASE d.pc = "idle"
    BY <2>2, <2>3, <2>4
  <2>5. CASE d.pc # "idle"
    <3>1. Progress(i)
      BY <2>1, <2>3, <2>5 DEF Progress, Bound
    <3>2. i.floor \in Versions \cup {0}
      BY <2>1, <2>3, <2>5 DEF Behind
    <3>3. ASSUME i.env \in Reserved, i.floor > 0
          PROVE  i.floor <= floor'[i.env] /\ Covers(kv', i.env, i.floor)
      <4>1. i.floor \in Versions /\ i.floor <= floor[i.env] /\ Covers(kv, i.env, i.floor)
        BY <2>1, <2>3, <2>5, <3>2, <3>3 DEF Behind, Bound
      <4>2. i.floor \in Nat /\ floor[i.env] \in Nat /\ floor'[i.env] \in Nat
        <5>1. floor[i.env] \in Versions \cup {0} /\ floor'[i.env] \in Versions \cup {0}
          BY <3>3 DEF Storing
        <5> QED BY <4>1, <5>1, VersionsAreNumbers
      <4>3. floor'[i.env] >= floor[i.env]
        BY <3>3
      <4> QED BY <3>3, <4>1, <4>2, <4>3, KeptCovers
    <3> QED BY <2>2, <2>3, <3>1, <3>2, <3>3 DEF Behind, Bound
  <2> QED BY <2>4, <2>5
<1>2. DOMAIN read' = Readers
  BY DEF Touched
<1> QED BY <1>1, <1>2 DEF Reading

(* A step of a reader, which becomes d. *)
LEMMA ReadsReading ==
  ASSUME Reading, NEW r \in Readers, NEW d, Reads(r, d), IsRead(d), Behind(d), Progress(d)
  PROVE  Reading'
<1>1. DOMAIN read' = Readers /\ read'[r] = d /\ \A q \in Readers : q # r => read'[q] = read[q]
  BY DEF Reads, Reading
<1>2. \A q : Behind(read'[q]) => Behind(read[q])'
  BY DEF Reads, redis, poller, Behind
<1> QED BY <1>1, <1>2 DEF Reading, Reads, redis, poller, Behind

-----------------------------------------------------------------------------
(* The writes. *)
LEMMA SameKept == ASSUME Storing PROVE Kept(kv)
BY DEF Kept, Storing

LEMMA DeletionKept ==
  ASSUME Storing, NEW db, Kept(db), NEW a, NEW b, a \notin Reserved
  PROVE  Kept(PatternDelete(db, a, b))
BY DEF Kept, PatternDelete

LEMMA CopyKept ==
  ASSUME Storing, NEW e, NEW n, n \notin Reserved PROVE Kept(Copied(kv, e, n))
BY DEF Kept, Copied, Storing

LEMMA StoppedKept ==
  ASSUME Storing, NEW e, NEW n, n \notin Reserved, NEW some PROVE Kept(Stopped(kv, e, n, some))
<1>1. Kept(Copied(kv, e, n))
  BY CopyKept
<1> QED BY <1>1 DEF Kept, Stopped, Storing

LEMMA GlobalKept ==
  ASSUME Storing, NEW n, n \notin Reserved, NEW g
  PROVE  Kept([kv EXCEPT ![<<n, g>>] = Override])
BY DEF Kept, Storing

LEMMA VersionKept ==
  ASSUME Storing, upc = "store" PROVE Kept(PutVersion(kv, uenv, uver))
BY DEF Kept, Storing, PutVersion

LEMMA LatestKept ==
  ASSUME Storing, LatestStored, Kept(kv'), UNCHANGED floor PROVE LatestStored'
<1> SUFFICES ASSUME NEW e \in Reserved, floor[e] > 0 PROVE Covers(kv', e, floor[e])
  BY DEF LatestStored, Covers
<1>1. floor[e] \in Versions /\ floor[e] \in Nat
  BY VersionsAreNumbers DEF Storing
<1>2. Covers(kv, e, floor[e])
  BY DEF LatestStored, Covers
<1> QED BY <1>1, <1>2, KeptCovers

-----------------------------------------------------------------------------
(* The readers. *)
LEMMA BeginReading ==
  ASSUME Inv, NEW r \in Readers, NEW e \in Envs, NEW req \in Requests, BeginRead(r, e, req)
  PROVE  Reading'
<1> DEFINE todo == {<<h, h>> : h \in req[1]} \cup ({Top} \X req[2])
           begun == IF e \in Reserved THEN floor[e] ELSE 0
<1>1. PICK i : i = NoRead /\ IsRead(i)
  <2>1. IsRead(NoRead)
    BY DEF NoRead, IsRead
  <2> QED BY <2>1
<1>2. PICK d, t, f : /\ d = [i EXCEPT !.pc = "lock", !.env = e, !.asked = req, !.todo = t,
                                       !.base = kv, !.floor = f]
                     /\ t = todo /\ f = begun /\ Reads(r, d)
  BY <1>1, Zenon DEF BeginRead
<1> HIDE DEF todo, begun
<1>3. IsRead(d) /\ d.pc = "lock" /\ d.env = e /\ d.asked = req /\ d.todo = t /\ d.floor = f
  BY <1>1, <1>2 DEF IsRead
<1>4. f \in Versions \cup {0} /\ (e \in Reserved => f = floor[e])
  BY <1>2 DEF begun, Inv, Storing
<1>5. Behind(d)
  <2>1. ASSUME e \in Reserved, f > 0 PROVE f <= floor[e] /\ Covers(kv, e, f)
    BY <1>4, <2>1, VersionsAreNumbers DEF Inv, LatestStored, Covers
  <2> QED BY <1>3, <1>4, <2>1 DEF Behind, Bound
<1>6. Progress(d)
  <2>1. \A n \in req[1] \cup req[2] : \E p \in t : p[2] = n
    <3>1. ASSUME NEW n \in req[1] PROVE <<n, n>> \in t
      BY <1>2, <3>1 DEF todo
    <3>2. ASSUME NEW n \in req[2] PROVE <<Top, n>> \in t
      BY <1>2, <3>2 DEF todo
    <3> QED BY <3>1, <3>2
  <2> QED BY <1>3, <2>1 DEF Progress
<1> QED BY <1>2, <1>3, <1>5, <1>6, ReadsReading DEF Inv

LEMMA CheckReading ==
  ASSUME Reading, NEW r \in Readers, CheckLock(r) \/ AnswerRead(r) PROVE Reading'
<1>1. PICK d, i, pc : /\ i = read[r] /\ IsRead(i) /\ Behind(i) /\ Progress(i)
                      /\ d = [i EXCEPT !.pc = pc] /\ Reads(r, d)
                      /\ pc = "done" => i.todo = {}
                      /\ i.pc \in {"lock", "keys"}
  BY DEF Reading, CheckLock, AnswerRead
<1>2. /\ IsRead(d) /\ d.pc = pc /\ d.env = i.env /\ d.asked = i.asked /\ d.todo = i.todo
      /\ d.got = i.got /\ d.floor = i.floor
  BY <1>1 DEF IsRead
<1>3. Behind(d) /\ Progress(d)
  BY <1>1, <1>2 DEF Behind, Progress, Bound
<1> QED BY <1>1, <1>2, <1>3, ReadsReading

(* A key that is found to be missing is none of those to find. *)
LEMMA FindReading ==
  ASSUME Reading, NEW r \in Readers, NEW p \in read[r].todo, FindKey(r, p) PROVE Reading'
<1>1. PICK i, t : /\ i = read[r] /\ IsRead(i) /\ Behind(i) /\ Progress(i) /\ i.pc = "keys"
                  /\ t = i.todo \ {p}
  BY DEF Reading, FindKey
<1>2. CASE kv[<<i.env, p[2]>>] = Missing
  <2>1. PICK d : d = [i EXCEPT !.todo = t] /\ Reads(r, d)
    BY <1>1, <1>2 DEF FindKey
  <2>2. /\ IsRead(d) /\ d.pc = i.pc /\ d.env = i.env /\ d.asked = i.asked /\ d.todo = t
        /\ d.got = i.got /\ d.floor = i.floor
    BY <1>1, <2>1 DEF IsRead
  <2>3. Behind(d)
    BY <1>1, <2>2 DEF Behind, Bound
  <2>4. Bound(i) => p[2] \notin Content[i.floor]
    BY <1>1, <1>2 DEF Behind, Covers
  <2>5. Progress(d)
    BY <1>1, <2>2, <2>4 DEF Progress, Bound
  <2> QED BY <2>1, <2>2, <2>3, <2>5, ReadsReading
<1>3. CASE kv[<<i.env, p[2]>>] # Missing
  <2>1. PICK d : d = [i EXCEPT !.todo = t, !.at = p, !.pc = "get"] /\ Reads(r, d)
    <3>1. PICK left : left = [i EXCEPT !.todo = t] /\ Reads(r, [left EXCEPT !.at = p, !.pc = "get"])
      BY <1>1, <1>3 DEF FindKey
    <3>2. [left EXCEPT !.at = p, !.pc = "get"] = [i EXCEPT !.todo = t, !.at = p, !.pc = "get"]
      BY <3>1
    <3> QED BY <3>1, <3>2
  <2>2. /\ IsRead(d) /\ d.pc = "get" /\ d.env = i.env /\ d.asked = i.asked /\ d.todo = t
        /\ d.at = p /\ d.got = i.got /\ d.floor = i.floor
    BY <1>1, <2>1 DEF IsRead
  <2>3. Behind(d)
    BY <1>1, <2>2 DEF Behind, Bound
  <2>4. Progress(d)
    BY <1>1, <2>2 DEF Progress, Bound
  <2> QED BY <2>1, <2>2, <2>3, <2>4, ReadsReading
<1> QED BY <1>2, <1>3

LEMMA GetReading ==
  ASSUME Reading, NEW r \in Readers, GetKey(r) PROVE Reading'
<1>1. PICK i, p, val : /\ i = read[r] /\ IsRead(i) /\ Behind(i) /\ Progress(i) /\ i.pc = "get"
                       /\ p = i.at /\ val = kv[<<i.env, p[2]>>]
  BY DEF Reading, GetKey
<1>2. CASE val = Missing
  <2>1. PICK d : d = [i EXCEPT !.pc = "keys", !.at = None] /\ Reads(r, d)
    BY <1>1, <1>2 DEF GetKey
  <2>2. /\ IsRead(d) /\ d.pc = "keys" /\ d.env = i.env /\ d.asked = i.asked /\ d.todo = i.todo
        /\ d.got = i.got /\ d.floor = i.floor
    BY <1>1, <2>1 DEF IsRead
  <2>3. Behind(d)
    BY <1>1, <2>2 DEF Behind, Bound
  <2>4. Bound(i) => p[2] \notin Content[i.floor]
    BY <1>1, <1>2 DEF Behind, Covers
  <2>5. Progress(d)
    BY <1>1, <2>2, <2>4 DEF Progress, Bound
  <2> QED BY <2>1, <2>2, <2>3, <2>5, ReadsReading
<1>3. CASE val # Missing
  <2>1. PICK d, g, t : /\ d = [i EXCEPT !.pc = "keys", !.at = None, !.got = g, !.todo = t]
                       /\ Reads(r, d)
                       /\ g = i.got \cup {<<p[1], p[2], val>>} /\ i.todo \subseteq t
    <3>1. PICK back : back = [i EXCEPT !.pc = "keys", !.at = None]
      OBVIOUS
    <3>2. IsRead(back) /\ back.got = i.got /\ back.todo = i.todo
      BY <1>1, <3>1 DEF IsRead
    <3>3. Reads(r, [back EXCEPT
                      !.got = @ \cup {<<p[1], p[2], val>>},
                      !.todo = IF p[2] \in Groups THEN @ \cup ({p[1]} \X Refs[p[2]]) ELSE @])
      BY <1>1, <1>3, <3>1, Zenon DEF GetKey
    <3>4. PICK g, t :
            /\ Reads(r, [back EXCEPT !.got = g, !.todo = t])
            /\ g = back.got \cup {<<p[1], p[2], val>>}
            /\ t = IF p[2] \in Groups THEN back.todo \cup ({p[1]} \X Refs[p[2]]) ELSE back.todo
      BY <3>3, Zenon
    <3>5. [back EXCEPT !.got = g, !.todo = t]
            = [i EXCEPT !.pc = "keys", !.at = None, !.got = g, !.todo = t]
      BY <3>1
    <3>6. PICK d : d = [back EXCEPT !.got = g, !.todo = t] /\ Reads(r, d)
      BY <3>4
    <3>7. d = [i EXCEPT !.pc = "keys", !.at = None, !.got = g, !.todo = t]
      BY <3>5, <3>6
    <3>8. g = i.got \cup {<<p[1], p[2], val>>} /\ i.todo \subseteq t
      BY <3>2, <3>4
    <3> QED BY <3>6, <3>7, <3>8
  <2>2. /\ IsRead(d) /\ d.pc = "keys" /\ d.env = i.env /\ d.asked = i.asked /\ d.todo = t
        /\ d.got = g /\ d.floor = i.floor
    BY <1>1, <2>1 DEF IsRead
  <2>3. Behind(d)
    BY <1>1, <2>2 DEF Behind, Bound
  <2>4. Bound(i) /\ p[2] \in Content[i.floor] => val[2] >= i.floor
    BY <1>1 DEF Behind, Covers
  <2>5. Progress(d)
    <3> SUFFICES ASSUME Bound(d), NEW n \in Content[d.floor] \cap (d.asked[1] \cup d.asked[2])
                 PROVE  (\E q \in d.todo : q[2] = n) \/ \E a \in d.got : a[2] = n /\ a[3][2] >= d.floor
      BY <2>2 DEF Progress
    <3>1. CASE p[2] = n
      <4>1. <<p[1], p[2], val>> \in d.got /\ val[2] >= d.floor
        BY <2>1, <2>2, <2>4, <3>1 DEF Bound
      <4> QED BY <3>1, <4>1
    <3>2. CASE p[2] # n
      BY <1>1, <2>1, <2>2, <3>2 DEF Progress, Bound
    <3> QED BY <3>1, <3>2
  <2> QED BY <2>1, <2>2, <2>3, <2>5, ReadsReading
<1> QED BY <1>2, <1>3

LEMMA FailReading ==
  ASSUME Reading, NEW r \in Readers, ReadFails(r) PROVE Reading'
BY DEF Reading, ReadFails, Reads, NoRead, IsRead, redis, poller, Behind

-----------------------------------------------------------------------------
(* The cloners. *)
LEMMA GoesCopying ==
  ASSUME Copying, NEW c \in Cloners, NEW place, NEW j, Goes(c, place, j), IsClone(j),
         place \in {"ok", "error"} \/ j.dst \in Targets
  PROVE  Copying'
<1>1. PICK i : i = [j EXCEPT !.pc = place] /\ clone' = [clone EXCEPT ![c] = i]
  BY DEF Goes
<1>2. IsClone(i) /\ i.pc = place /\ i.dst = j.dst
  BY <1>1 DEF IsClone
<1> QED BY <1>1, <1>2 DEF Copying

LEMMA NoCloneIsClone == IsClone(NoClone)
BY DEF IsClone, NoClone

LEMMA AnswersCopying ==
  ASSUME Copying, NEW c \in Cloners, NEW answer \in {"ok", "error"}, Answers(c, answer)
  PROVE  Copying'
<1>1. PICK i, n : /\ n = NoClone /\ i = [n EXCEPT !.pc = answer]
                  /\ clone' = [clone EXCEPT ![c] = i]
  BY DEF Answers
<1>2. i.pc = answer
  BY <1>1, NoCloneIsClone DEF IsClone
<1> QED BY <1>1, <1>2 DEF Copying

LEMMA BeginCopying ==
  ASSUME Copying, NEW c \in Cloners, NEW e \in Envs, NEW n \in Targets, NEW G \in Overrides,
         BeginClone(c, e, n, G)
  PROVE  Copying'
<1>1. PICK i : i = NoClone /\ IsClone(i)
  BY NoCloneIsClone
<1>2. PICK j : j = [i EXCEPT !.src = e, !.dst = n, !.globs = G, !.look = G]
  OBVIOUS
<1>3. IsClone(j) /\ j.dst = n
  BY <1>1, <1>2 DEF IsClone
<1>4. Goes(c, "lock", j) \/ Goes(c, "error", i)
  BY <1>1, <1>2, Zenon DEF BeginClone
<1> QED BY <1>1, <1>3, <1>4, GoesCopying

LEMMA LockCopying == ASSUME Copying, NEW c \in Cloners, LockMux(c) PROVE Copying'
<1>1. PICK i, j : /\ i = clone[c] /\ IsClone(i) /\ i.dst \in Targets
                  /\ j = [i EXCEPT !.pc = "script"] /\ clone' = [clone EXCEPT ![c] = j]
  BY DEF LockMux, Copying
<1>2. IsClone(j) /\ j.dst = i.dst
  BY <1>1 DEF IsClone
<1> QED BY <1>1, <1>2 DEF Copying

(* The step of a clone under way keeps its target. *)
LEMMA CloneCopying ==
  ASSUME Copying, NEW c \in Cloners,
         \/ \E place, db : Goes(c, place, [clone[c] EXCEPT !.base = db])
         \/ \E place, l, q : Goes(c, place, [clone[c] EXCEPT !.look = l, !.puts = q])
         \/ \E place, q : Goes(c, place, [clone[c] EXCEPT !.puts = q])
         \/ \E place, h : Goes(c, place, [clone[c] EXCEPT !.held = h])
         \/ \E place : Goes(c, place, clone[c]),
         clone[c].pc \notin {"idle", "ok", "error"}
  PROVE  Copying'
<1>1. PICK i : i = clone[c] /\ IsClone(i) /\ i.dst \in Targets
  BY DEF Copying
<1>2. ASSUME NEW db, NEW l, NEW q, NEW h, NEW j,
             \/ j = [i EXCEPT !.base = db]
             \/ j = [i EXCEPT !.look = l, !.puts = q]
             \/ j = [i EXCEPT !.puts = q]
             \/ j = [i EXCEPT !.held = h]
      PROVE  IsClone(j) /\ j.dst \in Targets
  BY <1>1, <1>2 DEF IsClone
<1>3. PICK place, j : Goes(c, place, j) /\ IsClone(j) /\ j.dst \in Targets
  BY <1>1, <1>2
<1> QED BY <1>3, GoesCopying

-----------------------------------------------------------------------------
LEMMA InvInit == Init => Inv
<1> SUFFICES ASSUME Init PROVE Inv
  OBVIOUS
<1>1. Storing /\ LatestStored
  BY DEF Init, Storing, LatestStored
<1>2. Copying
  BY NoCloneIsClone DEF Init, Copying, NoClone
<1>3. Reading
  BY DEF Init, Reading, NoRead, IsRead
<1> QED BY <1>1, <1>2, <1>3 DEF Inv

(* A write that reads learn of, with the poller where it was. *)
LEMMA WriteInv ==
  ASSUME Inv, Writes(kv'), Kept(kv'), UNCHANGED <<upc, uenv, uver, floor>>, Copying'
  PROVE  Inv'
<1>1. Storing'
  BY DEF Inv, Storing, Kept
<1>2. Reading'
  BY WriteReading, VersionsAreNumbers DEF Inv, Writes, Storing
<1> QED BY <1>1, <1>2, LatestKept DEF Inv

(* The end of the process, after a write. *)
LEMMA ExitInv == ASSUME Inv, Exit, Kept(kv') PROVE Inv'
<1>1. Storing'
  BY DEF Inv, Storing, Exit, Kept
<1>2. Copying'
  BY DEF Exit, Copying, NoClone
<1>3. Reading'
  BY DEF Exit, Reading, NoRead, IsRead
<1> QED BY <1>1, <1>2, <1>3, LatestKept DEF Inv, Exit

(* A step that changes no configuration. *)
LEMMA QuietInv ==
  ASSUME Inv, UNCHANGED <<kv, upc, uenv, uver, floor, read>>, Copying' PROVE Inv'
BY DEF Inv, Storing, LatestStored, Reading, Behind

LEMMA ReaderInv ==
  ASSUME Inv, Reading', UNCHANGED <<redis, poller, cloner>> PROVE Inv'
BY DEF Inv, redis, poller, cloner, Storing, LatestStored, Copying

LEMMA UpsertInv == ASSUME Inv, Upsert PROVE Inv'
<1>1. Copying'
  BY DEF Upsert, SetLock, DeleteConfig, StoreConfig, DeleteLock, cloner, Inv, Copying
<1>2. ASSUME NEW e \in Reserved, NEW v \in Versions, SetLock(e, v) PROVE Inv'
  <2>1. Storing'
    BY <1>2 DEF SetLock, Inv, Storing
  <2> QED BY <1>1, <1>2, <2>1 DEF SetLock, Inv, LatestStored, Reading, Behind
<1>3. CASE DeleteConfig
  <2>1. Kept(kv')
    BY <1>3, SameKept, DeletionKept, RedisAssumption, NamesAssumption DEF DeleteConfig, Inv
  <2>2. Reading'
    BY <1>3, <2>1, WriteReading, VersionsAreNumbers DEF DeleteConfig, Inv, Storing
  <2>3. Storing'
    BY <1>3, <2>1 DEF DeleteConfig, Inv, Storing, Kept
  <2> QED BY <1>1, <1>3, <2>1, <2>2, <2>3, LatestKept DEF DeleteConfig, Inv
<1>4. CASE StoreConfig
  <2>1. Kept(kv') /\ read' = Touched(kv')
    BY <1>4, SameKept, VersionKept DEF StoreConfig, Inv
  <2>2. uver \in Versions /\ uver >= floor[uenv] /\ uenv \in Reserved
    BY <1>4 DEF StoreConfig, Inv, Storing
  <2>3. \A e \in Reserved : floor[e] \in Versions \cup {0} /\ floor[e] \in Nat
    BY VersionsAreNumbers DEF Inv, Storing
  <2>4. /\ floor' \in [Reserved -> Versions \cup {0}]
        /\ \A e \in Reserved : floor'[e] \in Versions \cup {0} /\ floor'[e] >= floor[e]
    BY <1>4, <2>2, <2>3 DEF StoreConfig, Inv, Storing
  <2>5. Reading'
    BY <2>1, <2>4, WriteReading DEF Inv
  <2>6. Storing'
    BY <1>4, <2>1, <2>4 DEF StoreConfig, Inv, Storing, Kept
  <2>7. LatestStored'
    <3>1. CASE UNCHANGED floor
      BY <2>1, <3>1, LatestKept DEF Inv
    <3>2. CASE kv' = PutVersion(kv, uenv, uver) /\ floor' = [floor EXCEPT ![uenv] = uver]
      <4> SUFFICES ASSUME NEW e \in Reserved, floor'[e] > 0, NEW n \in Content[floor'[e]]
                   PROVE  /\ kv'[<<e, n>>] # Missing /\ kv'[<<e, n>>][1] = e
                          /\ kv'[<<e, n>>][2] >= floor'[e]
        BY DEF LatestStored
      <4>1. CASE e = uenv
        <5>1. floor'[e] = uver /\ n \in Names /\ <<e, n>> \in Keys
          BY <2>2, <3>2, <4>1, NamesAssumption DEF Inv, Storing, Keys
        <5>2. kv'[<<e, n>>] = <<e, uver>>
          BY <3>2, <4>1, <5>1 DEF PutVersion
        <5>3. <<e, uver>> # Missing /\ uver \in Nat
          BY <2>2, MissingAssumption, NamesAssumption, VersionsAreNumbers DEF Values
        <5> QED BY <5>1, <5>2, <5>3
      <4>2. CASE e # uenv
        <5>1. floor'[e] = floor[e] /\ floor[e] \in Versions
          BY <2>3, <3>2, <4>2 DEF Inv, Storing
        <5>2. Covers(kv, e, floor[e])
          BY <5>1, <2>3 DEF Inv, LatestStored, Covers
        <5>3. Covers(kv', e, floor[e])
          BY <2>1, <2>3, <5>1, <5>2, KeptCovers DEF Inv
        <5> QED BY <5>1, <5>3 DEF Covers
      <4> QED BY <4>1, <4>2
    <3> QED BY <1>4, <3>1, <3>2 DEF StoreConfig
  <2> QED BY <1>1, <2>5, <2>6, <2>7 DEF Inv
<1>5. CASE DeleteLock
  BY <1>1, <1>5, QuietInv, Zenon DEF DeleteLock, Inv, Storing, LatestStored, Reading, Behind
<1> QED BY <1>2, <1>3, <1>4, <1>5 DEF Upsert

LEMMA ClonerInv ==
  ASSUME Apart, Inv, NEW c \in Cloners,
         \/ RunScript(c) \/ FindGlobal(c) \/ PutGlobal(c) \/ GlobalsFail(c)
         \/ CopySecrets(c) \/ AddEnv(c)
  PROVE  Inv'
<1> DEFINE n == clone[c].dst
<1>1. clone[c].pc \notin {"idle", "ok", "error"}
  BY DEF RunScript, FindGlobal, PutGlobal, GlobalsFail, CopySecrets, AddEnv
<1>2. n \in Targets /\ n \notin Reserved /\ Storing /\ Copying /\ Kept(kv)
  BY <1>1, SameKept DEF Inv, Copying, Apart
<1>3. \A a, b : a \in {n, Repo} => Kept(PatternDelete(kv, a, b))
  BY <1>2, DeletionKept, RedisAssumption, NamesAssumption
<1>4. CASE RunScript(c)
  <2> DEFINE new == Copied(kv, clone[c].src, n)
  <2>1. Kept(new)
    BY <1>2, CopyKept
  <2> HIDE DEF new
  <2>2. \/ /\ Writes(new) /\ UNCHANGED poller
           /\ \E place, db : Goes(c, place, [clone[c] EXCEPT !.base = db])
        \/ /\ \E some \in SUBSET Names :
                LET part == Stopped(kv, clone[c].src, n, some) IN
                kv' \in {part, PatternDelete(part, n, Star)}
           /\ Exit
    BY <1>4, Zenon DEF RunScript, new
  <2>3. CASE Writes(new) /\ UNCHANGED poller
             /\ \E place, db : Goes(c, place, [clone[c] EXCEPT !.base = db])
    <3>1. Copying'
      BY <1>1, <1>2, <2>3, CloneCopying
    <3> QED BY <2>1, <2>3, <3>1, WriteInv DEF Writes, poller
  <2>4. CASE Exit /\ \E some \in SUBSET Names :
                       LET part == Stopped(kv, clone[c].src, n, some) IN
                       kv' \in {part, PatternDelete(part, n, Star)}
    <3>1. PICK part : Kept(part) /\ kv' \in {part, PatternDelete(part, n, Star)}
      BY <1>2, <2>4, StoppedKept
    <3>2. Kept(kv')
      BY <1>2, <3>1, DeletionKept
    <3> QED BY <1>2, <2>4, <3>2, ExitInv
  <2> QED BY <2>2, <2>3, <2>4
<1>5. CASE FindGlobal(c)
  <2>1. \/ \E place : Goes(c, place, clone[c])
        \/ \E place, l, q : Goes(c, place, [clone[c] EXCEPT !.look = l, !.puts = q])
    BY <1>5, Zenon DEF FindGlobal
  <2>2. Copying'
    BY <1>1, <1>2, <2>1, CloneCopying
  <2> QED BY <1>5, <2>2, QuietInv DEF FindGlobal, redis, poller
<1>6. CASE PutGlobal(c)
  <2>1. /\ \/ \E place : Goes(c, place, clone[c])
           \/ \E place, q : Goes(c, place, [clone[c] EXCEPT !.puts = q])
        /\ Writes(kv) \/ \E g : Writes([kv EXCEPT ![<<n, g>>] = Override])
        /\ UNCHANGED poller
    BY <1>6, Zenon DEF PutGlobal
  <2>2. Copying'
    BY <1>1, <1>2, <2>1, CloneCopying
  <2>3. Writes(kv') /\ Kept(kv')
    <3>1. CASE Writes(kv)
      BY <1>2, <3>1 DEF Writes
    <3>2. ASSUME NEW g, Writes([kv EXCEPT ![<<n, g>>] = Override]) PROVE Writes(kv') /\ Kept(kv')
      <4>1. Kept([kv EXCEPT ![<<n, g>>] = Override])
        BY <1>2, GlobalKept
      <4> QED BY <3>2, <4>1 DEF Writes
    <3> QED BY <2>1, <3>1, <3>2
  <2> QED BY <2>1, <2>2, <2>3, WriteInv DEF poller
<1>7. CASE GlobalsFail(c)
  <2>1. /\ Writes(kv) \/ Writes(PatternDelete(kv, n, Star))
        /\ Answers(c, "error") /\ UNCHANGED poller
    BY <1>7 DEF GlobalsFail, Cleanup
  <2>2. Writes(kv') /\ Kept(kv') /\ Copying'
    BY <1>2, <1>3, <2>1, AnswersCopying DEF Writes
  <2> QED BY <2>1, <2>2, WriteInv DEF poller
<1>8. CASE CopySecrets(c)
  <2>1. \/ /\ \E place, h : Goes(c, place, [clone[c] EXCEPT !.held = h])
           /\ UNCHANGED <<kv, poller, read>>
        \/ Exit /\ UNCHANGED kv
    BY <1>8, Zenon DEF CopySecrets
  <2>2. CASE (\E place, h : Goes(c, place, [clone[c] EXCEPT !.held = h]))
             /\ UNCHANGED <<kv, poller, read>>
    <3>1. Copying'
      BY <1>1, <1>2, <2>2, CloneCopying
    <3> QED BY <2>2, <3>1, QuietInv DEF poller
  <2>3. CASE Exit /\ UNCHANGED kv
    BY <1>2, <2>3, ExitInv
  <2> QED BY <2>1, <2>2, <2>3
<1>9. CASE AddEnv(c)
  <2>1. /\ Writes(kv) \/ Writes(PatternDelete(kv, Repo, n))
        /\ Answers(c, "ok") \/ Answers(c, "error")
        /\ UNCHANGED poller
    BY <1>9 DEF AddEnv
  <2>2. Writes(kv') /\ Kept(kv') /\ Copying'
    BY <1>2, <1>3, <2>1, AnswersCopying DEF Writes
  <2> QED BY <2>1, <2>2, WriteInv DEF poller
<1> QED BY <1>4, <1>5, <1>6, <1>7, <1>8, <1>9

LEMMA DeleterInv ==
  ASSUME Inv, NEW d \in Deleters,
         (\E e \in Envs : BeginDelete(d, e)) \/ DeleteKeys(d) \/ DeleteEnv(d)
  PROVE  Inv'
<1>1. Copying'
  BY DEF BeginDelete, DeleteKeys, DeleteEnv, cloner, Inv, Copying
<1>2. CASE DeleteKeys(d)
  <2>1. Kept(kv) /\ Kept(PatternDelete(kv, Repo, denv[d]))
    BY SameKept, DeletionKept, RedisAssumption, NamesAssumption DEF Inv
  <2>2. (Writes(kv) \/ Writes(PatternDelete(kv, Repo, denv[d]))) /\ UNCHANGED poller
    BY <1>2 DEF DeleteKeys
  <2>3. Writes(kv') /\ Kept(kv')
    BY <2>1, <2>2 DEF Writes
  <2> QED BY <1>1, <2>2, <2>3, WriteInv DEF poller
<1>3. CASE (\E e \in Envs : BeginDelete(d, e)) \/ DeleteEnv(d)
  BY <1>1, <1>3, QuietInv DEF BeginDelete, DeleteEnv, redis, poller
<1> QED BY <1>2, <1>3

LEMMA InvStep == ASSUME Apart, Inv, [Next]_vars PROVE Inv'
<1>1. UNCHANGED clone => Copying'
  BY DEF Inv, Copying
<1>2. ASSUME NEW e \in Envs, LockExpires(e) \/ \E s \in Secrets : UpsertSecrets(e, s) PROVE Inv'
  BY <1>1, <1>2, QuietInv DEF LockExpires, UpsertSecrets, poller, cloner
<1>3. ASSUME NEW r \in Readers,
             \/ \E e \in Envs, req \in Requests : BeginRead(r, e, req)
             \/ CheckLock(r) \/ GetKey(r) \/ AnswerRead(r) \/ ReadFails(r)
             \/ \E p \in read[r].todo : FindKey(r, p)
      PROVE  Inv'
  <2>1. Reading /\ Reading'
    BY <1>3, BeginReading, CheckReading, GetReading, FailReading, FindReading DEF Inv
  <2>2. UNCHANGED <<redis, poller, cloner>>
    BY <1>3 DEF BeginRead, CheckLock, GetKey, AnswerRead, ReadFails, FindKey, Reads
  <2> QED BY <2>1, <2>2, ReaderInv
<1>4. ASSUME NEW c \in Cloners,
             (\E e \in Envs, n \in Targets, G \in Overrides : BeginClone(c, e, n, G)) \/ LockMux(c)
      PROVE  Inv'
  <2>1. Copying'
    BY <1>4, BeginCopying, LockCopying DEF Inv
  <2> QED BY <1>4, <2>1, QuietInv DEF BeginClone, LockMux, redis, poller
<1>5. CASE Crash
  BY <1>5, ExitInv, SameKept DEF Crash, Inv
<1>6. CASE UNCHANGED vars
  BY <1>1, <1>6, QuietInv DEF vars, redis, poller, cloner
<1> QED
  BY <1>2, <1>3, <1>4, <1>5, <1>6, UpsertInv, ClonerInv, DeleterInv DEF Next

THEOREM Invariance == ASSUME Apart PROVE Spec => []Inv
BY InvInit, InvStep, PTL DEF Spec

(* What an upsert has stored stays, whatever upserts, clones, deletions,   *)
(* failures and crashes follow, as long as clones get names of their own.  *)
THEOREM AlwaysStored == ASSUME Apart PROVE Spec => []LatestStored
BY Invariance, PTL DEF Inv

(* A read that is answered has every name that was configured when it      *)
(* began, at a version that is not older, whatever it overlaps.            *)
THEOREM NothingMissed == ASSUME Apart PROVE Spec => []ReadMissesNothing
<1>1. Inv => ReadMissesNothing
  BY DEF Inv, Reading, Progress, Bound, ReadMissesNothing
<1> QED BY <1>1, Invariance, PTL

-----------------------------------------------------------------------------
(* Clones as snapshots. *)

Resting == {"idle", "ok", "error"}
Scripted == {"keys", "puts", "secrets", "env"}   \* the script has run

(* No name of the repository's environments is a Lua pattern that does not
   match itself.                                                           *)
Plain == Magic \cap Reserved = {}

(* A clone under way: where the script has run, the original still has each
   key it had then, and the copy has its value or, if the request sets it,
   the request's, unless that is still to look up or to set.               *)
Snap(j, db, held) ==
  /\ IsClone(j) /\ j.src \in Reserved /\ j.dst \in Targets
  /\ j.globs \subseteq Globals /\ j.look \subseteq j.globs /\ j.puts \subseteq j.globs
  /\ j.pc \in {"lock", "script"} => j.look = j.globs
  /\ j.pc \in {"puts", "secrets", "env"} => j.look = {}
  /\ j.pc \in {"secrets", "env"} => j.puts = {}
  /\ j.pc \in Scripted => \A n \in Names : j.base[<<j.src, n>>] # Missing =>
       /\ db[<<j.src, n>>] # Missing
       /\ IF n \in j.globs THEN n \in j.look \cup j.puts \/ db[<<j.dst, n>>] = Override
          ELSE db[<<j.dst, n>>] = j.base[<<j.src, n>>]
  /\ j.pc = "env" => j.held \subseteq held[j.dst]

SInv ==
  /\ DOMAIN secrets = Envs /\ faults \in Nat
  /\ DOMAIN clone = Cloners /\ mux \in Cloners \cup {None}
  /\ \A c \in Cloners : (mux = c) = (clone[c].pc \notin Resting \cup {"lock"})
  /\ \A c \in Cloners : clone[c].pc \notin Resting => Snap(clone[c], kv, secrets)

(* What other requests and the poller may write beside a clone. *)
Beside(db, held) ==
  /\ Kept(db)
  /\ \A k \in Keys : k[1] \notin Reserved => db[k] = kv[k]
  /\ \A e \in Envs : secrets[e] \subseteq held[e]

LEMMA SnapBeside ==
  ASSUME Apart, NEW j, Snap(j, kv, secrets), NEW db, NEW held, Beside(db, held)
  PROVE  Snap(j, db, held)
<1>1. j.src \in Reserved /\ j.dst \in Envs /\ j.dst \notin Reserved
  BY RedisAssumption DEF Snap, Apart
<1>2. \A n \in Names : <<j.src, n>> \in Keys /\ <<j.dst, n>> \in Keys
  BY <1>1, NamesAssumption DEF Keys
<1>3. ASSUME NEW n \in Names, kv[<<j.src, n>>] # Missing PROVE db[<<j.src, n>>] # Missing
  <2>1. CASE db[<<j.src, n>>] = kv[<<j.src, n>>]
    BY <1>3, <2>1
  <2>2. ASSUME NEW v \in Versions, db[<<j.src, n>>] = <<j.src, v>> PROVE db[<<j.src, n>>] # Missing
    BY <1>1, <2>2, MissingAssumption, NamesAssumption DEF Values
  <2> QED BY <1>1, <1>2, <2>1, <2>2 DEF Beside, Kept
<1>4. \A n \in Names : db[<<j.dst, n>>] = kv[<<j.dst, n>>]
  BY <1>1, <1>2 DEF Beside
<1> QED BY <1>1, <1>3, <1>4 DEF Snap, Beside

(* What becomes of a clone that is answered in this step. *)
Outcome(c) ==
  /\ clone[c].pc # "ok" /\ clone'[c].pc = "ok" =>
       clone[c].pc = "env" /\ kv' = kv /\ secrets' = secrets
  /\ clone[c].pc \in {"keys", "puts"} /\ clone'[c].pc = "error" =>
       \/ kv' = PatternDelete(kv, clone[c].dst, Star)
       \/ faults' # faults + 1

Outcomes == \A c \in Cloners : Outcome(c)

(* A step beside the clones. *)
LEMMA BesideSInv ==
  ASSUME Apart, SInv, Beside(kv', secrets'), UNCHANGED cloner, DOMAIN secrets' = Envs, faults' \in Nat
  PROVE  SInv' /\ Outcomes
<1>1. \A c \in Cloners : clone[c].pc \notin Resting => Snap(clone[c], kv', secrets')
  BY SnapBeside DEF SInv
<1> QED BY <1>1 DEF SInv, cloner, Outcomes, Outcome

(* A step of clone c that writes nothing outside it. *)
LEMMA GoesSInv ==
  ASSUME SInv, NEW c \in Cloners, NEW i, clone' = [clone EXCEPT ![c] = i],
         DOMAIN secrets' = Envs, faults' \in Nat, mux' \in Cloners \cup {None},
         \A d \in Cloners \ {c} : clone[d].pc \notin Resting => Snap(clone[d], kv', secrets'),
         i.pc \notin Resting => Snap(i, kv', secrets'),
         \/ mux' = mux /\ (i.pc \notin Resting \cup {"lock"}) = (mux = c)
         \/ mux' = None /\ mux = c /\ i.pc \in Resting
         \/ mux' = c /\ mux = None /\ i.pc \notin Resting \cup {"lock"}
  PROVE  SInv'
BY RedisAssumption DEF SInv

LEMMA OutcomeOf ==
  ASSUME SInv, NEW c \in Cloners, NEW i, clone' = [clone EXCEPT ![c] = i],
         i.pc = "ok" => clone[c].pc = "ok" \/ (clone[c].pc = "env" /\ kv' = kv /\ secrets' = secrets),
         i.pc = "error" => clone[c].pc \notin {"keys", "puts"}
                           \/ kv' = PatternDelete(kv, clone[c].dst, Star) \/ faults' # faults + 1
  PROVE  Outcomes
BY DEF SInv, Outcomes, Outcome

(* The clones but c wait or rest while c works, or nothing is written. *)
LEMMA OthersRest ==
  ASSUME SInv, NEW c \in Cloners, clone[c].pc \notin Resting \cup {"lock"},
         NEW d \in Cloners \ {c}, clone[d].pc \notin Resting, NEW db, NEW held
  PROVE  Snap(clone[d], db, held)
<1>1. mux = c /\ clone[d].pc = "lock" /\ Snap(clone[d], kv, secrets)
  BY DEF SInv
<1> QED BY <1>1 DEF Snap, Scripted

(* Clone c goes on as i. *)
LEMMA WorksSInv ==
  ASSUME SInv, NEW c \in Cloners, clone[c].pc \notin Resting \cup {"lock"},
         NEW i, clone' = [clone EXCEPT ![c] = i], UNCHANGED mux, faults' \in Nat,
         DOMAIN secrets' = Envs, i.pc \in Scripted, Snap(i, kv', secrets')
  PROVE  SInv' /\ Outcomes
<1>1. mux = c /\ mux \in Cloners \cup {None}
  BY DEF SInv
<1>2. i.pc \notin Resting \cup {"lock"} /\ i.pc # "ok" /\ i.pc # "error"
  BY DEF Scripted, Resting
<1>3. SInv'
  BY <1>1, <1>2, OthersRest, GoesSInv
<1> QED BY <1>2, <1>3, OutcomeOf

LEMMA GoesTo ==
  ASSUME NEW c, NEW place, NEW j, Goes(c, place, j), IsClone(j)
  PROVE  \E i : /\ clone' = [clone EXCEPT ![c] = i] /\ mux' = mux
               /\ IsClone(i) /\ i.pc = place /\ i.src = j.src /\ i.dst = j.dst
               /\ i.globs = j.globs /\ i.look = j.look /\ i.puts = j.puts
               /\ i.base = j.base /\ i.held = j.held
<1>1. PICK i : i = [j EXCEPT !.pc = place] /\ clone' = [clone EXCEPT ![c] = i] /\ mux' = mux
  BY DEF Goes
<1>2. /\ IsClone(i) /\ i.pc = place /\ i.src = j.src /\ i.dst = j.dst
      /\ i.globs = j.globs /\ i.look = j.look /\ i.puts = j.puts
      /\ i.base = j.base /\ i.held = j.held
  BY <1>1 DEF IsClone
<1> QED BY <1>1, <1>2

(* Clone c is answered. *)
LEMMA AnswersSInv ==
  ASSUME SInv, NEW c \in Cloners, clone[c].pc \notin Resting \cup {"lock"},
         NEW answer \in {"ok", "error"}, Answers(c, answer), faults' \in Nat,
         DOMAIN secrets' = Envs,
         answer = "ok" => clone[c].pc = "env" /\ kv' = kv /\ secrets' = secrets,
         answer = "error" => clone[c].pc \notin {"keys", "puts"}
                             \/ kv' = PatternDelete(kv, clone[c].dst, Star) \/ faults' # faults + 1
  PROVE  SInv' /\ Outcomes
<1>1. PICK i, n : /\ n = NoClone /\ i = [n EXCEPT !.pc = answer]
                  /\ clone' = [clone EXCEPT ![c] = i] /\ mux' = None
  BY DEF Answers
<1>2. i.pc = answer
  BY <1>1, NoCloneIsClone DEF IsClone
<1>3. mux = c
  BY DEF SInv
<1>4. SInv'
  BY <1>1, <1>2, <1>3, OthersRest, GoesSInv DEF Resting
<1> QED BY <1>1, <1>2, <1>4, OutcomeOf

(* The process ends: no clone is left. *)
LEMMA ExitSInv ==
  ASSUME SInv, Exit, faults' \in Nat, DOMAIN secrets' = Envs PROVE SInv' /\ Outcomes
BY RedisAssumption DEF Exit, SInv, NoClone, Resting, Outcomes, Outcome

LEMMA BeginSInv ==
  ASSUME SInv, NEW c \in Cloners, NEW e \in Envs, NEW n \in Targets, NEW G \in Overrides,
         BeginClone(c, e, n, G)
  PROVE  SInv' /\ Outcomes
<1>1. /\ clone[c].pc \in Resting /\ clone[c].pc \notin {"keys", "puts"}
      /\ UNCHANGED <<kv, secrets, faults, mux>> /\ mux # c
  BY DEF BeginClone, Resting, redis, Goes, SInv
<1>2. PICK n0 : n0 = NoClone /\ IsClone(n0) /\ n0.puts = {}
  <2>1. IsClone(NoClone) /\ NoClone.puts = {}
    BY NoCloneIsClone DEF NoClone
  <2> QED BY <2>1
<1>3. PICK j : j = [n0 EXCEPT !.src = e, !.dst = n, !.globs = G, !.look = G]
  OBVIOUS
<1>4. /\ IsClone(j) /\ j.src = e /\ j.dst = n /\ j.globs = G /\ j.look = G /\ j.puts = {}
  BY <1>2, <1>3 DEF IsClone
<1>5. (e \in Reserved /\ Goes(c, "lock", j)) \/ Goes(c, "error", n0)
  BY <1>2, <1>3, Zenon DEF BeginClone
<1>6. \A d \in Cloners \ {c} : clone[d].pc \notin Resting => Snap(clone[d], kv', secrets')
  BY <1>1 DEF SInv
<1>7. CASE e \in Reserved /\ Goes(c, "lock", j)
  <2>1. PICK i : /\ clone' = [clone EXCEPT ![c] = i] /\ IsClone(i) /\ i.pc = "lock"
                 /\ i.src = e /\ i.dst = n /\ i.globs = G /\ i.look = G /\ i.puts = {}
    BY <1>4, <1>7, GoesTo
  <2>2. Snap(i, kv', secrets')
    BY <1>7, <2>1, RedisAssumption DEF Snap, Scripted
  <2>3. SInv'
    BY <1>1, <1>6, <2>1, <2>2, GoesSInv DEF SInv, Resting
  <2> QED BY <2>1, <2>3, OutcomeOf
<1>8. CASE Goes(c, "error", n0)
  <2>1. PICK i : clone' = [clone EXCEPT ![c] = i] /\ i.pc = "error"
    BY <1>2, <1>8, GoesTo
  <2>2. SInv'
    BY <1>1, <1>6, <2>1, GoesSInv DEF SInv, Resting
  <2> QED BY <1>1, <2>1, <2>2, OutcomeOf
<1> QED BY <1>5, <1>7, <1>8

LEMMA LockSInv == ASSUME SInv, NEW c \in Cloners, LockMux(c) PROVE SInv' /\ Outcomes
<1>1. PICK i, j : /\ i = clone[c] /\ Snap(i, kv, secrets) /\ i.pc = "lock"
                  /\ j = [i EXCEPT !.pc = "script"] /\ clone' = [clone EXCEPT ![c] = j]
                  /\ mux = None /\ mux' = c /\ UNCHANGED <<kv, secrets, faults>>
  BY DEF LockMux, SInv, Resting, redis
<1>2. /\ IsClone(j) /\ j.pc = "script" /\ j.src = i.src /\ j.dst = i.dst
      /\ j.globs = i.globs /\ j.look = i.look /\ j.puts = i.puts
  BY <1>1 DEF Snap, IsClone
<1>3. Snap(j, kv', secrets')
  BY <1>1, <1>2 DEF Snap, Scripted
<1>4. \A d \in Cloners \ {c} : clone[d].pc \notin Resting => Snap(clone[d], kv', secrets')
  BY <1>1 DEF SInv
<1>5. SInv'
  BY <1>1, <1>2, <1>3, <1>4, GoesSInv DEF SInv, Resting
<1> QED BY <1>1, <1>2, <1>5, OutcomeOf

(* The calls of a clone. *)
LEMMA ScriptSInv ==
  ASSUME Apart, Plain, Storing, SInv, NEW c \in Cloners, RunScript(c) PROVE SInv' /\ Outcomes
<1> DEFINE new == Copied(kv, clone[c].src, clone[c].dst)
<1>1. /\ clone[c].pc = "script" /\ clone[c].pc \notin Resting \cup {"lock"}
      /\ Snap(clone[c], kv, secrets) /\ DOMAIN secrets = Envs /\ faults \in Nat
  BY DEF RunScript, SInv, Resting
<1>2. PICK i : i = clone[c] /\ IsClone(i)
  BY <1>1 DEF Snap
<1>3. \/ \E place \in {"secrets", "keys"} :
           /\ Goes(c, place, [i EXCEPT !.base = kv])
           /\ place = "secrets" => i.globs = {}
           /\ kv' = new /\ UNCHANGED <<secrets, faults>>
      \/ Exit /\ faults' = faults + 1 /\ UNCHANGED secrets
  BY <1>2, Zenon DEF RunScript, Writes, Fail
<1> HIDE DEF new
<1>4. ASSUME NEW place \in {"secrets", "keys"}, Goes(c, place, [i EXCEPT !.base = kv]),
             place = "secrets" => i.globs = {}, kv' = new, UNCHANGED <<secrets, faults>>
      PROVE  SInv' /\ Outcomes
  <2>1. PICK j, b : j = [i EXCEPT !.base = b] /\ b = kv /\ Goes(c, place, j)
    BY <1>4
  <2>2. /\ IsClone(j) /\ j.src = i.src /\ j.dst = i.dst /\ j.globs = i.globs /\ j.look = i.look
        /\ j.puts = i.puts /\ j.base = kv /\ j.held = i.held
    BY <1>2, <2>1 DEF IsClone
  <2>3. PICK k : /\ clone' = [clone EXCEPT ![c] = k] /\ mux' = mux /\ IsClone(k) /\ k.pc = place
                 /\ k.src = i.src /\ k.dst = i.dst /\ k.globs = i.globs /\ k.look = i.look
                 /\ k.puts = i.puts /\ k.base = kv
    <3>1. Goes(c, place, j) /\ IsClone(j)
      BY <2>1, <2>2
    <3>2. PICK k : /\ clone' = [clone EXCEPT ![c] = k] /\ mux' = mux /\ IsClone(k)
                   /\ k.pc = place /\ k.src = j.src /\ k.dst = j.dst /\ k.globs = j.globs
                   /\ k.look = j.look /\ k.puts = j.puts /\ k.base = j.base /\ k.held = j.held
      BY <3>1, GoesTo
    <3> QED BY <2>2, <3>2
  <2>4. i.src \in Reserved /\ i.dst \in Envs /\ i.dst \notin Reserved /\ i.src \notin Magic
    BY <1>1, <1>2, RedisAssumption DEF Snap, Apart, Plain
  <2>5. \A n \in Names : <<i.src, n>> \in Keys /\ <<i.dst, n>> \in Keys
    BY <2>4, NamesAssumption DEF Keys
  <2>6. ASSUME NEW n \in Names, kv[<<i.src, n>>] # Missing
        PROVE  kv'[<<i.src, n>>] # Missing /\ kv'[<<i.dst, n>>] = kv[<<i.src, n>>]
    BY <1>2, <1>4, <2>4, <2>5, <2>6 DEF Copied, new
  <2>7. Snap(k, kv', secrets')
    BY <1>1, <1>2, <1>4, <2>3, <2>6 DEF Snap
  <2> QED BY <1>1, <1>4, <2>3, <2>7, WorksSInv DEF Scripted
<1>5. CASE Exit /\ faults' = faults + 1 /\ UNCHANGED secrets
  BY <1>1, <1>5, ExitSInv
<1> QED BY <1>3, <1>4, <1>5

LEMMA FindSInv ==
  ASSUME Storing, SInv, NEW c \in Cloners, FindGlobal(c) PROVE SInv' /\ Outcomes
<1>1. /\ clone[c].pc = "keys" /\ clone[c].pc \notin Resting \cup {"lock"}
      /\ Snap(clone[c], kv, secrets) /\ DOMAIN secrets = Envs /\ faults \in Nat
      /\ UNCHANGED <<kv, secrets, faults>>
  BY DEF FindGlobal, SInv, Resting, redis
<1>2. PICK i : i = clone[c] /\ IsClone(i)
  BY <1>1 DEF Snap
<1>3. CASE i.look = {}
  <2>1. Goes(c, "puts", i)
    BY <1>2, <1>3 DEF FindGlobal
  <2>2. PICK k : /\ clone' = [clone EXCEPT ![c] = k] /\ mux' = mux /\ IsClone(k) /\ k.pc = "puts"
                 /\ k.src = i.src /\ k.dst = i.dst /\ k.globs = i.globs /\ k.look = i.look
                 /\ k.puts = i.puts /\ k.base = i.base
    BY <1>2, <2>1, GoesTo
  <2>3. Snap(k, kv', secrets')
    BY <1>1, <1>2, <1>3, <2>2 DEF Snap, Scripted
  <2> QED BY <1>1, <2>2, <2>3, WorksSInv DEF Scripted
<1>4. ASSUME NEW n \in i.look,
             Goes(c, "keys", [i EXCEPT !.look = @ \ {n},
                                !.puts = IF kv[<<i.src, n>>] # Missing THEN @ \cup {n} ELSE @])
      PROVE  SInv' /\ Outcomes
  <2>1. PICK j, l, q : /\ j = [i EXCEPT !.look = l, !.puts = q] /\ Goes(c, "keys", j)
                       /\ l = i.look \ {n}
                       /\ q = IF kv[<<i.src, n>>] # Missing THEN i.puts \cup {n} ELSE i.puts
    BY <1>4
  <2>2. /\ IsClone(j) /\ j.src = i.src /\ j.dst = i.dst /\ j.globs = i.globs /\ j.look = l
        /\ j.puts = q /\ j.base = i.base
    BY <1>2, <2>1 DEF IsClone
  <2>3. PICK k : /\ clone' = [clone EXCEPT ![c] = k] /\ mux' = mux /\ IsClone(k) /\ k.pc = "keys"
                 /\ k.src = i.src /\ k.dst = i.dst /\ k.globs = i.globs /\ k.look = l
                 /\ k.puts = q /\ k.base = i.base
    <3>1. Goes(c, "keys", j) /\ IsClone(j)
      BY <2>1, <2>2
    <3>2. PICK k : /\ clone' = [clone EXCEPT ![c] = k] /\ mux' = mux /\ IsClone(k)
                   /\ k.pc = "keys" /\ k.src = j.src /\ k.dst = j.dst /\ k.globs = j.globs
                   /\ k.look = j.look /\ k.puts = j.puts /\ k.base = j.base /\ k.held = j.held
      BY <3>1, GoesTo
    <3> QED BY <2>2, <3>2
  <2>4. Snap(k, kv', secrets')
    BY <1>1, <1>2, <2>1, <2>3 DEF Snap, Scripted
  <2> QED BY <1>1, <2>3, <2>4, WorksSInv DEF Scripted
<1>5. \/ i.look = {}
      \/ \E n \in i.look : Goes(c, "keys", [i EXCEPT !.look = @ \ {n},
                                !.puts = IF kv[<<i.src, n>>] # Missing THEN @ \cup {n} ELSE @])
  BY <1>2, Zenon DEF FindGlobal
<1> QED BY <1>3, <1>4, <1>5

LEMMA PutSInv ==
  ASSUME Apart, Storing, SInv, NEW c \in Cloners, PutGlobal(c) PROVE SInv' /\ Outcomes
<1>1. /\ clone[c].pc = "puts" /\ clone[c].pc \notin Resting \cup {"lock"}
      /\ Snap(clone[c], kv, secrets) /\ DOMAIN secrets = Envs /\ faults \in Nat
      /\ UNCHANGED <<secrets, faults>>
  BY DEF PutGlobal, SInv, Resting
<1>2. PICK i : i = clone[c] /\ IsClone(i)
  BY <1>1 DEF Snap
<1>3. CASE i.puts = {}
  <2>1. Goes(c, "secrets", i) /\ kv' = kv
    BY <1>2, <1>3 DEF PutGlobal, Writes
  <2>2. PICK k : /\ clone' = [clone EXCEPT ![c] = k] /\ mux' = mux /\ IsClone(k)
                 /\ k.pc = "secrets"
                 /\ k.src = i.src /\ k.dst = i.dst /\ k.globs = i.globs /\ k.look = i.look
                 /\ k.puts = i.puts /\ k.base = i.base
    BY <1>2, <2>1, GoesTo
  <2>3. Snap(k, kv', secrets')
    BY <1>1, <1>2, <1>3, <2>1, <2>2 DEF Snap, Scripted
  <2> QED BY <1>1, <2>2, <2>3, WorksSInv DEF Scripted
<1>4. ASSUME NEW n \in i.puts, Goes(c, "puts", [i EXCEPT !.puts = @ \ {n}]),
             kv' = [kv EXCEPT ![<<i.dst, n>>] = Override]
      PROVE  SInv' /\ Outcomes
  <2>1. PICK j, q : j = [i EXCEPT !.puts = q] /\ Goes(c, "puts", j) /\ q = i.puts \ {n}
    BY <1>4
  <2>2. /\ IsClone(j) /\ j.src = i.src /\ j.dst = i.dst /\ j.globs = i.globs /\ j.look = i.look
        /\ j.puts = q /\ j.base = i.base
    BY <1>2, <2>1 DEF IsClone
  <2>3. PICK k : /\ clone' = [clone EXCEPT ![c] = k] /\ mux' = mux /\ IsClone(k) /\ k.pc = "puts"
                 /\ k.src = i.src /\ k.dst = i.dst /\ k.globs = i.globs /\ k.look = i.look
                 /\ k.puts = q /\ k.base = i.base
    <3>1. Goes(c, "puts", j) /\ IsClone(j)
      BY <2>1, <2>2
    <3>2. PICK k : /\ clone' = [clone EXCEPT ![c] = k] /\ mux' = mux /\ IsClone(k)
                   /\ k.pc = "puts" /\ k.src = j.src /\ k.dst = j.dst /\ k.globs = j.globs
                   /\ k.look = j.look /\ k.puts = j.puts /\ k.base = j.base /\ k.held = j.held
      BY <3>1, GoesTo
    <3> QED BY <2>2, <3>2
  <2>4. i.src # i.dst /\ n \in i.globs /\ i.src \in Envs /\ i.dst \in Envs
    BY <1>1, <1>2, RedisAssumption, NamesAssumption DEF Snap, Apart
  <2>5. \A m \in Names : <<i.src, m>> \in Keys /\ <<i.dst, m>> \in Keys
    BY <2>4 DEF Keys
  <2>6. \A m \in Names : kv'[<<i.src, m>>] = kv[<<i.src, m>>]
    BY <1>4, <2>4, <2>5 DEF Storing
  <2>7. \A m \in Names : kv'[<<i.dst, m>>] = IF m = n THEN Override ELSE kv[<<i.dst, m>>]
    BY <1>4, <2>4, <2>5 DEF Storing
  <2>8. Snap(k, kv', secrets')
    BY <1>1, <1>2, <2>1, <2>3, <2>4, <2>6, <2>7 DEF Snap, Scripted
  <2> QED BY <1>1, <2>3, <2>8, WorksSInv DEF Scripted
<1>5. \/ i.puts = {}
      \/ \E n \in i.puts : /\ Goes(c, "puts", [i EXCEPT !.puts = @ \ {n}])
                            /\ kv' = [kv EXCEPT ![<<i.dst, n>>] = Override]
  BY <1>2, Zenon DEF PutGlobal, Writes
<1> QED BY <1>3, <1>4, <1>5

LEMMA FailSInv == ASSUME SInv, NEW c \in Cloners, GlobalsFail(c) PROVE SInv' /\ Outcomes
<1>1. /\ clone[c].pc \notin Resting \cup {"lock"} /\ Answers(c, "error") /\ UNCHANGED secrets
      /\ \/ faults' = faults + 1 /\ kv' = PatternDelete(kv, clone[c].dst, Star)
         \/ faults' = faults + 2
  BY DEF GlobalsFail, Cleanup, Writes, Resting
<1>2. /\ faults' \in Nat /\ DOMAIN secrets' = Envs
      /\ kv' = PatternDelete(kv, clone[c].dst, Star) \/ faults' # faults + 1
  BY <1>1 DEF SInv
<1> QED BY <1>1, <1>2, AnswersSInv

LEMMA SecretsSInv ==
  ASSUME SInv, NEW c \in Cloners, CopySecrets(c), Plain PROVE SInv' /\ Outcomes
<1>1. /\ clone[c].pc = "secrets" /\ clone[c].pc \notin Resting \cup {"lock"}
      /\ Snap(clone[c], kv, secrets) /\ DOMAIN secrets = Envs /\ faults \in Nat
  BY DEF CopySecrets, SInv, Resting
<1>2. PICK i : i = clone[c] /\ IsClone(i) /\ i.src \notin Magic /\ i.dst \in Envs
  BY <1>1, RedisAssumption DEF Snap, Plain
<1> DEFINE copied == SecretsCopied(i.src, i.dst, secrets[i.src])
<1>3. \/ secrets' = copied /\ Goes(c, "env", [i EXCEPT !.held = secrets[i.src]])
         /\ UNCHANGED <<kv, faults>>
      \/ /\ \E some \in SUBSET secrets[i.src] : secrets' = SecretsCopied(i.src, i.dst, some)
         /\ Exit /\ faults' = faults + 1
  BY <1>2, Zenon DEF CopySecrets, Fail
<1>4. /\ DOMAIN copied = Envs /\ secrets[i.src] \subseteq copied[i.dst]
      /\ \A some : DOMAIN SecretsCopied(i.src, i.dst, some) = Envs
  BY <1>1, <1>2 DEF SecretsCopied
<1> HIDE DEF copied
<1>5. CASE secrets' = copied /\ Goes(c, "env", [i EXCEPT !.held = secrets[i.src]])
           /\ UNCHANGED <<kv, faults>>
  <2>1. PICK j, h : j = [i EXCEPT !.held = h] /\ Goes(c, "env", j) /\ h = secrets[i.src]
    BY <1>5
  <2>2. /\ IsClone(j) /\ j.src = i.src /\ j.dst = i.dst /\ j.globs = i.globs /\ j.look = i.look
        /\ j.puts = i.puts /\ j.base = i.base /\ j.held = h
    BY <1>2, <2>1 DEF IsClone
  <2>3. PICK k : /\ clone' = [clone EXCEPT ![c] = k] /\ mux' = mux /\ IsClone(k) /\ k.pc = "env"
                 /\ k.src = i.src /\ k.dst = i.dst /\ k.globs = i.globs /\ k.look = i.look
                 /\ k.puts = i.puts /\ k.base = i.base /\ k.held = h
    <3>1. Goes(c, "env", j) /\ IsClone(j)
      BY <2>1, <2>2
    <3>2. PICK k : /\ clone' = [clone EXCEPT ![c] = k] /\ mux' = mux /\ IsClone(k)
                   /\ k.pc = "env" /\ k.src = j.src /\ k.dst = j.dst /\ k.globs = j.globs
                   /\ k.look = j.look /\ k.puts = j.puts /\ k.base = j.base /\ k.held = j.held
      BY <3>1, GoesTo
    <3> QED BY <2>2, <3>2
  <2>4. Snap(k, kv', secrets')
    BY <1>1, <1>2, <1>4, <1>5, <2>1, <2>3 DEF Snap, Scripted
  <2> QED BY <1>1, <1>4, <1>5, <2>3, <2>4, WorksSInv DEF Scripted
<1>6. CASE /\ \E some \in SUBSET secrets[i.src] : secrets' = SecretsCopied(i.src, i.dst, some)
           /\ Exit /\ faults' = faults + 1
  BY <1>1, <1>4, <1>6, ExitSInv
<1> QED BY <1>3, <1>5, <1>6

LEMMA AddSInv == ASSUME SInv, NEW c \in Cloners, AddEnv(c) PROVE SInv' /\ Outcomes
<1>1. /\ clone[c].pc = "env" /\ clone[c].pc \notin Resting \cup {"lock"}
      /\ clone[c].pc \notin {"keys", "puts"} /\ UNCHANGED secrets
      /\ \/ Answers(c, "ok") /\ kv' = kv /\ UNCHANGED faults
         \/ Answers(c, "error") /\ faults' = faults + 1
  BY DEF AddEnv, Writes, Fail, Resting
<1>2. faults' \in Nat /\ DOMAIN secrets' = Envs
  BY <1>1 DEF SInv
<1> QED BY <1>1, <1>2, AnswersSInv

(* The steps beside the clones. *)
LEMMA UpsertSInv == ASSUME Apart, Inv, SInv, Upsert PROVE SInv' /\ Outcomes
<1>1. UNCHANGED <<cloner, secrets>> /\ faults' \in Nat
  BY DEF Upsert, SetLock, DeleteConfig, StoreConfig, DeleteLock, Fail, SInv
<1>2. Kept(kv) /\ Storing
  BY SameKept DEF Inv
<1>3. kv' \in {kv, PatternDelete(kv, Repo, uenv)} \/ (upc = "store" /\ kv' = PutVersion(kv, uenv, uver))
  BY DEF Upsert, SetLock, DeleteConfig, StoreConfig, DeleteLock
<1>4. Kept(kv')
  BY <1>2, <1>3, DeletionKept, VersionKept, RedisAssumption, NamesAssumption
<1>5. \A k \in Keys : k[1] \notin Reserved => kv'[k] = kv[k]
  <2>1. \A k \in Keys : k[1] # Repo
    BY RedisAssumption DEF Keys
  <2> QED BY <1>2, <1>3, <2>1 DEF PatternDelete, PutVersion, Storing
<1> QED BY <1>1, <1>4, <1>5, BesideSInv DEF Beside, SInv

LEMMA QuietSInv ==
  ASSUME Apart, Inv, SInv, UNCHANGED <<kv, cloner>>, DOMAIN secrets' = Envs, faults' \in Nat,
         \A e \in Envs : secrets[e] \subseteq secrets'[e]
  PROVE  SInv' /\ Outcomes
BY SameKept, BesideSInv DEF Beside, Inv

LEMMA DeleterSInv ==
  ASSUME Apart, Inv, SInv, NEW d \in Deleters,
         (\E e \in Envs : BeginDelete(d, e)) \/ DeleteKeys(d) \/ DeleteEnv(d)
  PROVE  SInv' /\ Outcomes
<1>1. UNCHANGED <<cloner, secrets>> /\ faults' \in Nat
  BY DEF BeginDelete, DeleteKeys, DeleteEnv, Fail, SInv, redis
<1>2. kv' \in {kv, PatternDelete(kv, Repo, denv[d])}
  BY DEF BeginDelete, DeleteKeys, DeleteEnv, redis, Writes
<1>3. Kept(kv')
  BY <1>2, SameKept, DeletionKept, RedisAssumption, NamesAssumption DEF Inv
<1>4. \A k \in Keys : kv'[k] = kv[k]
  BY <1>2, RedisAssumption DEF PatternDelete, Keys
<1> QED BY <1>1, <1>3, <1>4, BesideSInv DEF Beside, SInv

LEMMA SInvInit == Init => SInv
BY RedisAssumption DEF Init, SInv, NoClone, Resting

LEMMA SInvStep == ASSUME Apart, Plain, Inv, SInv, [Next]_vars PROVE SInv' /\ Outcomes
<1>1. Storing /\ DOMAIN secrets = Envs /\ faults \in Nat
  BY DEF Inv, SInv
<1>2. ASSUME NEW e \in Envs, LockExpires(e) \/ \E s \in Secrets : UpsertSecrets(e, s)
      PROVE  SInv' /\ Outcomes
  BY <1>1, <1>2, QuietSInv DEF LockExpires, UpsertSecrets
<1>3. ASSUME NEW r \in Readers,
             \/ \E e \in Envs, req \in Requests : BeginRead(r, e, req)
             \/ CheckLock(r) \/ GetKey(r) \/ AnswerRead(r) \/ ReadFails(r)
             \/ \E p \in read[r].todo : FindKey(r, p)
      PROVE  SInv' /\ Outcomes
  <2>1. \A new : Reads(r, new) => UNCHANGED <<kv, secrets, cloner>>
    BY DEF Reads, redis
  <2>2. CASE \E e \in Envs, req \in Requests : BeginRead(r, e, req)
    BY <1>1, <2>1, <2>2, QuietSInv DEF BeginRead
  <2>3. CASE CheckLock(r)
    BY <1>1, <2>1, <2>3, QuietSInv DEF CheckLock
  <2>4. CASE GetKey(r)
    <3>1. UNCHANGED faults /\ \E new : Reads(r, new)
      BY <2>4, Zenon DEF GetKey
    <3> QED BY <1>1, <2>1, <3>1, QuietSInv
  <2>5. CASE AnswerRead(r)
    BY <1>1, <2>1, <2>5, QuietSInv DEF AnswerRead
  <2>6. CASE ReadFails(r)
    <3>1. faults' \in Nat
      BY <1>1, <2>6 DEF ReadFails, Fail
    <3> QED BY <1>1, <2>1, <2>6, <3>1, QuietSInv DEF ReadFails
  <2>7. CASE \E p \in read[r].todo : FindKey(r, p)
    <3>1. UNCHANGED faults /\ \E new : Reads(r, new)
      BY <2>7, Zenon DEF FindKey
    <3> QED BY <1>1, <2>1, <3>1, QuietSInv
  <2> QED BY <1>3, <2>2, <2>3, <2>4, <2>5, <2>6, <2>7
<1>4. ASSUME NEW c \in Cloners,
             \/ \E e \in Envs, n \in Targets, G \in Overrides : BeginClone(c, e, n, G)
             \/ LockMux(c) \/ RunScript(c) \/ FindGlobal(c) \/ PutGlobal(c) \/ GlobalsFail(c)
             \/ CopySecrets(c) \/ AddEnv(c)
      PROVE  SInv' /\ Outcomes
  BY <1>1, <1>4, BeginSInv, LockSInv, ScriptSInv, FindSInv, PutSInv, FailSInv, SecretsSInv, AddSInv
<1>5. CASE Crash
  BY <1>1, <1>5, ExitSInv DEF Crash, Fail
<1>6. CASE UNCHANGED vars
  BY <1>1, <1>6, QuietSInv DEF vars, redis
<1> QED BY <1>2, <1>3, <1>4, <1>5, <1>6, UpsertSInv, DeleterSInv DEF Next

THEOREM SInvariance == ASSUME Apart, Plain PROVE Spec => []SInv
<1>1. Inv /\ SInv /\ [Next]_vars => SInv'
  BY SInvStep
<1> QED BY <1>1, Invariance, SInvInit, PTL DEF Spec

(* A clone that is answered with success is what the original was when the *)
(* script ran, with the globals of the request, whatever upserts, secrets, *)
(* other clones and failures there are meanwhile.                          *)
THEOREM AlwaysSnapshot == ASSUME Apart, Plain PROVE Spec => CloneIsSnapshot
<1> DEFINE Snapshot ==
      \A c \in Cloners : clone[c].pc # "ok" /\ clone'[c].pc = "ok" =>
        LET j == clone[c] IN
        /\ \A n \in Names : j.base[<<j.src, n>>] # Missing =>
             kv'[<<j.dst, n>>] = IF n \in j.globs THEN Override ELSE j.base[<<j.src, n>>]
        /\ j.held \subseteq secrets'[j.dst]
<1>1. ASSUME Inv, SInv, [Next]_vars PROVE Snapshot
  <2> SUFFICES ASSUME NEW c \in Cloners, clone[c].pc # "ok", clone'[c].pc = "ok"
               PROVE  LET j == clone[c] IN
                      /\ \A n \in Names : j.base[<<j.src, n>>] # Missing =>
                           kv'[<<j.dst, n>>] = IF n \in j.globs THEN Override ELSE j.base[<<j.src, n>>]
                      /\ j.held \subseteq secrets'[j.dst]
    OBVIOUS
  <2>1. clone[c].pc = "env" /\ kv' = kv /\ secrets' = secrets
    BY <1>1, SInvStep DEF Outcomes, Outcome
  <2>2. Snap(clone[c], kv, secrets)
    BY <1>1, <2>1 DEF SInv, Resting
  <2> QED BY <2>1, <2>2 DEF Snap, Scripted
<1>2. Inv /\ SInv /\ [Next]_vars => [Snapshot]_vars
  BY <1>1
<1> QED BY <1>2, Invariance, SInvariance, PTL DEF Spec, CloneIsSnapshot

(* A clone whose globals could not be set leaves nothing, unless the       *)
(* deletion of the copies fails as well.                                   *)
THEOREM NothingLeft == ASSUME Apart, Plain PROVE Spec => FailedCloneIsGone
<1> DEFINE Gone ==
      \A c \in Cloners :
        /\ clone[c].pc \in {"keys", "puts"} /\ clone'[c].pc = "error"
        /\ faults' = faults + 1
        => IsEmpty(kv', clone[c].dst)
<1>1. ASSUME Inv, SInv, [Next]_vars PROVE Gone
  <2> SUFFICES ASSUME NEW c \in Cloners, clone[c].pc \in {"keys", "puts"}, clone'[c].pc = "error",
                      faults' = faults + 1
               PROVE  IsEmpty(kv', clone[c].dst)
    OBVIOUS
  <2>1. kv' = PatternDelete(kv, clone[c].dst, Star)
    BY <1>1, SInvStep DEF Outcomes, Outcome
  <2>2. clone[c].dst \in Envs
    BY <1>1, RedisAssumption DEF SInv, Resting, Snap
  <2> QED BY <2>1, <2>2 DEF PatternDelete, IsEmpty, Keys
<1>2. Inv /\ SInv /\ [Next]_vars => [Gone]_vars
  BY <1>1
<1> QED BY <1>2, Invariance, SInvariance, PTL DEF Spec, FailedCloneIsGone

-----------------------------------------------------------------------------
(* Types. *)
Pairs == (Groups \cup {Top}) \X Names

(* A read, and a clone, with their types. *)
ARead(d) ==
  /\ IsRead(d)
  /\ d.pc \in {"idle", "lock", "keys", "get", "done"}
  /\ d.todo \subseteq Pairs
  /\ d.pc = "get" => d.at \in Pairs

AClone(j) ==
  /\ IsClone(j)
  /\ j.pc \in Resting \cup {"lock", "script"} \cup Scripted
  /\ j.pc \notin Resting => j.src \in Envs /\ j.dst \in Envs

Readings == DOMAIN read = Readers /\ \A r \in Readers : ARead(read[r])

Clones ==
  /\ DOMAIN clone = Cloners /\ mux \in Cloners \cup {None}
  /\ \A c \in Cloners : AClone(clone[c]) /\ (mux = c) = (clone[c].pc \notin Resting \cup {"lock"})

Upserts ==
  /\ upc \in {"idle", "delete", "store", "release"}
  /\ uenv \in Reserved /\ uver \in Versions \cup {0}
  /\ upc \in {"delete", "store"} => uver \in Versions
  /\ floor \in [Reserved -> Versions \cup {0}]
  /\ lock \subseteq Envs

Deletions ==
  /\ dpc \in [Deleters -> {"idle", "keys", "env", "ok", "error"}]

IsData(db) == db \in [Keys -> Values \cup {Missing}]

Registry == meta \in [Envs -> Envs \cup {None}]
Secrecy == secrets \in [Envs -> SUBSET Secrets]

TypeInv == IsData(kv) /\ Secrecy /\ Registry /\ Upserts /\ Readings /\ Clones /\ Deletions

(* The writes. *)
LEMMA PatternData == ASSUME IsData(kv), NEW a, NEW b PROVE IsData(PatternDelete(kv, a, b))
BY DEF IsData, PatternDelete

LEMMA CopiedData ==
  ASSUME NEW db, IsData(db), NEW e \in Envs, NEW n PROVE IsData(Copied(db, e, n))
<1>1. \A k \in Keys : <<e, k[2]>> \in Keys
  BY DEF Keys
<1>2. \A k \in Keys : db[k] \in Values \cup {Missing} /\ db[<<e, k[2]>>] \in Values \cup {Missing}
  BY <1>1 DEF IsData
<1> QED BY <1>2 DEF IsData, Copied

LEMMA StoppedData ==
  ASSUME NEW db, IsData(db), NEW e \in Envs, NEW n, NEW some PROVE IsData(Stopped(db, e, n, some))
<1>1. IsData(Copied(db, e, n))
  BY CopiedData
<1> QED BY <1>1 DEF IsData, Stopped

LEMMA VersionData ==
  ASSUME IsData(kv), NEW e \in Envs, NEW v \in Versions PROVE IsData(PutVersion(kv, e, v))
BY DEF IsData, PutVersion, Values

LEMMA OverrideData == ASSUME IsData(kv), NEW k PROVE IsData([kv EXCEPT ![k] = Override])
BY DEF IsData, Values

(* The reads. *)
LEMMA NoReadIsRead == ARead(NoRead)
<1>1. PICK d : d = NoRead
  OBVIOUS
<1>2. IsRead(d) /\ d.pc = "idle" /\ d.todo = {}
  BY <1>1 DEF IsRead, NoRead
<1> QED BY <1>1, <1>2 DEF ARead

LEMMA TouchedReads == ASSUME Readings, NEW db, read' = Touched(db) PROVE Readings'
<1>1. ASSUME NEW r \in Readers PROVE ARead(read'[r])
  <2>1. PICK d, changed : /\ d = read[r] /\ ARead(d)
                          /\ read'[r] = [d EXCEPT !.changed = changed]
    BY <1>1 DEF Readings, Touched
  <2>2. PICK i : i = [d EXCEPT !.changed = changed]
    OBVIOUS
  <2>3. IsRead(i) /\ i.pc = d.pc /\ i.todo = d.todo /\ i.at = d.at
    BY <2>1, <2>2 DEF ARead, IsRead
  <2>4. ARead(i)
    BY <2>1, <2>3 DEF ARead
  <2> QED BY <2>1, <2>2, <2>4
<1> QED BY <1>1 DEF Readings, Touched

LEMMA ReadsReads == ASSUME Readings, NEW r \in Readers, NEW d, ARead(d), Reads(r, d) PROVE Readings'
BY DEF Readings, Reads

LEMMA BeginReads ==
  ASSUME Readings, NEW r \in Readers, NEW e \in Envs, NEW req \in Requests, BeginRead(r, e, req)
  PROVE  Readings'
<1>1. PICK d, n, todo, f :
        /\ n = NoRead /\ ARead(n)
        /\ todo = {<<h, h>> : h \in req[1]} \cup ({Top} \X req[2])
        /\ d = [n EXCEPT !.pc = "lock", !.env = e, !.asked = req, !.todo = todo, !.base = kv, !.floor = f]
        /\ Reads(r, d)
  BY NoReadIsRead, Zenon DEF BeginRead
<1>2. req[1] \subseteq Groups /\ req[2] \subseteq Globals
  BY RedisAssumption
<1>3. todo \subseteq Pairs
  BY <1>1, <1>2 DEF Pairs, Names
<1>4. IsRead(d) /\ d.pc = "lock" /\ d.todo = todo
  BY <1>1 DEF ARead, IsRead
<1>5. ARead(d)
  BY <1>3, <1>4 DEF ARead
<1> QED BY <1>1, <1>5, ReadsReads

LEMMA ReaderTypes ==
  ASSUME Readings, NEW r \in Readers,
         \/ CheckLock(r) \/ GetKey(r) \/ AnswerRead(r) \/ ReadFails(r)
         \/ \E p \in read[r].todo : FindKey(r, p)
  PROVE  Readings'
<1>1. PICK d : d = read[r] /\ ARead(d)
  BY DEF Readings
<1>2. ASSUME NEW place \in {"keys", "done"}, Reads(r, [d EXCEPT !.pc = place]) PROVE Readings'
  <2>1. PICK i : i = [d EXCEPT !.pc = place]
    OBVIOUS
  <2>2. IsRead(i) /\ i.pc = place /\ i.todo = d.todo
    BY <1>1, <2>1 DEF ARead, IsRead
  <2>3. ARead(i)
    BY <1>1, <2>2 DEF ARead
  <2> QED BY <1>2, <2>1, <2>3, ReadsReads
<1>3. CASE CheckLock(r)
  BY <1>1, <1>2, <1>3 DEF CheckLock
<1>4. CASE AnswerRead(r)
  BY <1>1, <1>2, <1>4 DEF AnswerRead
<1>5. CASE ReadFails(r)
  BY <1>5, NoReadIsRead, ReadsReads DEF ReadFails
<1>6. ASSUME NEW p \in d.todo, FindKey(r, p) PROVE Readings'
  <2>1. PICK i : i = [d EXCEPT !.todo = @ \ {p}]
    OBVIOUS
  <2>2. PICK g : g = [i EXCEPT !.at = p, !.pc = "get"]
    OBVIOUS
  <2>3. IsRead(i) /\ i.pc = d.pc /\ i.todo = d.todo \ {p} /\ i.at = d.at
    BY <1>1, <2>1 DEF ARead, IsRead
  <2>4. IsRead(g) /\ g.pc = "get" /\ g.todo = i.todo /\ g.at = p
    BY <2>2, <2>3 DEF IsRead
  <2>5. ARead(i) /\ ARead(g)
    BY <1>1, <1>6, <2>3, <2>4 DEF ARead
  <2>6. Reads(r, i) \/ Reads(r, g)
    BY <1>1, <1>6, <2>1, <2>2 DEF FindKey
  <2> QED BY <2>5, <2>6, ReadsReads
<1>7. CASE GetKey(r)
  <2>1. PICK i : i = [d EXCEPT !.pc = "keys", !.at = None]
    OBVIOUS
  <2>2. IsRead(i) /\ i.pc = "keys" /\ i.todo = d.todo /\ d.at \in Pairs
    BY <1>1, <1>7, <2>1 DEF ARead, IsRead, GetKey
  <2>3. PICK p : p = d.at /\ p \in Pairs
    BY <2>2
  <2>4. ASSUME NEW got, NEW todo, todo \subseteq Pairs, Reads(r, [i EXCEPT !.got = got, !.todo = todo])
        PROVE  Readings'
    <3>1. PICK g : g = [i EXCEPT !.got = got, !.todo = todo]
      OBVIOUS
    <3>2. IsRead(g) /\ g.pc = "keys" /\ g.todo = todo
      BY <2>2, <3>1 DEF IsRead
    <3>3. ARead(g)
      BY <2>4, <3>2 DEF ARead
    <3> QED BY <2>4, <3>1, <3>3, ReadsReads
  <2>5. p[2] \in Groups => {p[1]} \X Refs[p[2]] \subseteq Pairs
    BY <2>3, NamesAssumption DEF Pairs, Names
  <2>6. \/ Reads(r, i)
        \/ \E got : Reads(r, [i EXCEPT !.got = got,
                                       !.todo = IF p[2] \in Groups THEN @ \cup ({p[1]} \X Refs[p[2]]) ELSE @])
    BY <1>1, <1>7, <2>1, <2>3, Zenon DEF GetKey
  <2>7. PICK todo : todo = IF p[2] \in Groups THEN i.todo \cup ({p[1]} \X Refs[p[2]]) ELSE i.todo
    OBVIOUS
  <2>8. todo \subseteq Pairs /\ ARead(i)
    BY <1>1, <2>2, <2>5, <2>7 DEF ARead
  <2> QED BY <2>4, <2>6, <2>7, <2>8, ReadsReads
<1> QED BY <1>1, <1>3, <1>4, <1>5, <1>6, <1>7

(* The clones. *)
LEMMA GoesClones ==
  ASSUME Clones, NEW c \in Cloners, clone[c].pc \notin Resting \cup {"lock"},
         NEW place \in {"script"} \cup Scripted, NEW j, Goes(c, place, j), IsClone(j),
         j.src \in Envs, j.dst \in Envs
  PROVE  Clones'
<1>1. PICK i : /\ clone' = [clone EXCEPT ![c] = i] /\ mux' = mux
               /\ IsClone(i) /\ i.pc = place /\ i.src = j.src /\ i.dst = j.dst
  BY GoesTo
<1>2. place \notin Resting \cup {"lock"}
  BY DEF Scripted, Resting
<1>3. AClone(i)
  BY <1>1 DEF AClone
<1> QED BY <1>1, <1>2, <1>3 DEF Clones

LEMMA AnswersClones ==
  ASSUME Clones, NEW c \in Cloners, clone[c].pc \notin Resting \cup {"lock"},
         NEW answer \in {"ok", "error"}, Answers(c, answer)
  PROVE  Clones'
<1>1. PICK n, i : /\ n = NoClone /\ IsClone(n) /\ i = [n EXCEPT !.pc = answer]
                  /\ clone' = [clone EXCEPT ![c] = i] /\ mux' = None
  BY NoCloneIsClone DEF Answers
<1>2. IsClone(i) /\ i.pc = answer
  BY <1>1 DEF IsClone
<1>3. AClone(i) /\ i.pc \in Resting
  BY <1>2 DEF AClone, Resting
<1> QED BY <1>1, <1>3, RedisAssumption DEF Clones

LEMMA BeginClones ==
  ASSUME Clones, NEW c \in Cloners, NEW e \in Envs, NEW n \in Targets, NEW G \in Overrides,
         BeginClone(c, e, n, G)
  PROVE  Clones'
<1>1. PICK b : b = NoClone /\ IsClone(b)
  BY NoCloneIsClone
<1>2. clone[c].pc \in Resting /\ mux # c
  BY DEF BeginClone, Resting, Clones
<1>3. ASSUME NEW place, NEW j, Goes(c, place, j), IsClone(j), place \in {"lock", "error"},
             place = "lock" => j.src \in Envs /\ j.dst \in Envs
      PROVE  Clones'
  <2>1. PICK i : /\ clone' = [clone EXCEPT ![c] = i] /\ mux' = mux
                 /\ IsClone(i) /\ i.pc = place /\ i.src = j.src /\ i.dst = j.dst
    BY <1>3, GoesTo
  <2>2. AClone(i) /\ i.pc \in Resting \cup {"lock"}
    BY <1>3, <2>1 DEF AClone, Resting
  <2> QED BY <1>2, <2>1, <2>2 DEF Clones
<1>4. CASE e \in Reserved
  <2>1. PICK j : j = [b EXCEPT !.src = e, !.dst = n, !.globs = G, !.look = G] /\ Goes(c, "lock", j)
    BY <1>1, <1>4 DEF BeginClone
  <2>2. IsClone(j) /\ j.src \in Envs /\ j.dst \in Envs
    BY <1>1, <2>1, RedisAssumption DEF IsClone
  <2> QED BY <1>3, <2>1, <2>2
<1>5. CASE e \notin Reserved
  BY <1>1, <1>3, <1>5 DEF BeginClone
<1> QED BY <1>4, <1>5

LEMMA LockClones == ASSUME Clones, NEW c \in Cloners, LockMux(c) PROVE Clones'
<1>1. PICK j, i : /\ j = clone[c] /\ i = [j EXCEPT !.pc = "script"]
                  /\ clone' = [clone EXCEPT ![c] = i] /\ mux' = c /\ mux = None
                  /\ j.pc = "lock" /\ AClone(j)
  BY DEF LockMux, Clones
<1>2. IsClone(i) /\ i.pc = "script" /\ i.src = j.src /\ i.dst = j.dst
  BY <1>1 DEF AClone, IsClone
<1>3. AClone(i) /\ i.pc \notin Resting \cup {"lock"}
  BY <1>1, <1>2 DEF AClone, Resting
<1> QED BY <1>1, <1>3, RedisAssumption DEF Clones

(* The steps. *)
LEMMA ExitTypes == ASSUME TypeInv, Exit, IsData(kv'), Secrecy' PROVE TypeInv'
<1>1. Readings'
  BY NoReadIsRead DEF Readings, Exit
<1>2. Clones'
  <2>1. PICK n : n = NoClone /\ IsClone(n) /\ n.pc = "idle"
    BY NoCloneIsClone DEF NoClone
  <2>2. AClone(n) /\ n.pc \in Resting
    BY <2>1 DEF AClone, Resting
  <2>3. clone' = [c \in Cloners |-> n] /\ mux' = None
    BY <2>1 DEF Exit
  <2> QED BY <2>2, <2>3, RedisAssumption DEF Clones
<1>3. Upserts' /\ Deletions' /\ Registry'
  BY DEF TypeInv, Exit, Upserts, Deletions, Registry
<1> QED BY <1>1, <1>2, <1>3 DEF TypeInv, IsData, Secrecy

LEMMA WriteTypes == ASSUME TypeInv, NEW db, IsData(db), Writes(db) PROVE IsData(kv') /\ Readings'
BY TouchedReads DEF TypeInv, Writes, IsData

LEMMA QuietTypes == TypeInv /\ UNCHANGED <<redis, poller, deleter>> => /\ IsData(kv') /\ Secrecy' /\ Registry'
                                                                       /\ Upserts' /\ Deletions'
BY DEF TypeInv, redis, poller, deleter, IsData, Secrecy, Registry, Upserts, Deletions

LEMMA UpsertTypes == ASSUME TypeInv, Upsert PROVE TypeInv'
<1> USE DEF TypeInv
<1>1. UNCHANGED <<secrets, meta, clone, mux, dpc>>
  BY DEF Upsert, SetLock, DeleteConfig, StoreConfig, DeleteLock, cloner, deleter
<1>2. Secrecy' /\ Registry' /\ Clones' /\ Deletions'
  BY <1>1 DEF Secrecy, Registry, Clones, Deletions
<1>3. ASSUME NEW e \in Reserved, NEW v \in Versions, SetLock(e, v)
      PROVE  IsData(kv') /\ Readings' /\ Upserts'
  <2>1. IsData(kv') /\ Readings'
    BY <1>3 DEF SetLock, IsData, Readings
  <2>2. e \in Envs
    BY NamesAssumption
  <2> QED BY <1>3, <2>1, <2>2 DEF SetLock, Upserts
<1>4. CASE DeleteConfig
  <2>1. IsData(kv') /\ Readings'
    BY <1>4, PatternData, TouchedReads DEF DeleteConfig, IsData
  <2> QED BY <1>2, <1>4, <2>1 DEF DeleteConfig, Upserts
<1>5. CASE StoreConfig
  <2>1. uenv \in Envs /\ uver \in Versions
    BY <1>5, NamesAssumption DEF StoreConfig, Upserts
  <2>2. PICK db : IsData(db) /\ kv' = db /\ read' = Touched(db)
    BY <1>5, <2>1, VersionData DEF StoreConfig
  <2>3. Readings' /\ IsData(kv')
    BY <2>2, TouchedReads DEF IsData
  <2> QED BY <1>2, <1>5, <2>1, <2>3 DEF StoreConfig, Upserts
<1>6. CASE DeleteLock
  <2>1. IsData(kv') /\ Readings'
    BY <1>6 DEF DeleteLock, IsData, Readings
  <2> QED BY <1>2, <1>6, <2>1 DEF DeleteLock, Upserts
<1> QED BY <1>2, <1>3, <1>4, <1>5, <1>6 DEF Upsert

LEMMA ClonerTypes ==
  ASSUME TypeInv, NEW c \in Cloners,
         \/ RunScript(c) \/ FindGlobal(c) \/ PutGlobal(c) \/ GlobalsFail(c)
         \/ CopySecrets(c) \/ AddEnv(c)
  PROVE  TypeInv'
<1> USE DEF TypeInv
<1>1. PICK j : j = clone[c] /\ AClone(j)
  BY DEF Clones
<1>2. j.pc \in {"script"} \cup Scripted
  BY <1>1 DEF RunScript, FindGlobal, PutGlobal, GlobalsFail, CopySecrets, AddEnv, Scripted
<1>3. clone[c].pc \notin Resting \cup {"lock"}
  BY <1>1, <1>2 DEF Scripted, Resting
<1>4. IsClone(j) /\ j.src \in Envs /\ j.dst \in Envs
  BY <1>1, <1>3 DEF AClone
<1>5. ASSUME NEW place \in Scripted, NEW i, IsClone(i), i.src = j.src, i.dst = j.dst, Goes(c, place, i)
      PROVE  Clones'
  BY <1>3, <1>4, <1>5, GoesClones
<1>6. ASSUME NEW answer \in {"ok", "error"}, Answers(c, answer) PROVE Clones'
  BY <1>3, <1>6, AnswersClones
<1>7. CASE RunScript(c)
  <2>1. PICK new : new = Copied(kv, j.src, j.dst) /\ IsData(new)
    BY <1>4, CopiedData
  <2>2. CASE Exit
    <3>1. \/ Writes(new)
          \/ \E some : LET part == Stopped(kv, j.src, j.dst, some) IN
                       kv' \in {part, PatternDelete(part, j.dst, Star)}
      BY <1>1, <1>7, <2>1, Zenon DEF RunScript
    <3>2. \A part : IsData(part) => IsData(PatternDelete(part, j.dst, Star))
      BY DEF IsData, PatternDelete
    <3>3. IsData(kv')
      BY <1>4, <2>1, <3>1, <3>2, StoppedData DEF Writes
    <3>4. Secrecy'
      BY <1>7 DEF RunScript, Secrecy
    <3> QED BY <2>2, <3>3, <3>4, ExitTypes
  <2>3. CASE ~Exit
    <3>1. PICK i, place : /\ i = [j EXCEPT !.base = kv] /\ place \in {"secrets", "keys"}
                          /\ Goes(c, place, i) /\ Writes(new)
                          /\ UNCHANGED <<secrets, meta, lock, poller, deleter>>
      BY <1>1, <1>7, <2>1, <2>3 DEF RunScript
    <3>2. IsClone(i) /\ i.src = j.src /\ i.dst = j.dst
      BY <1>4, <3>1 DEF IsClone
    <3>3. Clones'
      BY <1>5, <3>1, <3>2 DEF Scripted
    <3>4. IsData(kv') /\ Readings'
      BY <2>1, <3>1, WriteTypes
    <3> QED BY <3>1, <3>3, <3>4 DEF Secrecy, Registry, Upserts, Deletions, poller, deleter
  <2> QED BY <2>2, <2>3
<1>8. CASE FindGlobal(c)
  <2>1. ASSUME Goes(c, "puts", j) PROVE Clones'
    BY <1>4, <1>5, <2>1 DEF Scripted
  <2>2. ASSUME NEW look, NEW puts, Goes(c, "keys", [j EXCEPT !.look = look, !.puts = puts])
        PROVE  Clones'
    <3>1. PICK i : i = [j EXCEPT !.look = look, !.puts = puts]
      OBVIOUS
    <3>2. IsClone(i) /\ i.src = j.src /\ i.dst = j.dst
      BY <1>4, <3>1 DEF IsClone
    <3> QED BY <1>5, <2>2, <3>1, <3>2 DEF Scripted
  <2>3. Clones'
    <3>1. \/ Goes(c, "puts", j)
          \/ \E look, puts : Goes(c, "keys", [j EXCEPT !.look = look, !.puts = puts])
      BY <1>1, <1>8, Zenon DEF FindGlobal
    <3> QED BY <2>1, <2>2, <3>1
  <2>4. UNCHANGED read /\ UNCHANGED <<redis, poller, deleter>>
    BY <1>8 DEF FindGlobal
  <2>5. Readings'
    BY <2>4 DEF Readings
  <2> QED BY <2>3, <2>4, <2>5, QuietTypes
<1>9. CASE PutGlobal(c)
  <2>1. ASSUME Goes(c, "secrets", j) PROVE Clones'
    BY <1>4, <1>5, <2>1 DEF Scripted
  <2>2. ASSUME NEW puts, Goes(c, "puts", [j EXCEPT !.puts = puts])
        PROVE  Clones'
    <3>1. PICK i : i = [j EXCEPT !.puts = puts]
      OBVIOUS
    <3>2. IsClone(i) /\ i.src = j.src /\ i.dst = j.dst
      BY <1>4, <3>1 DEF IsClone
    <3> QED BY <1>5, <2>2, <3>1, <3>2 DEF Scripted
  <2>3. Clones'
    <3>1. \/ Goes(c, "secrets", j)
          \/ \E puts : Goes(c, "puts", [j EXCEPT !.puts = puts])
      BY <1>1, <1>9, Zenon DEF PutGlobal
    <3> QED BY <2>1, <2>2, <3>1
  <2>4. PICK db : IsData(db) /\ Writes(db)
    BY <1>9, OverrideData DEF PutGlobal
  <2>5. IsData(kv') /\ Readings'
    BY <2>4, WriteTypes
  <2>6. UNCHANGED <<secrets, meta, lock, poller, deleter>>
    BY <1>9 DEF PutGlobal
  <2> QED BY <2>3, <2>5, <2>6 DEF Secrecy, Registry, Upserts, Deletions, poller, deleter
<1>10. CASE GlobalsFail(c)
  <2>1. PICK db : IsData(db) /\ Writes(db)
    BY <1>10, PatternData DEF GlobalsFail, Cleanup
  <2>2. IsData(kv') /\ Readings' /\ Clones'
    BY <1>6, <1>10, <2>1, WriteTypes DEF GlobalsFail, Cleanup
  <2>3. UNCHANGED <<secrets, meta, lock, poller, deleter>>
    BY <1>10 DEF GlobalsFail, Cleanup
  <2> QED BY <2>2, <2>3 DEF Secrecy, Registry, Upserts, Deletions, poller, deleter
<1>11. CASE CopySecrets(c)
  <2>1. Secrecy'
    <3>1. PICK some \in SUBSET secrets[j.src] : secrets' = SecretsCopied(j.src, j.dst, some)
      BY <1>1, <1>11 DEF CopySecrets
    <3>2. \A e \in Envs : secrets[e] \subseteq Secrets
      BY DEF Secrecy
    <3> QED BY <1>4, <3>1, <3>2 DEF Secrecy, SecretsCopied
  <2>2. kv' = kv
    BY <1>11 DEF CopySecrets
  <2>3. CASE Exit
    BY <2>1, <2>2, <2>3, ExitTypes DEF IsData
  <2>4. CASE ~Exit
    <3>1. PICK i, held : /\ i = [j EXCEPT !.held = held] /\ Goes(c, "env", i)
                         /\ UNCHANGED <<kv, meta, lock, poller, read, deleter>>
      BY <1>1, <1>11, <2>4 DEF CopySecrets
    <3>2. IsClone(i) /\ i.src = j.src /\ i.dst = j.dst
      BY <1>4, <3>1 DEF IsClone
    <3>3. Clones'
      BY <1>5, <3>1, <3>2 DEF Scripted
    <3> QED BY <2>1, <3>1, <3>3 DEF IsData, Readings, Registry, Upserts, Deletions, poller, deleter
  <2> QED BY <2>3, <2>4
<1>12. CASE AddEnv(c)
  <2>1. PICK db : IsData(db) /\ Writes(db)
    BY <1>12, PatternData DEF AddEnv
  <2>2. Registry'
    <3>1. PICK added : added = [meta EXCEPT ![j.dst] = j.src] /\ meta' \in {meta, added}
      BY <1>1, <1>12 DEF AddEnv
    <3> QED BY <1>4, <3>1 DEF Registry
  <2>3. IsData(kv') /\ Readings' /\ Clones'
    BY <1>6, <1>12, <2>1, WriteTypes DEF AddEnv
  <2>4. UNCHANGED <<secrets, lock, poller, deleter>>
    BY <1>12 DEF AddEnv
  <2> QED BY <2>2, <2>3, <2>4 DEF Secrecy, Upserts, Deletions, poller, deleter
<1> QED BY <1>7, <1>8, <1>9, <1>10, <1>11, <1>12

LEMMA DeleterTypes ==
  ASSUME TypeInv, NEW d \in Deleters,
         (\E e \in Envs : BeginDelete(d, e)) \/ DeleteKeys(d) \/ DeleteEnv(d)
  PROVE  TypeInv'
<1> USE DEF TypeInv
<1>1. UNCHANGED <<secrets, meta, lock, poller, cloner>>
  BY DEF BeginDelete, DeleteKeys, DeleteEnv, redis
<1>2. Secrecy' /\ Registry' /\ Upserts' /\ Clones'
  BY <1>1 DEF Secrecy, Registry, Upserts, Clones, poller, cloner
<1>3. Deletions'
  BY DEF BeginDelete, DeleteKeys, DeleteEnv, Deletions
<1>4. CASE DeleteKeys(d)
  <2>1. PICK db : IsData(db) /\ Writes(db)
    BY <1>4, PatternData DEF DeleteKeys
  <2> QED BY <1>2, <1>3, <2>1, WriteTypes
<1>5. CASE ~DeleteKeys(d)
  <2>1. kv' = kv /\ read' = read
    BY <1>5 DEF BeginDelete, DeleteEnv, redis
  <2> QED BY <1>2, <1>3, <2>1 DEF IsData, Readings
<1> QED BY <1>4, <1>5

LEMMA TypeInit == Init => TypeInv
<1> SUFFICES ASSUME Init PROVE TypeInv
  OBVIOUS
<1>1. IsData(kv) /\ Secrecy /\ Registry /\ Upserts /\ Deletions
  BY NamesAssumption DEF Init, IsData, Secrecy, Registry, Upserts, Deletions
<1>2. Readings
  BY NoReadIsRead DEF Init, Readings
<1>3. Clones
  <2>1. PICK n : n = NoClone /\ IsClone(n) /\ n.pc = "idle"
    BY NoCloneIsClone DEF NoClone
  <2>2. AClone(n) /\ n.pc \in Resting
    BY <2>1 DEF AClone, Resting
  <2> QED BY <2>1, <2>2, RedisAssumption DEF Init, Clones
<1> QED BY <1>1, <1>2, <1>3 DEF TypeInv

LEMMA TypeStep == TypeInv /\ [Next]_vars => TypeInv'
<1> SUFFICES ASSUME TypeInv, [Next]_vars PROVE TypeInv'
  OBVIOUS
<1> USE DEF TypeInv
<1>1. CASE Upsert
  BY <1>1, UpsertTypes
<1>2. ASSUME NEW e \in Envs, LockExpires(e) PROVE TypeInv'
  BY <1>2 DEF LockExpires, IsData, Secrecy, Registry, Upserts, Readings, Clones, Deletions,
              poller, cloner, deleter
<1>3. ASSUME NEW e \in Envs, NEW s \in Secrets, UpsertSecrets(e, s) PROVE TypeInv'
  <2>1. Secrecy'
    BY <1>3 DEF UpsertSecrets, Secrecy
  <2> QED BY <1>3, <2>1 DEF UpsertSecrets, IsData, Registry, Upserts, Readings, Clones,
                            Deletions, poller, cloner, deleter
<1>4. ASSUME NEW r \in Readers,
             \/ \E e \in Envs, req \in Requests : BeginRead(r, e, req)
             \/ CheckLock(r) \/ GetKey(r) \/ AnswerRead(r) \/ ReadFails(r)
             \/ \E p \in read[r].todo : FindKey(r, p)
      PROVE  TypeInv'
  <2>1. UNCHANGED <<redis, poller, deleter>> /\ UNCHANGED cloner
    BY <1>4 DEF BeginRead, CheckLock, GetKey, AnswerRead, ReadFails, FindKey, Reads
  <2>2. Readings'
    BY <1>4, BeginReads, ReaderTypes
  <2>3. Clones'
    BY <2>1 DEF Clones, cloner
  <2> QED BY <2>1, <2>2, <2>3, QuietTypes
<1>5. ASSUME NEW c \in Cloners,
             \/ \E e \in Envs, n \in Targets, G \in Overrides : BeginClone(c, e, n, G)
             \/ LockMux(c)
      PROVE  TypeInv'
  <2>1. UNCHANGED <<redis, poller, deleter>> /\ read' = read
    BY <1>5 DEF BeginClone, LockMux
  <2>2. Clones'
    BY <1>5, BeginClones, LockClones
  <2>3. Readings'
    BY <2>1 DEF Readings
  <2> QED BY <2>1, <2>2, <2>3, QuietTypes
<1>6. CASE Crash
  BY <1>6, ExitTypes DEF Crash, IsData, Secrecy
<1>7. CASE UNCHANGED vars
  <2>1. UNCHANGED <<redis, poller, deleter>> /\ UNCHANGED cloner /\ read' = read
    BY <1>7 DEF vars
  <2>2. Readings' /\ Clones'
    BY <2>1 DEF Readings, Clones, cloner
  <2> QED BY <2>1, <2>2, QuietTypes
<1> QED BY <1>1, <1>2, <1>3, <1>4, <1>5, <1>6, <1>7, ClonerTypes, DeleterTypes DEF Next

(* The shape of every state, and that the one lock of clones is held       *)
(* exactly by the clone that is under way (gitrepo.Mux).                   *)
THEOREM TypeCorrect == Spec => []TypeOK
<1>1. TypeInv => TypeOK
  BY DEF TypeInv, IsData, Secrecy, Registry, Upserts, Readings, ARead, Pairs, Clones, AClone,
         Resting, Scripted, Deletions, TypeOK
<1> QED BY <1>1, TypeInit, TypeStep, PTL DEF Spec

-----------------------------------------------------------------------------
(* What a read of an environment nobody writes answers. *)

Cell(d, p) == <<p[1], p[2], d.base[<<d.env, p[2]>>]>>
There(d, n) == d.base[<<d.env, n>>] # Missing

(* The pairs a read looks up in the end: the groups, their references once
   the group was found, and the globals.                                   *)
Wants(d) ==
  {p \in Pairs :
     \/ p[1] \in d.asked[1] /\ p[2] = p[1]
     \/ p[1] \in d.asked[1] /\ p[2] \in Refs[p[1]] /\ There(d, p[1])
     \/ p[1] = Top /\ p[2] \in d.asked[2]}

Underway(d, p) == p \in d.todo \/ (d.pc = "get" /\ d.at = p)

(* It is looked up now or later, or its group is. *)
Ahead(d, p) ==
  Underway(d, p) \/ (p[1] \in Groups /\ p[2] \in Globals /\ Underway(d, <<p[1], p[1]>>))

Gathered(d) ==
  /\ d.pc = "done" => d.todo = {}
  /\ \A p : Underway(d, p) => p \in Wants(d)
  /\ \A a \in d.got : \E p \in Wants(d) : There(d, p[2]) /\ a = Cell(d, p)
  /\ \A p \in Wants(d) : There(d, p[2]) => Cell(d, p) \in d.got \/ Ahead(d, p)

(* Its environment is as it was when it began. *)
Still(d) == \A k \in Keys : k[1] = d.env => d.base[k] = kv[k]

Viewing(d) ==
  d.pc # "idle" /\ ~d.changed => d.env \in Envs /\ d.asked \in Requests /\ Still(d) /\ Gathered(d)

Views == \A r \in Readers : Viewing(read[r])

(* The references of a group are wanted after the group. *)
LEMMA WantedReference ==
  ASSUME NEW d, d.asked \in Requests, NEW p \in Wants(d), p[2] \in Globals, p[1] \in Groups
  PROVE  p[2] \in Refs[p[1]] /\ There(d, p[1])
BY RedisAssumption, NamesAssumption DEF Wants

LEMMA WantedGroup ==
  ASSUME NEW d, d.asked \in Requests, NEW p \in Wants(d), p[2] \in Groups
  PROVE  p = <<p[1], p[1]>> /\ p[1] = p[2] /\ p[1] \in d.asked[1]
BY RedisAssumption, NamesAssumption DEF Wants, Pairs

(* It depends on nothing but these fields. *)
LEMMA SameGathered ==
  ASSUME NEW d, NEW i, Gathered(d), i.pc = "done" => i.todo = {}, i.got = d.got, i.env = d.env,
         i.asked = d.asked, i.base = d.base, \A p : Underway(i, p) <=> Underway(d, p)
  PROVE  Gathered(i)
<1>1. Wants(i) = Wants(d)
  BY DEF Wants, There
<1>2. \A p : There(i, p[2]) <=> There(d, p[2])
  BY DEF There
<1>3. \A p : Cell(i, p) = Cell(d, p)
  BY DEF Cell
<1>4. \A p : Ahead(i, p) <=> Ahead(d, p)
  BY DEF Ahead
<1> QED BY <1>1, <1>2, <1>3, <1>4 DEF Gathered

(* A read that goes on to j, which asks the same of the same database. *)
LEMMA ReadsViews ==
  ASSUME Readings, Views, NEW r \in Readers, NEW d, d = read[r], NEW j, Reads(r, j), d.pc # "idle",
         j.changed = d.changed, j.env = d.env, j.asked = d.asked, j.base = d.base,
         ~d.changed /\ Gathered(d) /\ d.env \in Envs /\ d.asked \in Requests /\ Still(d) => Gathered(j)
  PROVE  Views'
<1>1. kv' = kv /\ read' = [read EXCEPT ![r] = j]
  BY DEF Reads, redis
<1>2. Viewing(d)
  BY DEF Views
<1>3. Viewing(j)
  BY <1>2 DEF Viewing, Still
<1>4. \A q \in Readers : Viewing(read'[q])
  BY <1>1, <1>3 DEF Readings, Views
<1> QED BY <1>1, <1>4 DEF Views, Viewing, Still

LEMMA TouchedViews ==
  ASSUME Readings, Views, kv' \in [Keys -> Values \cup {Missing}], read' = Touched(kv')
  PROVE  Views'
<1> SUFFICES ASSUME NEW r \in Readers PROVE Viewing(read[r])'
  BY DEF Views
<1>1. PICK d, i, changed :
        /\ d = read[r] /\ ARead(d) /\ Viewing(d) /\ i = read'[r]
        /\ i = [d EXCEPT !.changed = changed]
        /\ changed = (d.changed \/ \E k \in Keys : k[1] = d.env /\ kv'[k] # kv[k])
  BY DEF Readings, Views, Touched
<1>2. /\ i.pc = d.pc /\ i.todo = d.todo /\ i.at = d.at /\ i.env = d.env /\ i.asked = d.asked
      /\ i.base = d.base /\ i.got = d.got /\ i.changed = changed
  BY <1>1 DEF ARead, IsRead
<1>3. ASSUME i.pc # "idle", ~changed PROVE /\ i.env \in Envs /\ i.asked \in Requests
                                           /\ \A k \in Keys : k[1] = i.env => i.base[k] = kv'[k]
                                           /\ Gathered(i)
  <2>1. ~d.changed /\ \A k \in Keys : k[1] = d.env => kv'[k] = kv[k]
    BY <1>1, <1>3
  <2>2. d.env \in Envs /\ d.asked \in Requests /\ Still(d) /\ Gathered(d)
    BY <1>1, <1>2, <1>3, <2>1 DEF Viewing
  <2>3. Gathered(i)
    <3>1. \A p : Underway(i, p) <=> Underway(d, p)
      BY <1>2 DEF Underway
    <3>2. d.pc = "done" => d.todo = {}
      BY <2>2 DEF Gathered
    <3> QED BY <1>2, <2>2, <3>1, <3>2, SameGathered
  <2> QED BY <1>2, <2>1, <2>2, <2>3 DEF Still
<1> QED BY <1>1, <1>2, <1>3 DEF Viewing, Still

LEMMA BeginViews ==
  ASSUME Readings, Views, NEW r \in Readers, NEW e \in Envs, NEW req \in Requests, BeginRead(r, e, req)
  PROVE  Views'
<1>1. PICK d, n, todo, f :
        /\ n = NoRead /\ ARead(n) /\ n.got = {} /\ n.at = None
        /\ todo = {<<h, h>> : h \in req[1]} \cup ({Top} \X req[2])
        /\ d = [n EXCEPT !.pc = "lock", !.env = e, !.asked = req, !.todo = todo, !.base = kv, !.floor = f]
        /\ Reads(r, d)
  BY NoReadIsRead, Zenon DEF BeginRead, NoRead
<1>2. req[1] \subseteq Groups /\ req[2] \subseteq Globals
  BY RedisAssumption
<1>3. /\ d.pc = "lock" /\ d.todo = todo /\ d.env = e /\ d.asked = req /\ d.base = kv /\ d.got = {}
  BY <1>1 DEF ARead, IsRead
<1>4. \A p : Underway(d, p) => p \in Wants(d)
  BY <1>1, <1>2, <1>3 DEF Underway, Wants, Pairs, Names
<1>5. \A p \in Wants(d) : Ahead(d, p)
  <2> SUFFICES ASSUME NEW p \in Wants(d) PROVE Ahead(d, p)
    OBVIOUS
  <2>1. p = <<p[1], p[2]>>
    BY DEF Wants, Pairs
  <2>2. CASE p[1] \in req[1] /\ p[2] = p[1]
    BY <1>1, <1>3, <2>1, <2>2 DEF Ahead, Underway
  <2>3. CASE p[1] \in req[1] /\ p[2] \in Refs[p[1]]
    <3>1. p[2] \in Globals /\ p[1] \in Groups /\ <<p[1], p[1]>> \in todo
      BY <1>1, <1>2, <2>3, NamesAssumption
    <3> QED BY <1>3, <3>1 DEF Ahead, Underway
  <2>4. CASE p[1] = Top /\ p[2] \in req[2]
    <3>1. p \in todo
      BY <1>1, <2>1, <2>4
    <3> QED BY <1>3, <3>1 DEF Ahead, Underway
  <2> QED BY <1>3, <2>2, <2>3, <2>4 DEF Wants
<1>6. Viewing(d)
  BY <1>3, <1>4, <1>5 DEF Viewing, Still, Gathered
<1>7. kv' = kv /\ read' = [read EXCEPT ![r] = d]
  BY <1>1 DEF Reads, redis
<1>8. \A q \in Readers : Viewing(read'[q])
  BY <1>6, <1>7 DEF Readings, Views
<1> QED BY <1>7, <1>8 DEF Views, Viewing, Still

LEMMA FindViews ==
  ASSUME Readings, Views, NEW r \in Readers, NEW p \in read[r].todo, FindKey(r, p) PROVE Views'
<1>1. PICK d : d = read[r] /\ ARead(d) /\ d.pc = "keys" /\ p \in d.todo
  BY DEF Readings, FindKey
<1>2. PICK i : i = [d EXCEPT !.todo = @ \ {p}]
  OBVIOUS
<1>3. PICK g : g = [i EXCEPT !.at = p, !.pc = "get"]
  OBVIOUS
<1>4. /\ IsRead(i) /\ i.pc = "keys" /\ i.todo = d.todo \ {p} /\ i.got = d.got /\ i.env = d.env
      /\ i.asked = d.asked /\ i.base = d.base /\ i.changed = d.changed
  BY <1>1, <1>2 DEF ARead, IsRead
<1>5. /\ g.pc = "get" /\ g.todo = d.todo \ {p} /\ g.at = p /\ g.got = d.got /\ g.env = d.env
      /\ g.asked = d.asked /\ g.base = d.base /\ g.changed = d.changed
  BY <1>3, <1>4 DEF IsRead
<1>6. p[2] \in Names
  BY <1>1 DEF ARead, Pairs
<1>7. CASE kv[<<d.env, p[2]>>] = Missing /\ Reads(r, i)
  <2>1. ASSUME Gathered(d), d.env \in Envs, d.asked \in Requests, Still(d) PROVE Gathered(i)
    <3>1. ~There(d, p[2])
      BY <1>6, <1>7, <2>1 DEF Still, There, Keys
    <3>2. ASSUME NEW q \in Wants(d), There(d, q[2]) PROVE Cell(d, q) \in d.got \/ Ahead(i, q)
      <4>1. CASE Cell(d, q) \in d.got
        BY <4>1
      <4>2. CASE Underway(d, q)
        BY <1>1, <1>4, <3>1, <3>2, <4>2 DEF Ahead, Underway
      <4>3. CASE q[1] \in Groups /\ q[2] \in Globals /\ Underway(d, <<q[1], q[1]>>)
        <5>1. There(d, q[1])
          BY <2>1, <4>3, WantedReference
        <5>2. <<q[1], q[1]>> # p
          BY <3>1, <5>1
        <5> QED BY <1>1, <1>4, <4>3, <5>2 DEF Ahead, Underway
      <4> QED BY <2>1, <3>2, <4>1, <4>2, <4>3 DEF Gathered, Ahead
    <3>3. Wants(i) = Wants(d)
      BY <1>4 DEF Wants, There
    <3>4. \A q : There(i, q[2]) = There(d, q[2]) /\ Cell(i, q) = Cell(d, q)
      BY <1>4 DEF There, Cell
    <3>5. \A q : Underway(i, q) => Underway(d, q)
      BY <1>4 DEF Underway
    <3> QED BY <1>4, <2>1, <3>2, <3>3, <3>4, <3>5 DEF Gathered
  <2> QED BY <1>1, <1>4, <1>7, <2>1, ReadsViews
<1>8. CASE Reads(r, g)
  <2>1. \A q : Underway(g, q) <=> Underway(d, q)
    BY <1>1, <1>5 DEF Underway
  <2>2. Gathered(d) => Gathered(g)
    BY <1>5, <2>1, SameGathered
  <2> QED BY <1>1, <1>5, <1>8, <2>2, ReadsViews
<1> QED BY <1>1, <1>2, <1>3, <1>7, <1>8 DEF FindKey

LEMMA GetViews == ASSUME Readings, Views, NEW r \in Readers, GetKey(r) PROVE Views'
<1>1. PICK d : d = read[r] /\ ARead(d) /\ d.pc = "get"
  BY DEF Readings, GetKey
<1>2. PICK p : p = d.at /\ p \in Pairs
  BY <1>1 DEF ARead
<1>3. PICK i : i = [d EXCEPT !.pc = "keys", !.at = None]
  OBVIOUS
<1>4. /\ IsRead(i) /\ i.pc = "keys" /\ i.todo = d.todo /\ i.got = d.got /\ i.env = d.env
      /\ i.asked = d.asked /\ i.base = d.base /\ i.changed = d.changed
  BY <1>1, <1>3 DEF ARead, IsRead
<1>5. p[2] \in Names
  BY <1>2 DEF Pairs
<1>6. CASE kv[<<d.env, p[2]>>] = Missing
  <2>1. Reads(r, i)
    BY <1>1, <1>2, <1>3, <1>6 DEF GetKey
  <2>2. ASSUME Gathered(d), d.env \in Envs, d.asked \in Requests, Still(d) PROVE Gathered(i)
    <3>1. ~There(d, p[2])
      BY <1>5, <1>6, <2>2 DEF Still, There, Keys
    <3>2. ASSUME NEW q \in Wants(d), There(d, q[2]) PROVE Cell(d, q) \in d.got \/ Ahead(i, q)
      <4>1. CASE Cell(d, q) \in d.got
        BY <4>1
      <4>2. CASE Underway(d, q)
        BY <1>2, <1>4, <3>1, <3>2, <4>2 DEF Ahead, Underway
      <4>3. CASE q[1] \in Groups /\ q[2] \in Globals /\ Underway(d, <<q[1], q[1]>>)
        <5>1. There(d, q[1])
          BY <2>2, <4>3, WantedReference
        <5>2. <<q[1], q[1]>> # p
          BY <3>1, <5>1
        <5> QED BY <1>2, <1>4, <4>3, <5>2 DEF Ahead, Underway
      <4> QED BY <2>2, <3>2, <4>1, <4>2, <4>3 DEF Gathered, Ahead
    <3>3. Wants(i) = Wants(d)
      BY <1>4 DEF Wants, There
    <3>4. \A q : There(i, q[2]) = There(d, q[2]) /\ Cell(i, q) = Cell(d, q)
      BY <1>4 DEF There, Cell
    <3>5. \A q : Underway(i, q) => Underway(d, q)
      BY <1>4 DEF Underway
    <3> QED BY <1>4, <2>2, <3>2, <3>3, <3>4, <3>5 DEF Gathered
  <2> QED BY <1>1, <1>4, <2>1, <2>2, ReadsViews
<1>7. CASE kv[<<d.env, p[2]>>] # Missing
  <2>1. PICK got, todo, g :
          /\ got = i.got \cup {<<p[1], p[2], kv[<<d.env, p[2]>>]>>}
          /\ todo = IF p[2] \in Groups THEN i.todo \cup ({p[1]} \X Refs[p[2]]) ELSE i.todo
          /\ g = [i EXCEPT !.got = got, !.todo = todo] /\ Reads(r, g)
    <3>1. PICK got, todo :
            /\ got = i.got \cup {<<p[1], p[2], kv[<<d.env, p[2]>>]>>}
            /\ todo = IF p[2] \in Groups THEN i.todo \cup ({p[1]} \X Refs[p[2]]) ELSE i.todo
      OBVIOUS
    <3>2. Reads(r, [i EXCEPT !.got = got, !.todo = todo])
      BY <1>1, <1>2, <1>3, <1>7, <3>1, Zenon DEF GetKey
    <3> QED BY <3>1, <3>2
  <2>2. /\ g.pc = "keys" /\ g.todo = todo /\ g.got = got /\ g.env = d.env
        /\ g.asked = d.asked /\ g.base = d.base /\ g.changed = d.changed
    BY <1>4, <2>1 DEF IsRead
  <2>3. ASSUME Gathered(d), d.env \in Envs, d.asked \in Requests, Still(d) PROVE Gathered(g)
    <3>1. There(d, p[2]) /\ Cell(d, p) \in got
      BY <1>5, <1>7, <2>1, <2>3 DEF Still, There, Cell, Keys
    <3>2. p \in Wants(d)
      BY <1>1, <1>2, <2>3 DEF Gathered, Underway
    <3>3. Wants(g) = Wants(d)
      BY <2>2 DEF Wants, There
    <3>4. \A q : There(g, q[2]) = There(d, q[2]) /\ Cell(g, q) = Cell(d, q)
      BY <2>2 DEF There, Cell
    <3>5. ASSUME NEW q, Underway(g, q) PROVE q \in Wants(d)
      <4>1. CASE q \in d.todo
        BY <2>3, <4>1 DEF Gathered, Underway
      <4>2. CASE p[2] \in Groups /\ q \in {p[1]} \X Refs[p[2]]
        <5>1. p[1] = p[2] /\ p[1] \in d.asked[1]
          BY <2>3, <3>2, <4>2, WantedGroup
        <5>2. Refs[p[2]] \subseteq Globals
          BY <4>2, NamesAssumption
        <5>3. q \in Pairs /\ q[1] \in d.asked[1] /\ q[2] \in Refs[q[1]] /\ There(d, q[1])
          BY <3>1, <4>2, <5>1, <5>2 DEF Pairs, Names
        <5> QED BY <5>3 DEF Wants
      <4> QED BY <1>4, <2>1, <2>2, <3>5, <4>1, <4>2 DEF Underway
    <3>6. ASSUME NEW a \in got PROVE \E q \in Wants(d) : There(d, q[2]) /\ a = Cell(d, q)
      <4>1. CASE a \in d.got
        BY <2>3, <4>1 DEF Gathered
      <4>2. CASE a = Cell(d, p)
        BY <3>1, <3>2, <4>2
      <4>3. Cell(d, p) = <<p[1], p[2], kv[<<d.env, p[2]>>]>>
        BY <1>5, <2>3 DEF Still, Cell, Keys
      <4> QED BY <1>4, <2>1, <4>1, <4>2, <4>3
    <3>7. ASSUME NEW q \in Wants(d), There(d, q[2]) PROVE Cell(d, q) \in got \/ Ahead(g, q)
      <4>1. CASE Cell(d, q) \in d.got
        BY <1>4, <2>1, <4>1
      <4>2. CASE Underway(d, q)
        BY <1>1, <1>2, <1>4, <2>1, <2>2, <3>1, <4>2 DEF Ahead, Underway
      <4>3. CASE q[1] \in Groups /\ q[2] \in Globals /\ Underway(d, <<q[1], q[1]>>)
        <5>1. CASE <<q[1], q[1]>> \in d.todo
          BY <1>4, <2>1, <2>2, <4>3, <5>1 DEF Ahead, Underway
        <5>2. CASE <<q[1], q[1]>> = p
          <6>1. q[2] \in Refs[q[1]] /\ q = <<q[1], q[2]>>
            BY <2>3, <4>3, WantedReference DEF Wants, Pairs
          <6>2. q \in todo
            BY <2>1, <4>3, <5>2, <6>1
          <6> QED BY <2>2, <6>2 DEF Ahead, Underway
        <5> QED BY <1>1, <1>2, <4>3, <5>1, <5>2 DEF Underway
      <4> QED BY <2>3, <3>7, <4>1, <4>2, <4>3 DEF Gathered, Ahead
    <3> QED BY <2>2, <3>3, <3>4, <3>5, <3>6, <3>7 DEF Gathered
  <2> QED BY <1>1, <2>1, <2>2, <2>3, ReadsViews
<1> QED BY <1>6, <1>7

LEMMA ReaderViews ==
  ASSUME Readings, Views, NEW r \in Readers, CheckLock(r) \/ AnswerRead(r) \/ ReadFails(r) PROVE Views'
<1>1. PICK d : d = read[r] /\ ARead(d)
  BY DEF Readings
<1>2. ASSUME NEW place, d.pc \in {"lock", "keys"}, place = "keys" \/ d.todo = {}, place # "get",
             Reads(r, [d EXCEPT !.pc = place])
      PROVE  Views'
  <2>1. PICK i : i = [d EXCEPT !.pc = place]
    OBVIOUS
  <2>2. /\ i.pc = place /\ i.todo = d.todo /\ i.got = d.got /\ i.env = d.env
        /\ i.asked = d.asked /\ i.base = d.base /\ i.changed = d.changed
    BY <1>1, <2>1 DEF ARead, IsRead
  <2>3. \A q : Underway(i, q) <=> Underway(d, q)
    BY <1>2, <2>2 DEF Underway
  <2>4. Gathered(d) => Gathered(i)
    BY <1>2, <2>2, <2>3, SameGathered
  <2> QED BY <1>1, <1>2, <2>1, <2>2, <2>4, ReadsViews
<1>3. CASE CheckLock(r)
  BY <1>1, <1>2, <1>3 DEF CheckLock
<1>4. CASE AnswerRead(r)
  BY <1>1, <1>2, <1>4 DEF AnswerRead
<1>5. CASE ReadFails(r)
  <2>1. PICK n : n = NoRead /\ n.pc = "idle" /\ Reads(r, n)
    BY <1>5 DEF ReadFails, NoRead
  <2>2. kv' = kv /\ read' = [read EXCEPT ![r] = n]
    BY <2>1 DEF Reads, redis
  <2>3. \A q \in Readers : Viewing(read'[q])
    BY <2>1, <2>2 DEF Readings, Views, Viewing
  <2> QED BY <2>2, <2>3 DEF Views, Viewing, Still
<1> QED BY <1>3, <1>4, <1>5

LEMMA ExitViews == ASSUME Exit PROVE Views'
BY DEF Exit, NoRead, Views, Viewing

LEMMA ViewStep == TypeInv /\ Views /\ [Next]_vars => Views'
<1> SUFFICES ASSUME TypeInv, Views, [Next]_vars PROVE Views'
  OBVIOUS
<1>1. Readings /\ kv' \in [Keys -> Values \cup {Missing}]
  BY TypeStep DEF TypeInv, IsData
<1>2. CASE UNCHANGED <<kv, read>>
  BY <1>2 DEF Views, Viewing, Still
<1>3. CASE read' = Touched(kv')
  BY <1>1, <1>3, TouchedViews
<1>4. CASE Exit
  BY <1>4, ExitViews
<1>5. CASE Upsert
  BY <1>2, <1>3, <1>5 DEF Upsert, SetLock, DeleteConfig, StoreConfig, DeleteLock
<1>6. CASE \/ \E e \in Envs : LockExpires(e)
           \/ \E e \in Envs, s \in Secrets : s \notin secrets[e] /\ UpsertSecrets(e, s)
           \/ Crash \/ UNCHANGED vars
  BY <1>2, <1>4, <1>6 DEF LockExpires, UpsertSecrets, Crash, vars, redis
<1>7. ASSUME NEW r \in Readers,
             \/ \E e \in Envs, req \in Requests : BeginRead(r, e, req)
             \/ CheckLock(r) \/ GetKey(r) \/ AnswerRead(r) \/ ReadFails(r)
             \/ \E p \in read[r].todo : FindKey(r, p)
      PROVE  Views'
  BY <1>1, <1>7, BeginViews, FindViews, GetViews, ReaderViews
<1>8. ASSUME NEW c \in Cloners,
             \/ \E e \in Envs, n \in Targets, G \in Overrides : BeginClone(c, e, n, G)
             \/ LockMux(c) \/ RunScript(c) \/ FindGlobal(c) \/ PutGlobal(c) \/ GlobalsFail(c)
             \/ CopySecrets(c) \/ AddEnv(c)
      PROVE  Views'
  BY <1>2, <1>3, <1>4, <1>8
     DEF BeginClone, LockMux, RunScript, FindGlobal, PutGlobal, GlobalsFail, Cleanup, CopySecrets,
         AddEnv, Writes, redis
<1>9. ASSUME NEW d \in Deleters, (\E e \in Envs : BeginDelete(d, e)) \/ DeleteKeys(d) \/ DeleteEnv(d)
      PROVE  Views'
  BY <1>2, <1>3, <1>9 DEF BeginDelete, DeleteKeys, DeleteEnv, Writes, redis
<1> QED BY <1>5, <1>6, <1>7, <1>8, <1>9 DEF Next

(* What a finished read has got is the view of the database it began with. *)
LEMMA GatheredIsView ==
  ASSUME NEW d, Gathered(d), d.pc = "done", d.asked \in Requests
  PROVE  d.got = View(d.base, d.env, d.asked)
<1>1. \A p : ~Ahead(d, p)
  BY DEF Gathered, Ahead, Underway
<1>2. d.got = {Cell(d, p) : p \in {q \in Wants(d) : There(d, q[2])}}
  BY <1>1 DEF Gathered
<1>3. d.asked[1] \subseteq Groups /\ d.asked[2] \subseteq Globals
  BY RedisAssumption
<1> DEFINE refs == {p \in d.asked[1] \X Globals : p[2] \in Refs[p[1]] /\ There(d, p[1])}
           wanted == {<<h, h>> : h \in d.asked[1]} \cup refs \cup ({Top} \X d.asked[2])
<1>4. ASSUME NEW p \in Wants(d) PROVE p \in wanted
  <2>1. p = <<p[1], p[2]>>
    BY DEF Wants, Pairs
  <2>2. CASE p[1] \in d.asked[1] /\ p[2] = p[1]
    BY <2>1, <2>2
  <2>3. CASE p[1] \in d.asked[1] /\ p[2] \in Refs[p[1]] /\ There(d, p[1])
    <3>1. p[2] \in Globals
      BY <1>3, <2>3, NamesAssumption
    <3>2. p \in d.asked[1] \X Globals
      BY <2>1, <2>3, <3>1
    <3> QED BY <2>3, <3>2
  <2>4. CASE p[1] = Top /\ p[2] \in d.asked[2]
    BY <2>1, <2>4
  <2> QED BY <2>2, <2>3, <2>4 DEF Wants
<1>5. ASSUME NEW p \in wanted PROVE p \in Wants(d)
  <2>1. CASE p \in {<<h, h>> : h \in d.asked[1]}
    BY <1>3, <2>1 DEF Wants, Pairs, Names
  <2>2. CASE p \in refs
    BY <1>3, <2>2 DEF Wants, Pairs, Names
  <2>3. CASE p \in {Top} \X d.asked[2]
    BY <1>3, <2>3 DEF Wants, Pairs, Names
  <2> QED BY <1>5, <2>1, <2>2, <2>3
<1>6. wanted = Wants(d)
  BY <1>4, <1>5
<1>7. View(d.base, d.env, d.asked) = {Cell(d, p) : p \in {q \in wanted : There(d, q[2])}}
  BY DEF View, Cell, There
<1> HIDE DEF wanted
<1> QED BY <1>2, <1>6, <1>7

(* A read of an environment nobody wrote meanwhile answers with all of it  *)
(* that was asked for and nothing else, for any requests, references and   *)
(* steps of others (ReadConfig).                                           *)
THEOREM AlwaysView == Spec => []ReadIsView
<1>1. Init => Views
  BY DEF Init, NoRead, Views, Viewing
<1>2. Views => ReadIsView
  BY GatheredIsView DEF Views, Viewing, ReadIsView
<1> QED BY <1>1, <1>2, TypeInit, TypeStep, ViewStep, PTL DEF Spec

=============================================================================
