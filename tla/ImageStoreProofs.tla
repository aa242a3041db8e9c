-------------------------- MODULE ImageStoreProofs --------------------------
(***************************************************************************)
(* For any images, uploads and crashes: what has an image's name is a      *)
(* complete upload; unless two daemons' names clash, a client's name leads *)
(* to his own daemon's upload and a verified netboot runs one that was     *)
(* stored under the name it asked for; and the directory implements the    *)
(* shelf of ImageShelf.tla.                                                *)
(***************************************************************************)
EXTENDS ImageStore, SequenceTheorems, TLAPS

\* A name that is followed by two dashes is at most one longer than another one
\* that is, if the two make the same path, and then it is the other with a dash
\* more: the other's dashes would be within it, or the first of them its end.
LEMMA NotLonger ==
    ASSUME NEW s \in Seq(STRING), NEW t \in Seq(STRING),
           NEW m \in Seq(STRING), NEW n \in Seq(STRING),
           ~HasTwoDashes(t), Len(s) < Len(t),
           (s \o <<Dash, Dash>>) \o m = (t \o <<Dash, Dash>>) \o n
    PROVE  t = Append(s, Dash)
<1> DEFINE p == (s \o <<Dash, Dash>>) \o m
<1> DEFINE q == (t \o <<Dash, Dash>>) \o n
<1>2. p[Len(s) + 1] = Dash /\ p[Len(s) + 2] = Dash
  BY DEF Dash
<1>3. \A k \in 1 .. Len(t) : q[k] = t[k]
  BY DEF Dash
<1>4. Len(t) < Len(s) + 2
  <2>1. SUFFICES ASSUME Len(s) + 2 <= Len(t) PROVE FALSE
    OBVIOUS
  <2>2. Len(s) + 1 \in 1 .. Len(t) - 1 /\ Len(s) + 2 \in 1 .. Len(t)
    BY <2>1
  <2>3. t[Len(s) + 1] = Dash /\ t[(Len(s) + 1) + 1] = Dash
    BY <1>2, <1>3, <2>2
  <2> QED
    BY <2>2, <2>3 DEF HasTwoDashes
<1>5. Len(t) = Len(s) + 1
  BY <1>4
<1>6. ASSUME NEW k \in 1 .. Len(t) PROVE t[k] = Append(s, Dash)[k]
  <2>1. CASE k \in 1 .. Len(s)
    <3>1. p[k] = s[k]
      BY <2>1 DEF Dash
    <3> QED
      BY <1>3, <2>1, <3>1
  <2>2. CASE k = Len(s) + 1
    BY <1>2, <1>3, <1>5, <2>2
  <2> QED
    BY <1>5, <1>6, <2>1, <2>2
<1>7. Append(s, Dash) \in Seq(STRING) /\ Len(Append(s, Dash)) = Len(t)
  <2>1. t[Len(t)] = Dash
    BY <1>2, <1>3, <1>5
  <2>2. t[Len(t)] \in STRING
    BY <1>5
  <2>3. Append(s, Dash) \in Seq(STRING)
    BY <2>1, <2>2, AppendProperties
  <2>4. Len(Append(s, Dash)) = Len(s) + 1
    OBVIOUS
  <2> QED
    BY <1>5, <2>3, <2>4
<1> QED
  BY <1>6, <1>7, SeqEqual

\* The path tells the instance and the name, or the instances clash.
LEMMA SplitPath ==
    ASSUME NEW s \in Seq(STRING), NEW t \in Seq(STRING),
           NEW m \in Seq(STRING), NEW n \in Seq(STRING),
           ~HasTwoDashes(s), ~HasTwoDashes(t), ~Clashing(s, t),
           (s \o <<Dash, Dash>>) \o m = (t \o <<Dash, Dash>>) \o n
    PROVE  s = t /\ m = n
<1> DEFINE p == (s \o <<Dash, Dash>>) \o m
<1> DEFINE q == (t \o <<Dash, Dash>>) \o n
<1>1. Len(s) = Len(t)
  <2>1. Len(s) \in Nat /\ Len(t) \in Nat
    OBVIOUS
  <2>2. Len(Append(s, Dash)) = Len(s) + 1 /\ Len(Append(t, Dash)) = Len(t) + 1
    BY DEF Dash
  <2>3. ~(Len(s) < Len(t))
    <3>1. SUFFICES ASSUME Len(s) < Len(t) PROVE FALSE
      OBVIOUS
    <3>2. t = Append(s, Dash)
      BY <3>1, NotLonger
    <3> QED
      BY <2>1, <2>2, <3>1, <3>2 DEF Clashing
  <2>4. ~(Len(t) < Len(s))
    <3>1. SUFFICES ASSUME Len(t) < Len(s) PROVE FALSE
      OBVIOUS
    <3>2. s = Append(t, Dash)
      BY <3>1, NotLonger
    <3> QED
      BY <2>1, <2>2, <3>1, <3>2 DEF Clashing
  <2> QED
    BY <2>1, <2>3, <2>4
<1>2. Len(m) = Len(n)
  <2>1. Len(p) = Len(s) + 2 + Len(m) /\ Len(q) = Len(t) + 2 + Len(n)
    BY DEF Dash
  <2> QED
    BY <1>1, <2>1
<1>3. ASSUME NEW k \in 1 .. Len(s) PROVE s[k] = t[k]
  <2>1. p[k] = s[k] /\ q[k] = t[k]
    BY <1>1 DEF Dash
  <2> QED
    BY <2>1
<1>4. ASSUME NEW k \in 1 .. Len(m) PROVE m[k] = n[k]
  <2>1. p[Len(s) + 2 + k] = m[k]
    BY DEF Dash
  <2>2. q[Len(t) + 2 + k] = n[k]
    BY <1>2 DEF Dash
  <2> QED
    BY <1>1, <2>1, <2>2
<1> QED
  BY <1>1, <1>2, <1>3, <1>4, SeqEqual

\* Two clients' names that share a path are the same name of the same daemon, or
\* the daemons' names clash.
LEMMA PathsApart ==
    ASSUME NEW i \in Images, NEW j \in Images, Path[i] = Path[j]
    PROVE  i = j \/ Clashing(i.inst, j.inst)
<1> SUFFICES ASSUME ~Clashing(i.inst, j.inst) PROVE i = j
  OBVIOUS
<1>1. /\ i.inst \in Seq(STRING) /\ i.name \in Seq(STRING)
      /\ j.inst \in Seq(STRING) /\ j.name \in Seq(STRING)
  BY ImagesAssumption
<1>2. i.inst = j.inst /\ i.name = j.name
  <2>1. CASE i.inst = <<>> \/ j.inst = <<>>
    <3>1. i.inst = <<>> /\ j.inst = <<>>
      BY <2>1 DEF Clashing
    <3>2. <<>> \o i.name = <<>> \o j.name
      BY <3>1 DEF Path, OnDiskName, Namespaced
    <3> QED
      BY <1>1, <3>1, <3>2
  <2>2. CASE i.inst # <<>> /\ j.inst # <<>>
    <3>1. ~HasTwoDashes(i.inst) /\ ~HasTwoDashes(j.inst)
      BY <2>2, ImagesAssumption DEF ValidInstance
    <3>2. (i.inst \o <<Dash, Dash>>) \o i.name = (j.inst \o <<Dash, Dash>>) \o j.name
      BY <2>2 DEF Path, OnDiskName, Namespaced
    <3> QED
      BY <1>1, <3>1, <3>2, SplitPath
  <2> QED
    BY <2>1, <2>2
<1> QED
  BY <1>2, ImagesAssumption

-----------------------------------------------------------------------------
SaveTypeOK ==
    save \in [Uploads -> [pc : {"new", "checked", "copying", "saved", "failed", "crashed"},
                          name : Images \cup {NoFile}]]

\* What an upload that is past its check knows of itself.
SaveNamed == \A u \in Uploads : save[u].pc \in {"checked", "copying", "saved"} => save[u].name \in Images

\* The file at p is a complete upload that was given an image of that path.
Stored(p) ==
    /\ chunks[dir[p]] = Size
    /\ save[dir[p]].pc = "saved"
    /\ save[dir[p]].name \in Images
    /\ Path[save[dir[p]].name] = p

IInv ==
    /\ dir \in [Paths -> Uploads \cup {NoFile}]
    /\ chunks \in [Uploads -> 0 .. Size]
    /\ SaveTypeOK
    /\ SaveNamed
    /\ \A p \in Paths : dir[p] # NoFile => Stored(p)

\* A path of an image is one.
LEMMA PathTyped == ASSUME NEW i \in Images PROVE Path[i] \in Paths
  BY DEF Path, Paths

\* The directory is empty.
LEMMA InitIInv == Init => IInv
<1> SUFFICES ASSUME Init PROVE IInv
  OBVIOUS
<1>1. NoFile \in Images \cup {NoFile} /\ 0 \in 0 .. Size
  BY SizeAssumption
<1> QED
  BY <1>1 DEF Init, IInv, SaveTypeOK, SaveNamed, Unnamed

\* A step that stores nothing and leaves the saved uploads alone.
LEMMA Removal ==
    ASSUME IInv, chunks' \in [Uploads -> 0 .. Size], SaveTypeOK', SaveNamed',
           dir' \in [Paths -> Uploads \cup {NoFile}],
           \A p \in Paths : dir'[p] \in {dir[p], NoFile},
           \A u \in Uploads : save[u].pc = "saved" => save'[u] = save[u] /\ chunks'[u] = chunks[u]
    PROVE  IInv'
<1> SUFFICES ASSUME NEW p \in Paths, dir'[p] # NoFile PROVE Stored(p)'
  BY DEF IInv
<1>1. dir'[p] = dir[p] /\ dir[p] \in Uploads /\ Stored(p)
  BY DEF IInv
<1> QED
  BY <1>1 DEF Stored

\* Every step keeps the invariant.
LEMMA NextIInv == IInv /\ [Next]_vars => IInv'
<1> SUFFICES ASSUME IInv, [Next]_vars PROVE IInv'
  OBVIOUS
<1> USE SizeAssumption, NoFileAssumption
<1>1. ASSUME NEW u \in Uploads, SaveCheck(u) PROVE IInv'
  <2>1. PICK i \in Images :
          save' = [save EXCEPT ![u] =
            IF u \notin Overwriting /\ dir[Path[i]] # NoFile
              THEN Unnamed("failed") ELSE [pc |-> "checked", name |-> i]]
    BY <1>1 DEF SaveCheck
  <2>2. SaveTypeOK' /\ SaveNamed'
    BY <2>1 DEF IInv, SaveTypeOK, SaveNamed, Unnamed
  <2>3. UNCHANGED <<dir, chunks>> /\ save[u].pc = "new"
    BY <1>1 DEF SaveCheck, files
  <2> QED
    BY <2>1, <2>2, <2>3, Removal DEF IInv, SaveTypeOK
<1>2. ASSUME NEW u \in Uploads, SaveCreate(u) PROVE IInv'
  <2>1. SaveTypeOK' /\ SaveNamed'
    BY <1>2 DEF SaveCreate, SaveTo, IInv, SaveTypeOK, SaveNamed
  <2> QED
    BY <1>2, <2>1, Removal DEF SaveCreate, SaveTo, IInv, SaveTypeOK
<1>3. ASSUME NEW u \in Uploads, SaveCopy(u) PROVE IInv'
  <2>1. chunks' \in [Uploads -> 0 .. Size] /\ \A v \in Uploads : save[v].pc = "saved" => chunks'[v] = chunks[v]
    BY <1>3 DEF SaveCopy, IInv
  <2> QED
    BY <1>3, <2>1, Removal DEF SaveCopy, IInv, SaveTypeOK, SaveNamed
<1>4. ASSUME NEW u \in Uploads, SaveFails(u) PROVE IInv'
  <2>1. SaveTypeOK' /\ SaveNamed'
    BY <1>4 DEF SaveFails, SaveEnds, Unnamed, IInv, SaveTypeOK, SaveNamed
  <2> QED
    BY <1>4, <2>1, Removal DEF SaveFails, SaveEnds, IInv, SaveTypeOK
<1>5. ASSUME NEW u \in Uploads, SaveRename(u) PROVE IInv'
  <2>1. SaveTypeOK' /\ SaveNamed' /\ UNCHANGED chunks /\ chunks[u] = Size
    BY <1>5 DEF SaveRename, SaveTo, SaveEnds, Unnamed, IInv, SaveTypeOK, SaveNamed
  <2>2. CASE u \notin temps
    BY <1>5, <2>1, <2>2, Removal DEF SaveRename, SaveEnds, IInv, SaveTypeOK
  <2>3. CASE u \in temps
    <3> DEFINE q == Path[save[u].name]
    <3>1. save[u].name \in Images /\ q \in Paths
      BY <1>5, PathTyped DEF SaveRename, IInv, SaveNamed
    <3>2. dir' = [dir EXCEPT ![q] = u] /\ save' = [save EXCEPT ![u].pc = "saved"] /\ save[u].pc = "copying"
      BY <1>5, <2>3 DEF SaveRename, SaveTo
    <3>3. dir' \in [Paths -> Uploads \cup {NoFile}]
      BY <3>2 DEF IInv
    <3>4. ASSUME NEW p \in Paths, dir'[p] # NoFile PROVE Stored(p)'
      <4>1. CASE p = q
        BY <2>1, <3>1, <3>2, <4>1 DEF Stored, IInv, SaveTypeOK
      <4>2. CASE p # q
        <5>1. dir'[p] = dir[p] /\ dir[p] \in Uploads /\ Stored(p) /\ dir[p] # u
          BY <3>2, <3>4, <4>2 DEF IInv, Stored
        <5> QED
          BY <2>1, <3>2, <5>1 DEF Stored, IInv, SaveTypeOK
      <4> QED
        BY <4>1, <4>2
    <3> QED
      BY <2>1, <3>3, <3>4 DEF IInv
  <2> QED
    BY <2>2, <2>3
<1>6. ASSUME NEW u \in Uploads, GrowOld(u) PROVE IInv'
  BY <1>6, Removal DEF GrowOld, IInv, SaveTypeOK, SaveNamed
<1>7. ASSUME NEW i \in Images, Delete(i) PROVE IInv'
  BY <1>7, Removal DEF Delete, IInv, SaveTypeOK, SaveNamed
<1>8. CASE PruneStep
  <2>1. CASE PruneStart \/ PruneStat \/ PruneEnd
    BY <2>1, Removal DEF PruneStart, PruneStat, PruneEnd, files, IInv, SaveTypeOK, SaveNamed
  <2>2. CASE PruneRemove
    <3>1. UNCHANGED <<chunks, save>> /\ dir' \in [Paths -> Uploads \cup {NoFile}]
      BY <2>2 DEF PruneRemove, IInv
    <3>2. \A p \in Paths : dir'[p] \in {dir[p], NoFile}
      BY <2>2 DEF PruneRemove, IInv
    <3> QED
      BY <3>1, <3>2, Removal DEF IInv, SaveTypeOK, SaveNamed
  <2> QED
    BY <1>8, <2>1, <2>2 DEF PruneStep
<1>9. ASSUME NEW b \in Boots, BootList(b) \/ BootCrc(b) \/ BootTftp(b) \/ BootVerify(b) PROVE IInv'
  <2>1. UNCHANGED <<dir, chunks, save>>
    BY <1>9 DEF BootList, BootCrc, BootTftp, BootVerify, files
  <2> QED
    BY <2>1, Removal DEF IInv, SaveTypeOK, SaveNamed
<1>10. ASSUME NEW i \in Images, Crash(i.inst) PROVE IInv'
  <2>1. UNCHANGED <<dir, chunks>> /\ SaveTypeOK' /\ SaveNamed'
    BY <1>10 DEF Crash, Unnamed, files, IInv, SaveTypeOK, SaveNamed
  <2>2. \A u \in Uploads : save[u].pc = "saved" => save'[u] = save[u]
    BY <1>10 DEF Crash
  <2> QED
    BY <2>1, <2>2, Removal DEF IInv
<1>11. CASE UNCHANGED vars
  BY <1>11, Removal DEF vars, IInv, SaveTypeOK, SaveNamed
<1> QED
  BY <1>1, <1>2, <1>3, <1>4, <1>5, <1>6, <1>7, <1>8, <1>9, <1>10, <1>11 DEF Next

\* The invariant of the names.
LEMMA IInvHolds == Spec => []IInv
  BY InitIInv, NextIInv, PTL DEF Spec

\* The write is atomic: what has an image's name is a complete upload.
THEOREM VisibleIsCompleteHolds == Spec => []VisibleIsComplete
<1>1. IInv => VisibleIsComplete
  BY DEF IInv, VisibleIsComplete, Stored
<1> QED
  BY <1>1, IInvHolds, PTL

\* No daemon's client finds another's upload, unless the one has no name or the
\* names differ by a dash at the end (Store.Namespaced, Config.Validate).
THEOREM NamesLeadHomeHolds == Spec => []NamesLeadHome
<1>1. IInv => NamesLeadHome
  <2> SUFFICES ASSUME IInv, NEW i \in Images, dir[Path[i]] # NoFile
               PROVE  \/ save[dir[Path[i]]].name = i
                      \/ Clashing(save[dir[Path[i]]].name.inst, i.inst)
    BY DEF NamesLeadHome
  <2>1. Stored(Path[i])
    BY PathTyped DEF IInv
  <2> QED
    BY <2>1, PathsApart DEF Stored
<1> QED
  BY <1>1, IInvHolds, PTL

-----------------------------------------------------------------------------
\* The rest of the state, for what the sweep and a verified netboot rely on.
PruneEntries == ImageEntries \cup TempEntries
PruneType == [pc : {"idle", "stat", "remove"}, todo : SUBSET PruneEntries,
              stale : SUBSET Uploads, entry : PruneEntries \cup {NoEntry}]
BootType == [pc : {"idle", "listed", "tftp", "verify", "booted", "failed"},
             name : Images \cup {NoFile},
             crc : Uploads \cup {NoFile}, loaded : Uploads \cup {NoFile}]

RestTyped ==
    /\ temps \subseteq Uploads
    /\ old \subseteq Uploads
    /\ prune \in PruneType
    /\ boot \in [Boots -> BootType]
    /\ \A b \in Boots : boot[b].pc \in {"listed", "tftp", "verify", "booted"} => boot[b].name \in Images

\* A temporary file belongs to an upload that copies, or was cut off by a crash.
Owned == \A u \in temps : save[u].pc \in {"copying", "crashed"}

TInv == RestTyped /\ Owned

\* There are no temporary files.
LEMMA InitTInv == Init => TInv
<1> SUFFICES ASSUME Init PROVE TInv
  OBVIOUS
<1>1. NotPruning \in PruneType /\ NoBoot("idle") \in BootType /\ NoBoot("idle").pc = "idle"
  BY DEF NotPruning, NoBoot, PruneType, BootType
<1> QED
  BY <1>1 DEF Init, TInv, RestTyped, Owned

\* Every step keeps the temporary files owned.
LEMMA NextTInv == IInv /\ TInv /\ [Next]_vars => TInv'
<1> SUFFICES ASSUME IInv, TInv, [Next]_vars PROVE TInv'
  OBVIOUS
<1> USE DEF TInv
<1>1. ASSUME NEW u \in Uploads, SaveCheck(u) PROVE TInv'
  <2>1. u \notin temps
    BY <1>1 DEF SaveCheck, Owned
  <2>2. \A v \in Uploads : v # u => save'[v] = save[v]
    BY <1>1 DEF SaveCheck, IInv, SaveTypeOK
  <2> QED
    BY <1>1, <2>1, <2>2 DEF SaveCheck, files, RestTyped, Owned
<1>2. ASSUME NEW u \in Uploads, SaveCreate(u) PROVE TInv'
  <2>1. \A v \in Uploads : save'[v].pc = IF v = u THEN "copying" ELSE save[v].pc
    BY <1>2 DEF SaveCreate, SaveTo, IInv, SaveTypeOK
  <2> QED
    BY <1>2, <2>1 DEF SaveCreate, RestTyped, Owned
<1>3. ASSUME NEW u \in Uploads, SaveCopy(u) PROVE TInv'
  BY <1>3 DEF SaveCopy, RestTyped, Owned
<1>4. ASSUME NEW u \in Uploads, SaveFails(u) \/ SaveRename(u) PROVE TInv'
  <2>1. temps' = temps \ {u} /\ UNCHANGED <<old, prune, boot>>
    BY <1>4 DEF SaveFails, SaveRename
  <2>2. \A v \in Uploads : v # u => save'[v] = save[v]
    BY <1>4 DEF SaveFails, SaveRename, SaveTo, SaveEnds, IInv, SaveTypeOK
  <2> QED
    BY <2>1, <2>2 DEF RestTyped, Owned
<1>5. ASSUME NEW u \in Uploads, GrowOld(u) PROVE TInv'
  BY <1>5 DEF GrowOld, RestTyped, Owned
<1>6. ASSUME NEW i \in Images, Delete(i) PROVE TInv'
  BY <1>6 DEF Delete, RestTyped, Owned
<1>7. CASE PruneStart
  <2>1. prune' \in PruneType
    BY <1>7 DEF PruneStart, PruneType, PruneEntries, Entries, RestTyped
  <2> QED
    BY <1>7, <2>1 DEF PruneStart, files, RestTyped, Owned
<1>8. CASE PruneStat
  <2>1. PICK e \in prune.todo :
          \/ prune' = [prune EXCEPT !.pc = "remove", !.todo = @ \ {e}, !.entry = e]
          \/ prune' = [prune EXCEPT !.todo = @ \ {e}]
    BY <1>8 DEF PruneStat
  <2>2. prune' \in PruneType
    BY <2>1 DEF PruneType, RestTyped
  <2> QED
    BY <1>8, <2>2 DEF PruneStat, files, RestTyped, Owned
<1>9. CASE PruneRemove
  <2>1. prune' \in PruneType
    BY <1>9 DEF PruneRemove, PruneType, RestTyped
  <2>2. temps' \subseteq temps
    BY <1>9 DEF PruneRemove
  <2> QED
    BY <1>9, <2>1, <2>2 DEF PruneRemove, RestTyped, Owned
<1>10. CASE PruneEnd
  <2>1. prune' \in PruneType
    BY <1>10 DEF PruneEnd, NotPruning, PruneType
  <2> QED
    BY <1>10, <2>1 DEF PruneEnd, files, RestTyped, Owned
<1>11. ASSUME NEW b \in Boots, BootList(b) \/ BootCrc(b) \/ BootTftp(b) \/ BootVerify(b) PROVE TInv'
  <2>1. /\ boot' \in [Boots -> BootType]
        /\ \A c \in Boots : boot'[c].pc \in {"listed", "tftp", "verify", "booted"} => boot'[c].name \in Images
    <3>1. \A i \in Images : dir[Path[i]] \in Uploads \cup {NoFile}
      BY PathTyped DEF IInv
    <3>2. CASE BootList(b)
      <4>1. PICK i \in Images :
              \/ boot' = [boot EXCEPT ![b] = NoBoot("failed")]
              \/ boot' = [boot EXCEPT ![b] = [NoBoot("listed") EXCEPT !.name = i]]
        BY <3>2 DEF BootList
      <4>2. [NoBoot("listed") EXCEPT !.name = i] \in BootType /\ NoBoot("failed") \in BootType
        BY DEF NoBoot, BootType
      <4>3. [NoBoot("listed") EXCEPT !.name = i].name = i /\ NoBoot("failed").pc = "failed"
        BY DEF NoBoot
      <4> QED
        BY <4>1, <4>2, <4>3 DEF RestTyped
    <3>3. CASE BootCrc(b)
      <4>1. dir[Path[boot[b].name]] \in Uploads \cup {NoFile}
        BY <3>1, <3>3 DEF BootCrc, RestTyped
      <4> QED
        BY <3>3, <4>1 DEF BootCrc, BootType, RestTyped
    <3>4. CASE BootTftp(b)
      <4>1. dir[Path[boot[b].name]] \in Uploads \cup {NoFile}
        BY <3>1, <3>4 DEF BootTftp, RestTyped
      <4>2. PICK f \in Uploads \cup {NoFile} :
              \/ boot' = [boot EXCEPT ![b] = NoBoot("failed")]
              \/ boot' = [boot EXCEPT ![b] = [boot[b] EXCEPT !.pc = "verify", !.loaded = f]]
        BY <3>4, <4>1 DEF BootTftp
      <4>3. boot[b] \in BootType /\ boot[b].name \in Images
        BY <3>4 DEF BootTftp, RestTyped
      <4>4. /\ [boot[b] EXCEPT !.pc = "verify", !.loaded = f] \in BootType
            /\ [boot[b] EXCEPT !.pc = "verify", !.loaded = f].name = boot[b].name
            /\ NoBoot("failed") \in BootType /\ NoBoot("failed").pc = "failed"
        BY <4>3 DEF BootType, NoBoot
      <4> QED
        BY <4>2, <4>3, <4>4 DEF RestTyped
    <3>5. CASE BootVerify(b)
      BY <3>5 DEF BootVerify, NoBoot, BootType, RestTyped
    <3> QED
      BY <1>11, <3>2, <3>3, <3>4, <3>5
  <2> QED
    BY <1>11, <2>1 DEF BootList, BootCrc, BootTftp, BootVerify, files, RestTyped, Owned
<1>12. ASSUME NEW i \in Images, Crash(i.inst) PROVE TInv'
  <2>1. prune' \in PruneType
    BY <1>12 DEF Crash, NotPruning, PruneType, RestTyped
  <2>2. /\ boot' \in [Boots -> BootType]
        /\ \A c \in Boots : boot'[c].pc \in {"listed", "tftp", "verify", "booted"} => boot'[c].name \in Images
    BY <1>12 DEF Crash, NoBoot, BootType, RestTyped
  <2>3. \A u \in temps : save'[u].pc \in {"copying", "crashed"}
    BY <1>12 DEF Crash, Unnamed, Owned, RestTyped, IInv, SaveTypeOK
  <2> QED
    BY <1>12, <2>1, <2>2, <2>3 DEF Crash, files, RestTyped, Owned
<1>13. CASE UNCHANGED vars
  BY <1>13 DEF vars, RestTyped, Owned
<1> QED
  BY <1>1, <1>2, <1>3, <1>4, <1>5, <1>6, <1>7, <1>8, <1>9, <1>10, <1>11, <1>12,
     <1>13 DEF Next, PruneStep

\* The invariant of the temporary files.
LEMMA TInvHolds == Spec => []TInv
  BY InitTInv, NextTInv, IInvHolds, InitIInv, PTL DEF Spec

\* A Save that returned left no temporary file; only a crash can (the deferred
\* os.Remove).
THEOREM TempsAreOwnedHolds == Spec => []TempsAreOwned
<1>1. IInv /\ TInv => TempsAreOwned
  <2> SUFFICES ASSUME IInv, TInv PROVE TempsAreOwned
    OBVIOUS
  <2>1. TypeOK
    BY DEF TypeOK, IInv, SaveTypeOK, TInv, RestTyped, PruneType, BootType
  <2> QED
    BY <2>1 DEF TempsAreOwned, TInv, Owned
<1> QED
  BY <1>1, IInvHolds, TInvHolds, PTL

-----------------------------------------------------------------------------
\* What a netboot was given was stored where the name it asked for is kept.
Fetched(b) ==
    /\ boot[b].loaded \in Uploads
    /\ save[boot[b].loaded].pc = "saved"
    /\ save[boot[b].loaded].name \in Images /\ boot[b].name \in Images
    /\ Path[save[boot[b].loaded].name] = Path[boot[b].name]

BInv ==
    \A b \in Boots :
      /\ boot[b].pc \in {"verify", "booted"} => Fetched(b)
      /\ boot[b].pc = "booted" => boot[b].crc = boot[b].loaded

\* An upload that is saved stays what it is.
LEMMA SavedStays ==
    ASSUME IInv, [Next]_vars, NEW u \in Uploads, save[u].pc = "saved"
    PROVE  save'[u] = save[u]
<1>1. ASSUME NEW v \in Uploads,
             SaveCheck(v) \/ SaveCreate(v) \/ SaveFails(v) \/ SaveRename(v)
      PROVE  save'[u] = save[u]
  BY <1>1 DEF SaveCheck, SaveCreate, SaveFails, SaveRename, SaveTo, SaveEnds, IInv, SaveTypeOK
<1>2. ASSUME NEW i \in Images, Crash(i.inst) PROVE save'[u] = save[u]
  BY <1>2 DEF Crash
<1>3. ASSUME UNCHANGED save PROVE save'[u] = save[u]
  BY <1>3
<1> QED
  BY <1>1, <1>2, <1>3
     DEF Next, vars, SaveCopy, GrowOld, Delete, PruneStep, PruneStart, PruneStat,
         PruneRemove, PruneEnd, BootList, BootCrc, BootTftp, BootVerify

\* Every step keeps what a netboot has fetched.
LEMMA NextBInv == IInv /\ TInv /\ BInv /\ [Next]_vars => BInv'
<1> SUFFICES ASSUME IInv, TInv, BInv, [Next]_vars PROVE BInv'
  OBVIOUS
<1>1. ASSUME NEW b \in Boots, Fetched(b), boot'[b].loaded = boot[b].loaded,
             boot'[b].name = boot[b].name
      PROVE  Fetched(b)'
  BY <1>1, SavedStays DEF Fetched
<1>2. CASE UNCHANGED boot
  BY <1>1, <1>2 DEF BInv
<1>3. ASSUME NEW b \in Boots, BootList(b) \/ BootCrc(b)
      PROVE  BInv'
  <2>1. boot'[b].pc \notin {"verify", "booted"} /\ \A c \in Boots : c # b => boot'[c] = boot[c]
    BY <1>3 DEF BootList, BootCrc, NoBoot, TInv, RestTyped, BootType
  <2> QED
    BY <1>1, <2>1 DEF BInv
<1>4. ASSUME NEW b \in Boots, BootTftp(b) PROVE BInv'
  <2> DEFINE p == Path[boot[b].name]
  <2>1. boot[b].name \in Images /\ p \in Paths
    BY <1>4, PathTyped DEF BootTftp, TInv, RestTyped
  <2>2. /\ \A c \in Boots : c # b => boot'[c] = boot[c]
        /\ boot'[b].pc = IF dir[p] = NoFile THEN "failed" ELSE "verify"
        /\ dir[p] # NoFile => boot'[b].loaded = dir[p] /\ boot'[b].name = boot[b].name
        /\ UNCHANGED save
    BY <1>4 DEF BootTftp, NoBoot, TInv, RestTyped, BootType
  <2>3. ASSUME dir[p] # NoFile PROVE Fetched(b)'
    <3>1. dir[p] \in Uploads /\ Stored(p)
      BY <2>1, <2>3 DEF IInv
    <3> QED
      BY <2>1, <2>2, <2>3, <3>1 DEF Fetched, Stored
  <2> QED
    BY <1>1, <2>2, <2>3 DEF BInv
<1>5. ASSUME NEW b \in Boots, BootVerify(b) PROVE BInv'
  <2>1. /\ \A c \in Boots : c # b => boot'[c] = boot[c]
        /\ boot[b].pc = "verify"
        /\ \/ boot'[b].pc = "failed"
           \/ /\ boot[b].loaded = boot[b].crc
              /\ boot'[b].loaded = boot[b].loaded
              /\ boot'[b].crc = boot[b].crc
              /\ boot'[b].name = boot[b].name
    BY <1>5 DEF BootVerify, NoBoot, TInv, RestTyped, BootType
  <2> QED
    BY <1>1, <2>1 DEF BInv
<1>6. ASSUME NEW i \in Images, Crash(i.inst) PROVE BInv'
  <2>1. \A c \in Boots : \/ boot'[c] = boot[c]
                         \/ boot'[c].pc = "failed"
    BY <1>6 DEF Crash, NoBoot, TInv, RestTyped, BootType
  <2> QED
    BY <1>1, <2>1 DEF BInv
<1> QED
  BY <1>2, <1>3, <1>4, <1>5, <1>6
     DEF Next, vars, SaveCheck, SaveCreate, SaveCopy, SaveFails, SaveRename, GrowOld,
         Delete, PruneStep, PruneStart, PruneStat, PruneRemove, PruneEnd

\* A verified netboot that boots runs one complete upload, the one whose CRC it
\* was told, stored under the name it asked for or by a daemon whose name clashes
\* with its own, whatever happened to that name meanwhile (Netboot's
\* verify_crc32).
THEOREM VerifiedBootIsStoredHolds == Spec => []VerifiedBootIsStored
<1>1. Init => BInv
  BY DEF Init, NoBoot, BInv
<1>2. IInv /\ TInv /\ BInv => VerifiedBootIsStored
  <2> SUFFICES ASSUME BInv, NEW b \in Boots, boot[b].pc = "booted"
               PROVE  LET x == boot[b].loaded
                      IN  /\ x # NoFile /\ x = boot[b].crc
                          /\ save[x].pc = "saved"
                          /\ \/ save[x].name = boot[b].name
                             \/ Clashing(save[x].name.inst, boot[b].name.inst)
    BY DEF VerifiedBootIsStored
  <2>1. Fetched(b) /\ boot[b].crc = boot[b].loaded
    BY DEF BInv
  <2> QED
    BY <2>1, PathsApart, NoFileAssumption DEF Fetched
<1> QED
  BY <1>1, <1>2, NextBInv, IInvHolds, TInvHolds, PTL DEF Spec

-----------------------------------------------------------------------------
(* The directory implements the shelf whose places are the paths.          *)

\* What the shelf sees.
Offers == [u \in Uploads |-> Offered(save[u])]
Orders == [b \in Boots |-> Ordered(boot[b])]

\* A step that changes nothing the shelf sees.
LEMMA Unseen ==
    ASSUME UNCHANGED <<dir, Offers, Orders>>
    PROVE  UNCHANGED Shelf!shelfVars
BY DEF Shelf!shelfVars, Offers, Orders

\* The offers are what the uploads are.
LEMMA OffersStay == ASSUME UNCHANGED save PROVE UNCHANGED Offers
BY DEF Offers
\* The orders are what the netboots are.
LEMMA OrdersStay == ASSUME UNCHANGED boot PROVE UNCHANGED Orders
BY DEF Orders

\* The offer of u becomes the record r.
LEMMA OfferBecomes ==
    ASSUME NEW u \in Uploads, NEW r, Offered(save[u])' = r,
           \A v \in Uploads : v # u => save'[v] = save[v]
    PROVE  Offers' = [Offers EXCEPT ![u] = r]
BY DEF Offers
\* The offer of u gets the state st.
LEMMA OfferMoves ==
    ASSUME NEW u \in Uploads, NEW st, Offered(save[u])' = [Offered(save[u]) EXCEPT !.st = st],
           \A v \in Uploads : v # u => save'[v] = save[v]
    PROVE  Offers' = [Offers EXCEPT ![u].st = st]
<1>1. Offers[u] = Offered(save[u])
  BY DEF Offers
<1>2. Offers' = [Offers EXCEPT ![u] = [Offers[u] EXCEPT !.st = st]]
  BY <1>1, OfferBecomes
<1> QED
  BY <1>2

\* The order of b becomes the record r.
LEMMA OrderBecomes ==
    ASSUME NEW b \in Boots, NEW r, Ordered(boot[b])' = r,
           \A c \in Boots : c # b => boot'[c] = boot[c]
    PROVE  Orders' = [Orders EXCEPT ![b] = r]
BY DEF Orders
\* The order of b gets the state st.
LEMMA OrderMoves ==
    ASSUME NEW b \in Boots, NEW st, Ordered(boot[b])' = [Ordered(boot[b]) EXCEPT !.st = st],
           \A c \in Boots : c # b => boot'[c] = boot[c]
    PROVE  Orders' = [Orders EXCEPT ![b].st = st]
<1>1. Orders[b] = Ordered(boot[b])
  BY DEF Orders
<1>2. Orders' = [Orders EXCEPT ![b] = [Orders[b] EXCEPT !.st = st]]
  BY <1>1, OrderBecomes
<1> QED
  BY <1>2

\* An upload begins.
LEMMA CheckRefines ==
    ASSUME IInv, NEW u \in Uploads, SaveCheck(u)
    PROVE  \E i \in Images : Shelf!Offer(u, i)
<1>1. PICK i \in Images :
        save' = [save EXCEPT ![u] =
          IF u \notin Overwriting /\ dir[Path[i]] # NoFile
            THEN Unnamed("failed") ELSE [pc |-> "checked", name |-> i]]
  BY DEF SaveCheck
<1> DEFINE r == IF u \in Overwriting \/ dir[Path[i]] = NoFile
                  THEN [st |-> "offered", image |-> i] ELSE Shelf!LostOffer
<1>2. /\ save'[u] = IF u \notin Overwriting /\ dir[Path[i]] # NoFile
                      THEN Unnamed("failed") ELSE [pc |-> "checked", name |-> i]
      /\ \A v \in Uploads : v # u => save'[v] = save[v]
  BY <1>1 DEF IInv, SaveTypeOK
<1>3. Offered(save[u])' = r
  BY <1>2 DEF Offered, Unnamed, Shelf!LostOffer
<1>4. Offers[u].st = "new"
  BY DEF SaveCheck, Offers, Offered
<1>5. UNCHANGED dir /\ UNCHANGED Orders
  BY OrdersStay DEF SaveCheck, files
<1>6. Offers' = [Offers EXCEPT ![u] = r]
  <2> HIDE DEF r
  <2> QED
    BY <1>2, <1>3, OfferBecomes
<1>7. Shelf!Offer(u, i)
  BY <1>4, <1>5, <1>6 DEF Shelf!Offer, Offers, Orders
<1> QED
  BY <1>7

\* What the shelf sees of an upload that was under way when it is saved,
LEMMA SavedIsPlaced ==
    ASSUME IInv, NEW u \in Uploads, save[u].pc \in {"checked", "copying"},
           save' = [save EXCEPT ![u].pc = "saved"]
    PROVE  /\ Offers[u].st = "offered" /\ Offers[u].image = save[u].name
           /\ Offers' = [Offers EXCEPT ![u].st = "placed"]
<1>1. Offers[u] = [st |-> "offered", image |-> save[u].name]
  BY DEF Offers, Offered
<1>2. /\ save'[u] = [pc |-> "saved", name |-> save[u].name]
      /\ \A v \in Uploads : v # u => save'[v] = save[v]
  BY DEF IInv, SaveTypeOK
<1>3. Offered(save[u])' = [st |-> "placed", image |-> save[u].name]
  BY <1>2 DEF Offered
<1>4. Offered(save[u])' = [Offered(save[u]) EXCEPT !.st = "placed"]
  BY <1>1, <1>3 DEF Offers
<1>5. Offers' = [Offers EXCEPT ![u].st = "placed"]
  BY <1>2, <1>4, OfferMoves
<1> QED
  BY <1>1, <1>5

\* and when it fails.
LEMMA FailedIsWithdrawn ==
    ASSUME IInv, NEW u \in Uploads, save[u].pc \in {"checked", "copying"}, SaveEnds(u)
    PROVE  /\ Offers[u].st = "offered"
           /\ Offers' = [Offers EXCEPT ![u] = Shelf!LostOffer]
<1>1. Offers[u].st = "offered"
  BY DEF Offers, Offered
<1>2. /\ save'[u] = Unnamed("failed")
      /\ \A v \in Uploads : v # u => save'[v] = save[v]
  BY DEF SaveEnds, IInv, SaveTypeOK
<1>3. Offered(save[u])' = Shelf!LostOffer
  BY <1>2 DEF Offered, Unnamed, Shelf!LostOffer
<1>4. Offers' = [Offers EXCEPT ![u] = Shelf!LostOffer]
  BY <1>2, <1>3, OfferBecomes
<1> QED
  BY <1>1, <1>4

\* It ends, well or not.
LEMMA RenameRefines ==
    ASSUME IInv, NEW u \in Uploads, SaveRename(u)
    PROVE  Shelf!Place(u) \/ Shelf!Withdraw(u)
<1>1. save[u].pc = "copying" /\ save[u].name \in Images
  BY DEF SaveRename, IInv, SaveNamed
<1>2. UNCHANGED Orders
  BY OrdersStay DEF SaveRename
<1>3. CASE u \in temps
  <2>1. /\ dir' = [dir EXCEPT ![Path[save[u].name]] = u]
        /\ save' = [save EXCEPT ![u].pc = "saved"]
    BY <1>3 DEF SaveRename, SaveTo
  <2>2. /\ Offers[u].st = "offered" /\ Offers[u].image = save[u].name
        /\ Offers' = [Offers EXCEPT ![u].st = "placed"]
    BY <1>1, <2>1, SavedIsPlaced
  <2>3. dir' = [dir EXCEPT ![Path[Offers[u].image]] = u]
    BY <2>1, <2>2
  <2>4. Shelf!Place(u)
    BY <1>2, <2>2, <2>3 DEF Shelf!Place, Offers, Orders
  <2> QED
    BY <2>4
<1>4. CASE u \notin temps
  <2>1. SaveEnds(u) /\ UNCHANGED dir
    BY <1>4 DEF SaveRename
  <2>2. Offers[u].st = "offered" /\ Offers' = [Offers EXCEPT ![u] = Shelf!LostOffer]
    BY <1>1, <2>1, FailedIsWithdrawn
  <2>4. Shelf!Withdraw(u)
    BY <1>2, <2>1, <2>2 DEF Shelf!Withdraw, Offers, Orders
  <2> QED
    BY <2>4
<1> QED
  BY <1>3, <1>4

\* The other steps of an upload.
LEMMA UploadRefines ==
    ASSUME IInv, NEW u \in Uploads, SaveCreate(u) \/ SaveCopy(u) \/ SaveFails(u) \/ GrowOld(u)
    PROVE  Shelf!Withdraw(u) \/ UNCHANGED Shelf!shelfVars
<1>1. UNCHANGED dir /\ UNCHANGED Orders
  BY OrdersStay DEF SaveCreate, SaveCopy, SaveFails, GrowOld
<1>2. CASE SaveCreate(u)
  <2>1. save[u].pc = "checked" /\ save' = [save EXCEPT ![u].pc = "copying"]
    BY <1>2 DEF SaveCreate, SaveTo
  <2>2. \A v \in Uploads : Offered(save[v])' = Offered(save[v])
    BY <2>1 DEF Offered, IInv, SaveTypeOK
  <2>3. UNCHANGED Offers
    BY <2>2 DEF Offers
  <2> QED
    BY <1>1, <2>3, Unseen
<1>3. CASE SaveFails(u)
  <2>1. save[u].pc \in {"checked", "copying"} /\ SaveEnds(u)
    BY <1>3 DEF SaveFails
  <2>2. Offers[u].st = "offered" /\ Offers' = [Offers EXCEPT ![u] = Shelf!LostOffer]
    BY <2>1, FailedIsWithdrawn
  <2>3. Shelf!Withdraw(u)
    BY <1>1, <2>2 DEF Shelf!Withdraw, Offers, Orders
  <2> QED
    BY <2>3
<1>4. CASE SaveCopy(u) \/ GrowOld(u)
  BY <1>1, <1>4, OffersStay, Unseen DEF SaveCopy, GrowOld
<1> QED
  BY <1>2, <1>3, <1>4

\* An image goes, by request or in a sweep.
LEMMA RemovalRefines ==
    ASSUME IInv, UNCHANGED <<save, boot>>,
           NEW p \in Paths, dir' = [dir EXCEPT ![p] = NoFile]
    PROVE  (\E i \in Images : Shelf!Remove(i)) \/ UNCHANGED Shelf!shelfVars
<1>1. PICK i \in Images : p = Path[i]
  BY DEF Paths
<1>2. UNCHANGED Offers /\ UNCHANGED Orders
  BY OffersStay, OrdersStay
<1>3. CASE dir[p] = NoFile
  <2>1. dir' = dir
    BY <1>3 DEF IInv
  <2> QED
    BY <1>2, <2>1, Unseen
<1>4. CASE dir[p] # NoFile
  <2>1. Shelf!Remove(i)
    BY <1>1, <1>2, <1>4 DEF Shelf!Remove, Offers, Orders
  <2> QED
    BY <2>1
<1> QED
  BY <1>3, <1>4

\* A netboot asks, is shown, fetches and runs.
LEMMA BootRefines ==
    ASSUME IInv, TInv, NEW b \in Boots,
           BootList(b) \/ BootCrc(b) \/ BootTftp(b) \/ BootVerify(b)
    PROVE  \/ \E i \in Images : Shelf!Order(b, i)
           \/ Shelf!Show(b) \/ Shelf!Fetch(b) \/ Shelf!Run(b)
           \/ UNCHANGED Shelf!shelfVars
<1> DEFINE x == boot[b]
<1>1. /\ UNCHANGED <<dir, save>> /\ boot \in [Boots -> BootType]
      /\ UNCHANGED Offers
  BY OffersStay DEF BootList, BootCrc, BootTftp, BootVerify, files, TInv, RestTyped
<1>2. \A c \in Boots : c # b => boot'[c] = boot[c]
  BY <1>1 DEF BootList, BootCrc, BootTftp, BootVerify
<1>3. Orders[b] = Ordered(x)
  BY DEF Orders
<1>4. CASE BootList(b)
  <2>1. PICK i \in Images :
          boot' = [boot EXCEPT ![b] =
            IF dir[Path[i]] = NoFile
              THEN NoBoot("failed") ELSE [NoBoot("listed") EXCEPT !.name = i]]
    BY <1>4 DEF BootList
  <2> DEFINE r == IF dir[Path[i]] = NoFile
                    THEN Shelf!LostOrder ELSE [st |-> "ordered", image |-> i, shown |-> NoFile]
  <2>2. Orders[b].st = "new"
    <3>1. boot[b].pc = "idle"
      BY <1>4 DEF BootList
    <3> QED
      BY <3>1 DEF Orders, Ordered
  <2>3. Ordered(boot[b])' = r
    <3>1. CASE dir[Path[i]] = NoFile
      <4>1. boot'[b] = NoBoot("failed")
        BY <1>1, <2>1, <3>1
      <4> QED
        BY <3>1, <4>1 DEF Ordered, NoBoot, Shelf!LostOrder
    <3>2. CASE dir[Path[i]] # NoFile
      <4>1. boot'[b] = [pc |-> "listed", name |-> i, crc |-> NoFile, loaded |-> NoFile]
        BY <1>1, <2>1, <3>2 DEF NoBoot
      <4> QED
        BY <3>2, <4>1 DEF Ordered
    <3> QED
      BY <3>1, <3>2
  <2>4. Orders' = [Orders EXCEPT ![b] = r]
    <3> HIDE DEF r
    <3> QED
      BY <1>2, <2>3, OrderBecomes
  <2>5. Shelf!Order(b, i)
    BY <1>1, <2>2, <2>4 DEF Shelf!Order, Offers, Orders
  <2> QED
    BY <2>5
<1>5. CASE BootCrc(b)
  <2> DEFINE r == [st |-> "shown", image |-> Orders[b].image, shown |-> dir[Path[Orders[b].image]]]
  <2>1. /\ x.pc = "listed" /\ x.name \in Images
        /\ boot'[b] = [x EXCEPT !.pc = "tftp", !.crc = dir[Path[x.name]]]
    BY <1>1, <1>5 DEF BootCrc, TInv, RestTyped
  <2>2. Orders[b] = [st |-> "ordered", image |-> x.name, shown |-> x.crc]
    BY <1>3, <2>1 DEF Ordered
  <2>3. Ordered(boot[b])' = r
    BY <1>1, <2>1, <2>2 DEF Ordered, BootType
  <2>4. Orders' = [Orders EXCEPT ![b] = r]
    <3> HIDE DEF r
    <3> QED
      BY <1>2, <2>3, OrderBecomes
  <2>5. Shelf!Show(b)
    BY <1>1, <2>2, <2>4 DEF Shelf!Show, Offers, Orders
  <2> QED
    BY <2>5
<1>6. CASE BootTftp(b)
  <2> DEFINE d == dir[Path[x.name]]
             r == IF d # NoFile /\ d = x.crc
                    THEN [st |-> "fetched", image |-> x.name, shown |-> d] ELSE Shelf!LostOrder
  <2>1. /\ x.pc = "tftp" /\ x.name \in Images
        /\ boot'[b] = IF d = NoFile THEN NoBoot("failed") ELSE [x EXCEPT !.pc = "verify", !.loaded = d]
    BY <1>1, <1>6 DEF BootTftp, TInv, RestTyped
  <2>2. Orders[b] = [st |-> "shown", image |-> x.name, shown |-> x.crc]
    BY <1>3, <2>1 DEF Ordered
  <2>3. Ordered(boot[b])' = r
    <3> HIDE DEF d
    <3>1. CASE d = NoFile
      BY <2>1, <3>1 DEF Ordered, NoBoot, Shelf!LostOrder
    <3>2. CASE d # NoFile
      <4>1. boot'[b] = [pc |-> "verify", name |-> x.name, crc |-> x.crc, loaded |-> d]
        BY <1>1, <2>1, <3>2 DEF BootType
      <4> QED
        BY <3>2, <4>1 DEF Ordered, Shelf!LostOrder
    <3> QED
      BY <3>1, <3>2
  <2>4. Orders' = [Orders EXCEPT ![b] = r]
    <3> HIDE DEF r
    <3> QED
      BY <1>2, <2>3, OrderBecomes
  <2>5. d = dir[Path[Orders[b].image]] /\ x.crc = Orders[b].shown /\ Orders[b].st = "shown"
        /\ x.name = Orders[b].image
    BY <2>1, <2>2
  <2>6. Orders' = [Orders EXCEPT ![b] =
          IF dir[Path[Orders[b].image]] # NoFile /\ dir[Path[Orders[b].image]] = Orders[b].shown
            THEN [st |-> "fetched", image |-> Orders[b].image, shown |-> dir[Path[Orders[b].image]]]
            ELSE Shelf!LostOrder]
    <3> HIDE DEF d
    <3> QED
      BY <2>4, <2>5
  <2>7. Shelf!Fetch(b)
    BY <1>1, <2>5, <2>6 DEF Shelf!Fetch, Offers, Orders
  <2> QED
    BY <2>7
<1>7. CASE BootVerify(b)
  <2>1. /\ x.pc = "verify"
        /\ boot'[b] = IF x.loaded = x.crc THEN [x EXCEPT !.pc = "booted"] ELSE NoBoot("failed")
    BY <1>1, <1>7 DEF BootVerify
  <2>3. CASE x.loaded = x.crc
    <3>1. Orders[b] = [st |-> "fetched", image |-> x.name, shown |-> x.crc]
      BY <1>3, <2>1, <2>3 DEF Ordered
    <3>2. boot'[b] = [pc |-> "booted", name |-> x.name, crc |-> x.crc, loaded |-> x.loaded]
      BY <1>1, <2>1, <2>3 DEF BootType
    <3>3. Ordered(boot[b])' = [Ordered(boot[b]) EXCEPT !.st = "ran"]
      BY <1>3, <3>1, <3>2 DEF Ordered
    <3>4. Orders' = [Orders EXCEPT ![b].st = "ran"]
      BY <1>2, <3>3, OrderMoves
    <3>5. Shelf!Run(b)
      BY <1>1, <3>1, <3>4 DEF Shelf!Run, Offers, Orders
    <3> QED
      BY <3>5
  <2>4. CASE x.loaded # x.crc
    <3>1. Ordered(boot[b])' = Ordered(boot[b])
      BY <2>1, <2>4 DEF Ordered, NoBoot
    <3>2. UNCHANGED Orders
      BY <1>2, <3>1 DEF Orders
    <3> QED
      BY <1>1, <3>2, Unseen
  <2> QED
    BY <2>3, <2>4
<1> QED
  BY <1>4, <1>5, <1>6, <1>7

\* What was under way for the daemon's images is lost.
LEMMA CrashRefines ==
    ASSUME IInv, TInv, NEW i \in Images, Crash(i.inst)
    PROVE  \E lost \in SUBSET Images : Shelf!Halt(lost)
<1> DEFINE lost == {j \in Images : j.inst = i.inst}
           offers == [u \in Uploads |-> Offered(save[u])]
           orders == [b \in Boots |-> Ordered(boot[b])]
<1>1. ASSUME NEW u \in Uploads
      PROVE  Offered(save[u])' = IF Offered(save[u]).st = "offered" /\ Offered(save[u]).image \in lost
                                   THEN Shelf!LostOffer ELSE Offered(save[u])
  <2>1. save'[u] = IF save[u].pc \in {"checked", "copying"} /\ save[u].name.inst = i.inst
                     THEN Unnamed("crashed") ELSE save[u]
    BY DEF Crash
  <2>2. save[u].pc \in {"checked", "copying"} => save[u].name \in Images
    BY DEF IInv, SaveNamed
  <2>3. Offered(save[u]).image = save[u].name
        /\ (Offered(save[u]).st = "offered" <=> save[u].pc \in {"checked", "copying"})
    BY DEF Offered, IInv, SaveTypeOK
  <2>4. CASE save[u].pc \in {"checked", "copying"} /\ save[u].name.inst = i.inst
    BY <2>1, <2>2, <2>3, <2>4 DEF Offered, Unnamed, Shelf!LostOffer
  <2>5. CASE ~(save[u].pc \in {"checked", "copying"} /\ save[u].name.inst = i.inst)
    BY <2>1, <2>3, <2>5
  <2> QED
    BY <2>4, <2>5
<1>2. ASSUME NEW b \in Boots
      PROVE  Ordered(boot[b])' = IF /\ Ordered(boot[b]).st \in {"ordered", "shown", "fetched"}
                                    /\ Ordered(boot[b]).image \in lost
                                   THEN Shelf!LostOrder ELSE Ordered(boot[b])
  <2> DEFINE x == boot[b]
             y == boot'[b]
  <2>1. boot'[b] = IF boot[b].pc \in {"listed", "tftp", "verify"} /\ boot[b].name.inst = i.inst
                     THEN NoBoot("failed") ELSE boot[b]
    BY DEF Crash
  <2>2. boot[b] \in BootType /\ (boot[b].pc \in {"listed", "tftp", "verify"} => boot[b].name \in Images)
    BY DEF TInv, RestTyped
  <2>3. CASE boot[b].pc \in {"listed", "tftp", "verify"} /\ boot[b].name.inst = i.inst
    <3>1. Ordered(boot[b])' = Shelf!LostOrder
      BY <2>1, <2>3 DEF Ordered, NoBoot, Shelf!LostOrder
    <3>2. CASE boot[b].pc = "verify" /\ boot[b].loaded # boot[b].crc
      BY <3>1, <3>2 DEF Ordered, Shelf!LostOrder
    <3>3. CASE ~(boot[b].pc = "verify" /\ boot[b].loaded # boot[b].crc)
      <4>1. /\ Ordered(boot[b]).st \in {"ordered", "shown", "fetched"}
            /\ Ordered(boot[b]).image = boot[b].name
        BY <2>3, <3>3 DEF Ordered
      <4> QED
        BY <2>2, <2>3, <3>1, <4>1
    <3> QED
      BY <3>2, <3>3
  <2>4. CASE ~(boot[b].pc \in {"listed", "tftp", "verify"} /\ boot[b].name.inst = i.inst)
    <3>1. Ordered(boot[b])' = Ordered(boot[b])
      BY <2>1, <2>4
    <3>2. Ordered(boot[b]).st \in {"ordered", "shown", "fetched"} =>
            boot[b].pc \in {"listed", "tftp", "verify"} /\ Ordered(boot[b]).image = boot[b].name
      BY <2>2 DEF Ordered, BootType
    <3> QED
      BY <2>4, <3>1, <3>2
  <2> QED
    BY <2>3, <2>4
<1>3. offers' = [u \in Uploads |-> IF offers[u].st = "offered" /\ offers[u].image \in lost
                   THEN Shelf!LostOffer ELSE offers[u]]
  BY <1>1
<1>4. orders' = [b \in Boots |->
                   IF orders[b].st \in {"ordered", "shown", "fetched"} /\ orders[b].image \in lost
                     THEN Shelf!LostOrder ELSE orders[b]]
  BY <1>2
<1>5. UNCHANGED dir
  BY DEF Crash, files
<1>6. lost \in SUBSET Images
  OBVIOUS
<1>7. Shelf!Halt(lost)
  <2> HIDE DEF lost
  <2> QED
    BY <1>3, <1>4, <1>5 DEF Shelf!Halt
<1> QED
  BY <1>6, <1>7

\* Every step of the directory is a step of the shelf or changes nothing there.
LEMMA NextRefines ==
    IInv /\ TInv /\ [Next]_vars => [Shelf!ShelfNext]_Shelf!shelfVars
<1> SUFFICES ASSUME IInv, TInv, [Next]_vars PROVE [Shelf!ShelfNext]_Shelf!shelfVars
  OBVIOUS
<1> USE DEF Shelf!ShelfNext
<1>1. ASSUME NEW u \in Uploads, SaveCheck(u) PROVE Shelf!ShelfNext
  BY <1>1, CheckRefines
<1>2. ASSUME NEW u \in Uploads, SaveRename(u) PROVE Shelf!ShelfNext
  BY <1>2, RenameRefines
<1>3. ASSUME NEW u \in Uploads, SaveCreate(u) \/ SaveCopy(u) \/ SaveFails(u) \/ GrowOld(u)
      PROVE  [Shelf!ShelfNext]_Shelf!shelfVars
  BY <1>3, UploadRefines
<1>4. ASSUME NEW i \in Images, Delete(i) PROVE [Shelf!ShelfNext]_Shelf!shelfVars
  <2>1. Path[i] \in Paths /\ dir' = [dir EXCEPT ![Path[i]] = NoFile] /\ UNCHANGED <<save, boot>>
    BY <1>4, PathTyped DEF Delete
  <2> QED
    BY <2>1, RemovalRefines
<1>5. CASE PruneStep
  <2>1. CASE PruneStart \/ PruneStat \/ PruneEnd
    <3>1. UNCHANGED <<dir, save, boot>>
      BY <2>1 DEF PruneStart, PruneStat, PruneEnd, files
    <3> QED
      BY <3>1, OffersStay, OrdersStay, Unseen
  <2>2. CASE PruneRemove
    <3>1. UNCHANGED <<save, boot>>
      BY <2>2 DEF PruneRemove
    <3>2. CASE prune.entry[1] = "image"
      <4>1. prune.entry \in PruneEntries \cup {NoEntry}
        BY DEF TInv, RestTyped, PruneType
      <4>2. prune.entry[2] \in Paths
        BY <3>2, <4>1 DEF PruneEntries, ImageEntries, TempEntries, NoEntry
      <4>3. dir' = [dir EXCEPT ![prune.entry[2]] = NoFile]
        BY <2>2, <3>2 DEF PruneRemove
      <4> QED
        BY <3>1, <4>2, <4>3, RemovalRefines
    <3>3. CASE prune.entry[1] # "image"
      <4>1. UNCHANGED dir
        BY <2>2, <3>3 DEF PruneRemove
      <4> QED
        BY <3>1, <4>1, OffersStay, OrdersStay, Unseen
    <3> QED
      BY <3>2, <3>3
  <2> QED
    BY <1>5, <2>1, <2>2 DEF PruneStep
<1>6. ASSUME NEW b \in Boots, BootList(b) \/ BootCrc(b) \/ BootTftp(b) \/ BootVerify(b)
      PROVE  [Shelf!ShelfNext]_Shelf!shelfVars
  BY <1>6, BootRefines
<1>7. ASSUME NEW i \in Images, Crash(i.inst) PROVE Shelf!ShelfNext
  BY <1>7, CrashRefines
<1>8. CASE UNCHANGED vars
  BY <1>8, OffersStay, OrdersStay, Unseen DEF vars
<1> QED
  BY <1>1, <1>2, <1>3, <1>4, <1>5, <1>6, <1>7, <1>8 DEF Next

\* The directory that several daemons share, with its temporary files, its sweep
\* and crashes, implements the shelf, whatever the daemons' names (Store's
\* methods; names that clash have places in common).
THEOREM ImplementsShelf == Spec => ShelfSpec
<1>1. Init => Shelf!ShelfInit
  <2> SUFFICES ASSUME Init PROVE Shelf!ShelfInit
    OBVIOUS
  <2>1. dir = [p \in {Path[i] : i \in Images} |-> NoFile]
    BY DEF Init, Paths
  <2>2. \A u \in Uploads : Offered(save[u]) = [st |-> "new", image |-> NoFile]
    BY DEF Init, Unnamed, Offered
  <2>3. \A b \in Boots : Ordered(boot[b]) = [st |-> "new", image |-> NoFile, shown |-> NoFile]
    BY DEF Init, NoBoot, Ordered
  <2> QED
    BY <2>1, <2>2, <2>3 DEF Shelf!ShelfInit
<1> QED
  BY <1>1, NextRefines, IInvHolds, TInvHolds, PTL DEF Spec, ShelfSpec, Shelf!ShelfSpec
=============================================================================
