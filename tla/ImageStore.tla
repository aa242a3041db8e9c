----------------------------- MODULE ImageStore -----------------------------
(***************************************************************************)
(* The image directory (internal/tftp imagestore.go) and those who share   *)
(* it: uploads (Store.Save), the image reaper (Store.Prune), DeleteImage,  *)
(* and netboots that ask for verification (Store.List, then TFTP, then     *)
(* U-Boot's crc32).  Each file system call is one action; a daemon may     *)
(* crash between any two, and the others go on.                            *)
(*                                                                         *)
(* An image is a name a client uses with one of the daemons that share the *)
(* directory; Path is where that daemon keeps it.                          *)
(*                                                                         *)
(* A file is the upload that wrote it: upload u writes file u, Size chunks *)
(* long when it is complete, first under its own temporary name, then      *)
(* under the image name it was given.  A CRC32 identifies a file.          *)
(*                                                                         *)
(* A definition called a variant is a later one with a plausible bug:      *)
(* nothing uses it; put in its place, it breaks the properties.            *)
(***************************************************************************)
EXTENDS FiniteSets, ImageNames

CONSTANTS Images,     \* images, each with its instance and the client's name
          Uploads,    \* calls of Save, and the files they write
          Overwriting,  \* the ones that are told to overwrite
          Boots,      \* netboots with verify_crc32
          NoFile,     \* no such file
          Size,       \* chunks of a complete file
          MaxCrashes  \* bound on daemon crashes

ASSUME ImagesAssumption ==
    /\ Images \subseteq [inst : Seq(STRING), name : Seq(STRING)]
    /\ \A i \in Images : ValidInstance(i.inst) /\ ValidName(i.name)
ASSUME NoFileAssumption == NoFile \notin Uploads \cup Images
ASSUME OverwritingAssumption == Overwriting \subseteq Uploads
ASSUME SizeAssumption == Size \in Nat \ {0}
ASSUME MaxCrashesAssumption == MaxCrashes \in Nat

Path == [i \in Images |-> OnDiskName(i)]
Paths == {Path[i] : i \in Images}

VARIABLES
  dir,      \* [p -> the file at path p, or NoFile]
  temps,    \* the files that still have their .upload-* name
  chunks,   \* [u -> chunks written to file u]
  old,      \* the files last modified more than maxAge ago
  save,     \* [u -> state of the Save call]
  prune,    \* the reaper's sweep
  boot,     \* [b -> state of the netboot]
  crashes   \* history: number of crashes

vars == <<dir, temps, chunks, old, save, prune, boot, crashes>>
files == <<dir, temps, chunks, old>>

\* Directory entries: images and temporary files.
ImageEntries == {"image"} \X Paths
TempEntries == {"temp"} \X Uploads
NoEntry == <<"none", NoFile>>

FileAt(e) == IF e[1] = "image" THEN dir[e[2]]
             ELSE IF e[2] \in temps THEN e[2] ELSE NoFile

\* Variant: a listing that leaves temporary files out, as List's does.
EntriesListed == {e \in ImageEntries : FileAt(e) # NoFile}

Entries == {e \in ImageEntries \cup TempEntries : FileAt(e) # NoFile}

\* A Save that has no name yet or no longer; a netboot likewise.
Unnamed(pc) == [pc |-> pc, name |-> NoFile]
NoBoot(pc) == [pc |-> pc, name |-> NoFile, crc |-> NoFile, loaded |-> NoFile]
NotPruning == [pc |-> "idle", todo |-> {}, stale |-> {}, entry |-> NoEntry]

Init ==
    /\ dir = [p \in Paths |-> NoFile]
    /\ temps = {}
    /\ chunks = [u \in Uploads |-> 0]
    /\ old = {}
    /\ save = [u \in Uploads |-> Unnamed("new")]
    /\ boot = [b \in Boots |-> NoBoot("idle")]
    /\ prune = NotPruning
    /\ crashes = 0

-----------------------------------------------------------------------------
(* Store.Save.                                                             *)

SaveTo(u, pc) == save' = [save EXCEPT ![u].pc = pc]
SaveEnds(u) == save' = [save EXCEPT ![u] = Unnamed("failed")]

\* Variant: whether to overwrite is not looked at.
SaveUnasked(u) ==
    /\ save[u].pc = "new"
    /\ \E i \in Images : save' = [save EXCEPT ![u] = [pc |-> "checked", name |-> i]]
    /\ UNCHANGED <<files, prune, boot, crashes>>

\* Refuse to replace an image, unless told to: os.Stat.
SaveCheck(u) ==
    /\ save[u].pc = "new"
    /\ \E i \in Images :
         save' = [save EXCEPT ![u] =
           IF u \notin Overwriting /\ dir[Path[i]] # NoFile
             THEN Unnamed("failed") ELSE [pc |-> "checked", name |-> i]]
    /\ UNCHANGED <<files, prune, boot, crashes>>

\* Variant: the data goes straight to the image's own file.
SaveInPlace(u) ==
    /\ save[u].pc = "checked"
    /\ dir' = [dir EXCEPT ![Path[save[u].name]] = u]
    /\ SaveTo(u, "copying")
    /\ UNCHANGED <<temps, chunks, old, prune, boot, crashes>>

\* os.CreateTemp
SaveCreate(u) ==
    /\ save[u].pc = "checked"
    /\ temps' = temps \cup {u}
    /\ SaveTo(u, "copying")
    /\ UNCHANGED <<dir, chunks, old, prune, boot, crashes>>

\* io.Copy: a chunk arrives and refreshes the modification time.  The name may
\* be gone by then; the open file is not.
SaveCopy(u) ==
    /\ save[u].pc = "copying"
    /\ chunks[u] < Size
    /\ chunks' = [chunks EXCEPT ![u] = @ + 1]
    /\ old' = old \ {u}
    /\ UNCHANGED <<dir, temps, save, prune, boot, crashes>>

\* Variant: an early return before the cleanup is deferred.
SaveFailsDirty(u) ==
    /\ save[u].pc \in {"checked", "copying"}
    /\ SaveEnds(u)
    /\ UNCHANGED <<files, prune, boot, crashes>>

\* No temporary file, a broken stream, a full disk: the cleanup removes the file.
SaveFails(u) ==
    /\ save[u].pc \in {"checked", "copying"}
    /\ temps' = temps \ {u}
    /\ SaveEnds(u)
    /\ UNCHANGED <<dir, chunks, old, prune, boot, crashes>>

\* os.Rename, which fails when the temporary file is gone.
SaveRename(u) ==
    /\ save[u].pc = "copying"
    /\ chunks[u] = Size
    /\ IF u \in temps
         THEN /\ dir' = [dir EXCEPT ![Path[save[u].name]] = u]
              /\ SaveTo(u, "saved")
         ELSE /\ SaveEnds(u)
              /\ UNCHANGED dir
    /\ temps' = temps \ {u}
    /\ UNCHANGED <<chunks, old, prune, boot, crashes>>

\* Store.Delete
Delete(i) ==
    /\ dir[Path[i]] # NoFile
    /\ dir' = [dir EXCEPT ![Path[i]] = NoFile]
    /\ UNCHANGED <<temps, chunks, old, save, prune, boot, crashes>>

-----------------------------------------------------------------------------
(* Store.Prune, called by the reaper's ticker; a max_age of zero means no  *)
(* reaper, and none of this.                                               *)

\* os.ReadDir; the cutoff is fixed here.
PruneStart ==
    /\ prune.pc = "idle"
    /\ Entries # {}
    /\ prune' = [pc |-> "stat", todo |-> Entries, stale |-> old, entry |-> NoEntry]
    /\ UNCHANGED <<files, save, boot, crashes>>

\* Stat an entry: skip it if it vanished or is newer than the cutoff.
PruneStat ==
    /\ prune.pc = "stat"
    /\ \E e \in prune.todo :
         prune' = IF FileAt(e) \in prune.stale \cap old
                    THEN [prune EXCEPT !.pc = "remove", !.todo = @ \ {e}, !.entry = e]
                    ELSE [prune EXCEPT !.todo = @ \ {e}]
    /\ UNCHANGED <<files, save, boot, crashes>>

\* Remove it by name, whatever has that name by now.
PruneRemove ==
    LET e == prune.entry
    IN  /\ prune.pc = "remove"
        /\ IF e[1] = "image"
             THEN dir' = [dir EXCEPT ![e[2]] = NoFile] /\ UNCHANGED temps
             ELSE temps' = temps \ {e[2]} /\ UNCHANGED dir
        /\ prune' = [prune EXCEPT !.pc = "stat", !.entry = NoEntry]
        /\ UNCHANGED <<chunks, old, save, boot, crashes>>

PruneEnd ==
    /\ prune.pc = "stat"
    /\ prune.todo = {}
    /\ prune' = NotPruning
    /\ UNCHANGED <<files, save, boot, crashes>>

\* A file that nobody wrote to for maxAge.
GrowOld(u) ==
    /\ u \notin old
    /\ \E e \in Entries : FileAt(e) = u
    /\ old' = old \cup {u}
    /\ UNCHANGED <<dir, temps, chunks, save, prune, boot, crashes>>

-----------------------------------------------------------------------------
(* A netboot with verify_crc32.                                            *)

\* Store.List finds the image, or the request is refused.
BootList(b) ==
    /\ boot[b].pc = "idle"
    /\ \E i \in Images :
         boot' = [boot EXCEPT ![b] =
           IF dir[Path[i]] = NoFile
             THEN NoBoot("failed") ELSE [NoBoot("listed") EXCEPT !.name = i]]
    /\ UNCHANGED <<files, save, prune, crashes>>

\* List reads the file again to compute the CRC; an error is ignored (CRC 0).
BootCrc(b) ==
    /\ boot[b].pc = "listed"
    /\ boot' = [boot EXCEPT ![b].pc = "tftp", ![b].crc = dir[Path[boot[b].name]]]
    /\ UNCHANGED <<files, save, prune, crashes>>

\* U-Boot fetches whatever has the name now, or reports a TFTP error.
BootTftp(b) ==
    LET there == dir[Path[boot[b].name]]
    IN  /\ boot[b].pc = "tftp"
        /\ boot' = [boot EXCEPT ![b] =
             IF there = NoFile
               THEN NoBoot("failed") ELSE [@ EXCEPT !.pc = "verify", !.loaded = there]]
        /\ UNCHANGED <<files, save, prune, crashes>>

\* crc32 -v, then bootoctlinux
BootVerify(b) ==
    /\ boot[b].pc = "verify"
    /\ boot' = [boot EXCEPT ![b] =
         IF @.loaded = @.crc THEN [@ EXCEPT !.pc = "booted"] ELSE NoBoot("failed")]
    /\ UNCHANGED <<files, save, prune, crashes>>

-----------------------------------------------------------------------------
\* The daemon with this name dies: its uploads and netboots with it, and the
\* sweep if it is the one that sweeps; files stay.
Crash(inst) ==
    /\ crashes < MaxCrashes
    /\ crashes' = crashes + 1
    /\ save' = [u \in Uploads |->
         IF save[u].pc \in {"checked", "copying"} /\ save[u].name.inst = inst
           THEN Unnamed("crashed") ELSE save[u]]
    /\ prune' \in {prune, NotPruning}
    /\ boot' = [b \in Boots |->
         IF boot[b].pc \in {"listed", "tftp", "verify"} /\ boot[b].name.inst = inst
           THEN NoBoot("failed") ELSE boot[b]]
    /\ UNCHANGED files

PruneStep == PruneStart \/ PruneStat \/ PruneRemove \/ PruneEnd

Next ==
    \/ \E u \in Uploads :
         \/ SaveCheck(u) \/ SaveCreate(u) \/ SaveCopy(u)
         \/ SaveFails(u) \/ SaveRename(u) \/ GrowOld(u)
    \/ \E i \in Images : Delete(i)
    \/ PruneStep
    \/ \E b \in Boots : BootList(b) \/ BootCrc(b) \/ BootTftp(b) \/ BootVerify(b)
    \/ \E i \in Images : Crash(i.inst)

Spec == Init /\ [][Next]_vars

\* The reaper's ticker fires and its sweep runs; files nobody writes get old.
FairSpec ==
    /\ Spec
    /\ WF_vars(PruneStep)
    /\ WF_vars(\E u \in Uploads : GrowOld(u))

-----------------------------------------------------------------------------
(* Properties.                                                             *)

\* Every variable has its type.
TypeOK ==
    /\ dir \in [Paths -> Uploads \cup {NoFile}]
    /\ temps \subseteq Uploads
    /\ chunks \in [Uploads -> 0 .. Size]
    /\ old \subseteq Uploads
    /\ save \in [Uploads -> [pc : {"new", "checked", "copying", "saved", "failed", "crashed"},
                             name : Images \cup {NoFile}]]
    /\ prune.pc \in {"idle", "stat", "remove"}
    /\ prune.stale \subseteq Uploads
    /\ boot \in [Boots -> [pc : {"idle", "listed", "tftp", "verify", "booted", "failed"},
                           name : Images \cup {NoFile},
                           crc : Uploads \cup {NoFile},
                           loaded : Uploads \cup {NoFile}]]

\* "The write is atomic": what has an image's name is a complete upload, whatever
\* aborts, crashes, is pruned or races.
VisibleIsComplete ==
    \A p \in Paths :
      dir[p] # NoFile => chunks[dir[p]] = Size /\ save[dir[p]].pc = "saved"

\* "Two devices never clobber each other" (README.md:117), as far as the prefix of
\* Store.Namespaced carries it: a client's name leads to what was uploaded to his
\* daemon under that name, or else to the image of a daemon whose name clashes
\* with his.  The second is what Config.Validate (config.go:214) leaves open.
NamesLeadHome ==
    \A i \in Images :
      dir[Path[i]] # NoFile =>
        LET there == save[dir[Path[i]]].name
        IN  there = i \/ Clashing(there.inst, i.inst)

\* A Save that returned left no temporary file; only a crash can.  (The types are
\* checked with it.)
TempsAreOwned ==
    /\ TypeOK
    /\ \A u \in temps : save[u].pc \in {"copying", "crashed"}

\* verify_crc32 fails closed: a netboot whose image was replaced, deleted or
\* pruned after the CRC was computed does not boot, and what boots is one
\* complete upload that was stored where the requested name is kept: under that
\* name, or under one of a daemon whose name clashes with this one's.
VerifiedBootIsStored ==
    \A b \in Boots :
      boot[b].pc = "booted" =>
        LET x == boot[b].loaded
        IN  /\ x # NoFile /\ x = boot[b].crc
            /\ save[x].pc = "saved"
            /\ \/ save[x].name = boot[b].name
               \/ Clashing(save[x].name.inst, boot[b].name.inst)

\* The sweep reclaims "abandoned .upload-* temp files from crashed uploads".
AbandonedReclaimed == []<>(\A u \in temps : save[u].pc # "crashed")

-----------------------------------------------------------------------------
(* The directory implements the shelf whose places are the paths.  A       *)
(* netboot whose CRC is wrong has failed there before U-Boot finds out.    *)

Offered(s) ==
    [st |-> CASE s.pc = "new" -> "new"
              [] s.pc \in {"checked", "copying"} -> "offered"
              [] s.pc = "saved" -> "placed"
              [] s.pc \in {"failed", "crashed"} -> "failed",
     image |-> s.name]

Ordered(b) ==
    IF b.pc = "failed" \/ (b.pc = "verify" /\ b.loaded # b.crc)
      THEN [st |-> "failed", image |-> NoFile, shown |-> NoFile]
      ELSE [st |-> CASE b.pc = "idle" -> "new"
                     [] b.pc = "listed" -> "ordered"
                     [] b.pc = "tftp" -> "shown"
                     [] b.pc = "verify" -> "fetched"
                     [] b.pc = "booted" -> "ran",
            image |-> b.name, shown |-> b.crc]

Shelf == INSTANCE ImageShelf WITH
    Nothing <- NoFile,
    Where <- Path,
    shelf <- dir,
    offer <- [u \in Uploads |-> Offered(save[u])],
    order <- [b \in Boots |-> Ordered(boot[b])]

\* Every behaviour of the directory, with its temporary files, sweeps, crashes and
\* the daemons that share it, is one the shelf allows: an upload appears whole
\* and in its place only, what is told not to overwrite was offered while the
\* place was empty, and a verified netboot runs what it was shown.
ShelfSpec == Shelf!ShelfSpec
=============================================================================
