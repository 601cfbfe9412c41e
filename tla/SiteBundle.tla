----------------------------- MODULE SiteBundle -----------------------------
(* A directory of HTML files on its way into an archive and out of it: Pack  *)
(* and Parse of sitebundle/sitebundle.go.                                    *)
(*                                                                           *)
(* Pack first walks the directory and measures its files, then reads them;   *)
(* it holds nothing in between, so the directory may change under it.  Parse *)
(* checks again, on its own and with its own limit, what Pack has checked.   *)
EXTENDS Naturals, SequencesExt

CONSTANTS
    Path,       \* paths of files below a root, as sequences of names
    OnDisk,     \* those that the directory may hold
    Html,       \* the paths whose extension is .html
    Invalid,    \* the paths that validName refuses: a name may hold a "\"
    Index,      \* index.html
    Body, Size, \* what a file may hold, and its size
    Absent,
    Drafts,     \* the directories to start from
    Edited,     \* what a file may become while it is packed
    MaxFiles,
    PackBytes,  \* the limit that the command line gives to Pack
    Word,       \* sizes in an archive are unsigned numbers below Word
    MaxEdits    \* bound: changes to the directory

File == [type : {"regular", "link", "other"}, body : Body]
Entry == [name : Path, size : 0 .. Word - 1, body : Body, regular : BOOLEAN]

ASSUME PathAssumption == /\ Path \subseteq Seq(STRING)
                         /\ Html \subseteq Path /\ Invalid \subseteq Path /\ OnDisk \subseteq Path
                         /\ <<Index>> \in Html /\ <<>> \notin Html
ASSUME SizeAssumption == Size \in [Body -> 0 .. Word - 1]
ASSUME DraftAssumption == /\ Drafts \subseteq [OnDisk -> File \cup {Absent}]
                          /\ Edited \subseteq File \cup {Absent} /\ Absent \notin File
\* A file is not a directory: there is nothing below it.
ASSUME TreeAssumption ==
    \A d \in Drafts : \A p, q \in OnDisk :
        d[p] # Absent /\ d[q] # Absent => ~IsStrictPrefix(p, q)
ASSUME LimitAssumption == /\ Word \in Nat /\ MaxFiles \in Nat /\ PackBytes \in 1 .. Word - 1
                          /\ MaxEdits \in Nat

VARIABLES
    dir,      \* the files of the directory
    edits,
    pc,       \* where Pack is
    todo,     \* the directories to list and the files to measure
    measured, \* the size of each file measured so far
    archive   \* the entries written so far

pack == <<pc, todo, measured, archive>>
bundle == <<dir, edits, pack>>

InitBundle ==
    /\ dir \in Drafts /\ edits = 0
    /\ pc = "walk" /\ todo = {<<>>} /\ measured = <<>> /\ archive = <<>>

(* An editor, a build or a sync changes one file of the directory.  What it  *)
(* changes once Pack has returned is nothing to Pack.                        *)
Edit(p, f) == /\ pc \in {"walk", "read"}
              /\ edits < MaxEdits /\ edits' = edits + 1
              /\ f # dir[p] /\ dir' = [dir EXCEPT ![p] = f]
              /\ UNCHANGED pack

-----------------------------------------------------------------------------
(* The operators Bad... are mistakes that this code could contain in place of *)
(* the definition that follows them; README.md names what each would break.  *)
Total(sizes) == FoldFunction(+, 0, sizes)
Packed == ToSet([i \in DOMAIN archive |-> archive[i].name])

Fail == pc' = "failed" /\ UNCHANGED <<todo, measured, archive>>
Block == pc' = "blocked" /\ UNCHANGED <<todo, measured, archive>>

(* WalkDir lists a directory when it comes to it, and passes on what it      *)
(* finds, subdirectories included.                                           *)
Under(d) == {p \in OnDisk : dir[p] # Absent /\ IsStrictPrefix(d, p)}
BadChildren(d) == {p \in Under(d) : Len(p) = Len(d) + 1}
Children(d) == {SubSeq(p, 1, Len(d) + 1) : p \in Under(d)}

List(d) == /\ pc = "walk" /\ d \in todo \ OnDisk
           /\ \/ /\ todo' = (todo \ {d}) \cup Children(d)
                 /\ UNCHANGED <<pc, measured, archive>>
              \/ Children(d) = {} /\ Fail
           /\ UNCHANGED <<dir, edits>>

(* The callback of WalkDir for a file, in the order of its checks.  The sum  *)
(* of the sizes cannot leave the limit, so the subtraction cannot wrap.      *)
Fits(size) == size <= PackBytes - Total(measured)

BadMayPack(p) == /\ dir[p] # Absent /\ dir[p].type = "regular" /\ p \in Html
                 /\ Cardinality(DOMAIN measured) <= MaxFiles
                 /\ Fits(Size[dir[p].body])
MayPack(p) == /\ dir[p] # Absent /\ dir[p].type = "regular" /\ p \in Html
              /\ Cardinality(DOMAIN measured) < MaxFiles
              /\ Fits(Size[dir[p].body])

Measure(p) ==
    /\ pc = "walk" /\ p \in todo \cap OnDisk
    /\ \/ /\ MayPack(p)
          /\ measured' = [q \in DOMAIN measured \cup {p} |->
                            IF q = p THEN Size[dir[p].body] ELSE measured[q]]
          /\ todo' = todo \ {p}
          /\ UNCHANGED <<pc, archive>>
       \/ ~MayPack(p) /\ Fail
    /\ UNCHANGED <<dir, edits>>

EndWalk ==
    /\ pc = "walk" /\ todo = {}
    /\ \/ <<Index>> \in DOMAIN measured
          /\ pc' = "read" /\ UNCHANGED <<todo, measured, archive>>
       \/ <<Index>> \notin DOMAIN measured /\ Fail
    /\ UNCHANGED <<dir, edits>>

(* os.ReadFile opens the path anew and reads all that is there now, also     *)
(* through a link that has taken the place of the file and however much it   *)
(* has become; only then its size is compared with the one that was counted. *)
(* Of something else, such as a socket or a pipe, it fails or never returns. *)
Readable(p) == dir[p] # Absent /\ dir[p].type # "other"

BadUnchanged(p) == TRUE
Unchanged(p) == Size[dir[p].body] = measured[p]

Read(p) ==
    /\ pc = "read" /\ p \in DOMAIN measured \ Packed
    /\ \/ /\ Readable(p) /\ Unchanged(p)
          /\ archive' = Append(archive, [name |-> p, size |-> Size[dir[p].body],
                                         body |-> dir[p].body, regular |-> TRUE])
          /\ pc' = IF DOMAIN measured \ Packed = {p} THEN "packed" ELSE pc
          /\ UNCHANGED <<todo, measured>>
       \/ Readable(p) /\ ~Unchanged(p) /\ Fail
       \/ ~Readable(p) /\ Fail
       \/ dir[p] # Absent /\ ~Readable(p) /\ Block
    /\ UNCHANGED <<dir, edits>>

(* The code goes by names; here any order will do.                           *)
PackStep == \/ \E p \in todo : List(p) \/ Measure(p)
            \/ EndWalk
            \/ \E p \in DOMAIN measured : Read(p)

-----------------------------------------------------------------------------
(* Parse with the limit of a server.  The total is an unsigned number, which *)
(* wraps; it is taken from the limit before the size of an entry is compared *)
(* with the difference.                                                      *)
TotalBefore(a) ==
    LET total[i \in 1 .. Len(a) + 1] == IF i = 1 THEN 0 ELSE (total[i - 1] + a[i - 1].size) % Word
    IN total

BadWithin(a, max) ==
    \A i \in DOMAIN a : (TotalBefore(a)[i] + a[i].size) % Word <= max
Within(a, max) ==
    \A i \in DOMAIN a : a[i].size <= (Word + max - TotalBefore(a)[i]) % Word

BadParses(a, max) ==
    /\ Len(a) \in 1 .. MaxFiles
    /\ Within(a, max)
    /\ \A i \in DOMAIN a : /\ a[i].name \in Html \ Invalid /\ a[i].regular
                           /\ a[i].size = Size[a[i].body]
                           /\ \A j \in 1 .. i - 1 : a[j].name # a[i].name
Parses(a, max) ==
    /\ Len(a) \in 1 .. MaxFiles
    /\ Within(a, max)
    /\ \A i \in DOMAIN a : /\ a[i].name \in Html \ Invalid /\ a[i].regular
                           /\ a[i].size = Size[a[i].body]
                           /\ \A j \in 1 .. i - 1 : a[j].name # a[i].name
    /\ \E i \in DOMAIN a : a[i].name = <<Index>>

(* The files of a site that parses.                                          *)
Names(a) == ToSet([i \in DOMAIN a |-> a[i].name])
BytesOf(a) == Total([i \in DOMAIN a |-> Size[a[i].body]])

-----------------------------------------------------------------------------
BundleOK ==
    /\ dir \in [OnDisk -> File \cup {Absent}] /\ edits \in Nat
    /\ pc \in {"walk", "read", "packed", "failed", "blocked", "sent", "refused"}
    /\ todo \subseteq Seq(STRING)
    /\ DOMAIN measured \subseteq OnDisk \cap Html
    /\ measured \in [DOMAIN measured -> 0 .. PackBytes]
    /\ archive \in Seq(Entry)

(* What the walk has counted stays within the limits.                        *)
CountIsBounded == /\ IsFiniteSet(DOMAIN measured) /\ Cardinality(DOMAIN measured) <= MaxFiles
                  /\ Total(measured) <= PackBytes

(* The archive is made of files that were counted, each once and at the size *)
(* that was counted for it; a complete one has them all and the index.       *)
ArchiveIsCounted ==
    /\ pc = "walk" => archive = <<>>
    /\ pc \in {"read", "packed"} => todo = {} /\ <<Index>> \in DOMAIN measured
    /\ pc = "packed" => Packed = DOMAIN measured
    /\ Packed \subseteq DOMAIN measured
    /\ BytesOf(archive) = Total(Restrict(measured, Packed))
    /\ \A i \in DOMAIN archive :
          /\ archive[i].regular /\ archive[i].size = Size[archive[i].body]
          /\ \A j \in DOMAIN archive : archive[i].name = archive[j].name => i = j

(* In a directory that nobody touches, every file is counted or still below  *)
(* something that the walk has to come to.                                   *)
NothingIsMissed ==
    edits = 0 =>
        /\ dir \in Drafts
        /\ \A p \in DOMAIN measured : dir[p] # Absent
        /\ pc \in {"walk", "read", "packed"} =>
              \A p \in OnDisk : dir[p] # Absent =>
                  p \in DOMAIN measured \/ \E d \in todo : IsPrefix(d, p)
        /\ \A i \in DOMAIN archive : archive[i].body = dir[archive[i].name].body

BundleInv == BundleOK /\ CountIsBounded /\ ArchiveIsCounted /\ NothingIsMissed

(* Whatever changes under it, Pack writes no more bytes and counts no more   *)
(* files than its limits: what it reads goes into the archive only if its    *)
(* size is the one that was counted.  What it has read by then may be more.  *)
ArchiveBounded == /\ BytesOf(archive) <= PackBytes
                  /\ Cardinality(DOMAIN measured) <= MaxFiles

(* What Pack makes, Parse takes: the checks of the two are written twice and *)
(* agree, for a limit that is not below Pack's and names without a "\".      *)
PackedIsAccepted ==
    pc = "packed" /\ Packed \cap Invalid = {}
    => \A max \in PackBytes .. Word - 1 : Parses(archive, max)

(* An archive of a directory that nobody touched is all of that directory.   *)
PackedIsDirectory ==
    pc = "packed" /\ edits = 0
    => /\ Packed = {p \in OnDisk : dir[p] # Absent}
       /\ \A i \in DOMAIN archive : archive[i].body = dir[archive[i].name].body
=============================================================================
