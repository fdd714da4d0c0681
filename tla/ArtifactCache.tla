---------------------------- MODULE ArtifactCache ----------------------------
(***************************************************************************)
(* One pinned artifact in the -cache directory, and the invocations of     *)
(* fc-preflight that resolve it: resolveArtifact, fileHasDigest and        *)
(* extractFromTarGz.  Files are inodes behind two names, dest and          *)
(* dest.partial, because Create and O_TRUNC reuse the inode that a name    *)
(* has, Rename and Remove move the name only, and a process goes on        *)
(* writing to the inode it opened.  Nothing locks the directory.           *)
(*                                                                         *)
(* A file is Chunks chunks long.  A download is the pinned one or another  *)
(* ("bad"); SHA-256 tells them apart.                                      *)
(***************************************************************************)
EXTENDS Integers, FiniteSets

CONSTANTS Proc,    \* invocations that may run at the same time
          Chunks,  \* length of a file: the grain at which writers interleave
          Runs     \* bound: invocations in a behaviour, all processes together

ASSUME ProcAssumption == IsFiniteSet(Proc)
ASSUME BoundsAssumption == Chunks \in Nat \ {0} /\ Runs \in Nat

VARIABLES
    tarball,        \* a.member # "": the Firecracker release, not the kernel
    dest, partial,  \* the inode each name refers to, 0 if there is no such file
    data,           \* what each inode holds
    pc, pos, body,  \* per invocation: where it is, its offset, what it downloads
    out, arc,       \* the inodes it has open for writing and for reading, 0 if none
    runs

names == <<dest, partial>>
files == <<names, data>>
proc  == <<pc, pos, body, out, arc>>
vars  == <<tarball, files, proc, runs>>

\* Two names and two descriptors per process never hold more.
Inode == 1 .. 2 + 2 * Cardinality(Proc)
Chunk == {"none", "good", "bad"}
Blank == [c \in 1 .. Chunks |-> "none"]
Of(kind) == [c \in 1 .. Chunks |-> kind]

PC == {"idle", "look", "fetch", "copy", "rename", "open", "extract",
       "discard", "clean", "ok", "err"}

\* A cache that is empty, holds the artifact, or holds something else under its name.
Init ==
    /\ tarball \in BOOLEAN
    /\ \/ dest = 0 /\ data = [n \in Inode |-> Blank]
       \/ /\ dest = 1
          /\ \E kind \in {"good", "bad"} : data = [n \in Inode |-> IF n = 1 THEN Of(kind) ELSE Blank]
    /\ partial = 0
    /\ pc = [p \in Proc |-> "idle"] /\ pos = [p \in Proc |-> 1]
    /\ body = [p \in Proc |-> "good"]
    /\ out = [p \in Proc |-> 0] /\ arc = [p \in Proc |-> 0]
    /\ runs = 0

Goto(p, next) == pc' = [pc EXCEPT ![p] = next]

Free == CHOOSE n \in Inode : n \notin {dest, partial} \cup {out[p] : p \in Proc} \cup {arc[p] : p \in Proc}

\* Create, or OpenFile with O_CREATE and O_TRUNC, on a name that refers to `old`.
Opened(old) == IF old = 0 THEN Free ELSE old

Whole(n) == n # 0 /\ data[n] = Of("good")

Begin(p) ==
    /\ pc[p] = "idle" /\ runs < Runs
    /\ runs' = runs + 1 /\ Goto(p, "look")
    /\ UNCHANGED <<tarball, files, pos, body, out, arc>>

\* The digest is the download's: what is extracted from a tarball never has it.
fileHasDigest == ~tarball /\ Whole(dest)

\* -offline and a cache that cannot be made end it here.
Look(p) ==
    /\ pc[p] = "look"
    /\ \/ fileHasDigest /\ Goto(p, "ok")
       \/ ~fileHasDigest /\ (Goto(p, "fetch") \/ Goto(p, "err"))
    /\ UNCHANGED <<tarball, files, pos, body, out, arc, runs>>

\* Slip: downloaded straight to its place.
FetchInPlace(p) ==
    /\ pc[p] = "fetch"
    /\ \E kind \in {"good", "bad"} :
          /\ body' = [body EXCEPT ![p] = kind]
          /\ dest' = Opened(dest)
          /\ data' = [data EXCEPT ![dest'] = Blank]
          /\ out' = [out EXCEPT ![p] = dest'] /\ pos' = [pos EXCEPT ![p] = 1]
          /\ Goto(p, "copy")
    /\ UNCHANGED <<tarball, partial, arc, runs>>

\* The response, and os.Create of the .partial; either may fail.
Fetch(p) ==
    /\ pc[p] = "fetch"
    /\ \/ \E kind \in {"good", "bad"} :
             /\ body' = [body EXCEPT ![p] = kind]
             /\ partial' = Opened(partial)
             /\ data' = [data EXCEPT ![partial'] = Blank]
             /\ out' = [out EXCEPT ![p] = partial'] /\ pos' = [pos EXCEPT ![p] = 1]
             /\ Goto(p, "copy")
       \/ Goto(p, "err") /\ UNCHANGED <<body, partial, data, out, pos>>
    /\ UNCHANGED <<tarball, dest, arc, runs>>

\* Slip: one chunk too many.
MoreByOne(p) == pos[p] <= Chunks + 1

More(p) == pos[p] <= Chunks

Write(p, chunk) ==
    /\ data' = [data EXCEPT ![out[p]][pos[p]] = chunk]
    /\ pos' = [pos EXCEPT ![p] = @ + 1]

Close(p) == out' = [out EXCEPT ![p] = 0] /\ arc' = [arc EXCEPT ![p] = 0]

\* One write of io.Copy; a broken connection or a full disk ends the copy.
Copy(p) ==
    /\ pc[p] = "copy" /\ More(p)
    /\ \/ Write(p, body[p]) /\ UNCHANGED <<pc, out, arc>>
       \/ Goto(p, "discard") /\ Close(p) /\ UNCHANGED <<data, pos>>
    /\ UNCHANGED <<tarball, names, body, runs>>

\* The hash is of what was received, not of what the file holds.
Verify(p) ==
    /\ pc[p] = "copy" /\ ~More(p)
    /\ Close(p)
    /\ Goto(p, IF body[p] # "good" THEN "discard" ELSE IF tarball THEN "open" ELSE "rename")
    /\ UNCHANGED <<tarball, files, pos, body, runs>>

Rename(p) ==
    /\ pc[p] = "rename"
    /\ \/ partial # 0 /\ dest' = partial /\ partial' = 0 /\ Goto(p, "ok")
       \/ Goto(p, "err") /\ UNCHANGED names
    /\ UNCHANGED <<tarball, data, pos, body, out, arc, runs>>

(***************************************************************************)
(* extractFromTarGz writes the member over whatever dest is.  An archive   *)
(* with nothing at its start does not get as far as opening dest.          *)
(***************************************************************************)
OpenArchive(p) ==
    /\ pc[p] = "open"
    /\ \/ /\ partial # 0 /\ data[partial][1] # "none"
          /\ arc' = [arc EXCEPT ![p] = partial]
          /\ dest' = Opened(dest)
          /\ data' = [data EXCEPT ![dest'] = Blank]
          /\ out' = [out EXCEPT ![p] = dest'] /\ pos' = [pos EXCEPT ![p] = 1]
          /\ Goto(p, "extract")
       \/ Goto(p, "discard") /\ UNCHANGED <<dest, data, out, arc, pos>>
    /\ UNCHANGED <<tarball, partial, body, runs>>

\* Slip: the error lost behind os.Remove.
AfterExtractErrorLost == "clean"

AfterExtractError == "discard"

Extract(p) ==
    /\ pc[p] = "extract" /\ More(p)
    /\ \/ /\ data[arc[p]][pos[p]] # "none"
          /\ Write(p, data[arc[p]][pos[p]])
          /\ UNCHANGED <<pc, out, arc>>
       \/ Goto(p, AfterExtractError) /\ Close(p) /\ UNCHANGED <<data, pos>>
    /\ UNCHANGED <<tarball, names, body, runs>>

Extracted(p) ==
    /\ pc[p] = "extract" /\ ~More(p)
    /\ Close(p) /\ Goto(p, "clean")
    /\ UNCHANGED <<tarball, files, pos, body, runs>>

\* os.Remove(tmp), on an error and after an extraction; its own error is ignored.
RemovePartial(p) ==
    /\ pc[p] \in {"discard", "clean"}
    /\ partial' = 0
    /\ Goto(p, IF pc[p] = "clean" THEN "ok" ELSE "err")
    /\ UNCHANGED <<tarball, dest, data, pos, body, out, arc, runs>>

resolveArtifact(p) ==
    \/ Look(p) \/ Fetch(p) \/ Copy(p) \/ Verify(p) \/ Rename(p)
    \/ OpenArchive(p) \/ Extract(p) \/ Extracted(p) \/ RemovePartial(p)

\* The invocation ends, in its own time or killed; the kernel closes what it had open.
End(p) ==
    /\ pc[p] # "idle"
    /\ Goto(p, "idle") /\ Close(p)
    /\ UNCHANGED <<tarball, files, pos, body, runs>>

NoMoreRuns == runs = Runs /\ (\A p \in Proc : pc[p] = "idle") /\ UNCHANGED vars

Next ==
    \/ \E p \in Proc : Begin(p) \/ resolveArtifact(p) \/ End(p)
    \/ NoMoreRuns

Spec == Init /\ [][Next]_vars

-----------------------------------------------------------------------------
(* Properties.                                                             *)

\* Every variable keeps to the values the code can give it.
TypeOK ==
    /\ tarball \in BOOLEAN
    /\ dest \in Inode \cup {0} /\ partial \in Inode \cup {0}
    /\ data \in [Inode -> [1 .. Chunks -> Chunk]]
    /\ pc \in [Proc -> PC]
    /\ pos \in [Proc -> 1 .. Chunks + 1]
    /\ body \in [Proc -> {"good", "bad"}]
    /\ out \in [Proc -> Inode \cup {0}] /\ arc \in [Proc -> Inode \cup {0}]
    /\ runs \in 0 .. Runs

(***************************************************************************)
(* README: an artifact is verified before anything executes it.  When      *)
(* resolveArtifact has returned a path, the file there is the pinned one,  *)
(* whatever earlier invocations, killed at any point, have left behind.    *)
(***************************************************************************)
UsedIsVerified == \A p \in Proc : pc[p] = "ok" => Whole(dest)

(***************************************************************************)
(* The kernel appears under its name whole or not at all, and once there   *)
(* it stays: neither a failed download nor a crash at any point damages    *)
(* what the cache holds.                                                   *)
(***************************************************************************)
Held == IF dest = 0 THEN <<>> ELSE data[dest]

ArrivesWhole == [][~tarball /\ Held' # Held => Held' = Of("good")]_vars

-----------------------------------------------------------------------------
(* What a comment says and the code does not do.                           *)

(***************************************************************************)
(* resolveArtifact's comment: it downloads the artifact if it is not       *)
(* already in the cache directory.                                         *)
(***************************************************************************)
FetchesOnlyWhatIsMissing ==
    [][\A p \in Proc : pc[p] = "look" /\ pc'[p] = "fetch" => ~Whole(dest)]_vars

=============================================================================
