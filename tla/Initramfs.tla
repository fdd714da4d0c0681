------------------------------ MODULE Initramfs ------------------------------
(***************************************************************************)
(* The cpio archive that buildInitramfs writes and the guest's kernel      *)
(* unpacks.  A file's bytes are not spelled out: buf says for each entry   *)
(* where its header, its name and its data went, and the arithmetic of     *)
(* those offsets is the format's.  The kernel knows only what it finds at  *)
(* an offset, and the two sizes that a header states.                      *)
(***************************************************************************)
EXTENDS Integers, Sequences

CONSTANT Binaries  \* lengths the binary may have

\* Eight hexadecimal digits hold them, so a header is 110 bytes long.
ASSUME BinariesAssumption == Binaries \subseteq Nat

VARIABLES
    binary,    \* the length of this program, which becomes /init
    buf, len,  \* the entries written; buf.Len()
    pos,       \* where the kernel reads on
    unpacked,  \* the entries it has unpacked, in order
    reader     \* "waiting", "reading", "done"; it halts where it finds no header

writerVars  == <<binary, buf, len>>
readerVars  == <<pos, unpacked, reader>>
archiveVars == <<writerVars, readerVars>>

\* What buildInitramfs adds, in order.  A name is unpacked into the directory `in`.
Entry(name, length, in) == [name |-> name, length |-> length, in |-> in]

Entries ==
    << Entry("dev", 3, ""), Entry("proc", 4, ""), Entry("sys", 3, ""), Entry("tmp", 3, ""),
       Entry("dev/console", 11, "dev"),
       Entry("init", 4, "") >>

\* Entries are numbered; the one past the last is the trailer, "TRAILER!!!".
Trailer == Len(Entries) + 1
Member  == 1 .. Trailer

NameLen(k)  == IF k = Trailer THEN 10 ELSE Entries[k].length
FileSize(k) == IF k # Trailer /\ Entries[k].name = "init" THEN binary ELSE 0

HeaderLen == 110

c_namesize(k) == NameLen(k) + 1

ArchiveInit ==
    /\ binary \in Binaries /\ buf = <<>> /\ len = 0
    /\ pos = 0 /\ unpacked = <<>> /\ reader = "waiting"

-----------------------------------------------------------------------------
(* cpioWriter.                                                             *)

\* pad: zeros up to a multiple of 4.
Padded(n) == 4 * ((n + 3) \div 4)

\* Slip: data straight after the name.
AddUnpadded ==
    /\ reader = "waiting" /\ Len(buf) < Trailer
    /\ LET k    == Len(buf) + 1
           name == len + HeaderLen
           data == name + NameLen(k) + 1
       IN  /\ buf' = Append(buf, [header |-> len, name |-> name, data |-> data])
           /\ len' = Padded(data + FileSize(k))
    /\ UNCHANGED <<binary, readerVars>>

\* add, and finish for the trailer: header, name and NUL, pad, data, pad.
Add ==
    /\ reader = "waiting" /\ Len(buf) < Trailer
    /\ LET k    == Len(buf) + 1
           name == len + HeaderLen
           data == Padded(name + NameLen(k) + 1)
       IN  /\ buf' = Append(buf, [header |-> len, name |-> name, data |-> data])
           /\ len' = Padded(data + FileSize(k))
    /\ UNCHANGED <<binary, readerVars>>

-----------------------------------------------------------------------------
(* The kernel of the guest.                                                *)

StartKernel ==
    /\ reader = "waiting" /\ Len(buf) = Trailer
    /\ reader' = "reading"
    /\ UNCHANGED <<writerVars, pos, unpacked>>

\* Where the kernel looks for the data of a header with these sizes, and for the next.
Aligned(n)           == CHOOSE m \in n .. n + 3 : m % 4 = 0
DataAt(namesize)     == Aligned(pos + HeaderLen + namesize)
NextAt(namesize, sz) == Aligned(DataAt(namesize) + sz)

\* At pos there is the header of entry k, and its name and data where they are sought.
Finds(k) ==
    /\ buf[k].header = pos /\ pos + HeaderLen <= len
    /\ buf[k].name = pos + HeaderLen /\ c_namesize(k) = NameLen(k) + 1
    /\ FileSize(k) > 0 => buf[k].data = DataAt(c_namesize(k))

UnpackedName(name) == \E j \in 1 .. Len(unpacked) : Entries[unpacked[j]].name = name

\* A file in a directory that is not there is not made, and nobody is told.
Unpack(k) ==
    /\ reader = "reading" /\ k # Trailer /\ Finds(k)
    /\ unpacked' = IF Entries[k].in = "" \/ UnpackedName(Entries[k].in)
                   THEN Append(unpacked, k) ELSE unpacked
    /\ pos' = NextAt(c_namesize(k), FileSize(k))
    /\ UNCHANGED <<writerVars, reader>>

EndOfArchive ==
    /\ reader = "reading" /\ Finds(Trailer)
    /\ reader' = "done"
    /\ UNCHANGED <<writerVars, pos, unpacked>>

KernelUnpacks == (\E k \in Member : Unpack(k)) \/ EndOfArchive

ArchiveNext == Add \/ StartKernel \/ KernelUnpacks

ArchiveSpec == ArchiveInit /\ [][ArchiveNext]_archiveVars

-----------------------------------------------------------------------------
(* Properties.                                                             *)

Place == [header : Nat, name : Nat, data : Nat]

\* Every variable keeps to the values the code can give it.
ArchiveTypeOK ==
    /\ binary \in Binaries
    /\ buf \in Seq(Place) /\ Len(buf) <= Trailer
    /\ len \in Nat /\ pos \in Nat
    /\ unpacked \in Seq(1 .. Len(Entries))
    /\ reader \in {"waiting", "reading", "done"}

(***************************************************************************)
(* A malformed archive makes no noise: it boots a guest with no /init and  *)
(* hangs.  Whatever the length of the binary, the kernel finds an entry    *)
(* wherever it looks for one, and has at the end unpacked everything that  *)
(* was put in, in an order in which a file finds its directory made.       *)
(***************************************************************************)
ReadsBack ==
    /\ reader = "reading" => \E k \in Member : Finds(k)
    /\ reader = "done" => unpacked = [k \in 1 .. Len(Entries) |-> k]

=============================================================================
