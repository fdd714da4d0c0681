------------------------- MODULE ArtifactCacheProofs -------------------------
(***************************************************************************)
(* Proofs about ArtifactCache, for any length of the file and any number   *)
(* of invocations killed where they like: what holds of any number of them *)
(* at a time, what holds of them over a cache that has the kernel, and     *)
(* what holds where one runs at a time and not with two.                   *)
(***************************************************************************)
EXTENDS ArtifactCache, FiniteSetTheorems, TLAPS

USE ProcAssumption, BoundsAssumption

Content == [1 .. Chunks -> Chunk]

-----------------------------------------------------------------------------
(* Files.                                                                  *)

\* A file that holds one kind of chunk wherever one looks is that kind's file.
LEMMA AllOfAKind ==
    ASSUME NEW f \in Content, NEW kind, \A c \in 1 .. Chunks : f[c] = kind
    PROVE  f = Of(kind)
BY DEF Content, Of

LEMMA OfIsContent ==
    ASSUME NEW kind \in Chunk
    PROVE  Of(kind) \in Content /\ \A c \in 1 .. Chunks : Of(kind)[c] = kind
BY DEF Content, Of

LEMMA BlankIsContent == Blank \in Content
BY DEF Content, Blank, Chunk

\* A chunk written where one is may change that chunk of that file only.
LEMMA WriteAt ==
    ASSUME NEW me \in Proc, TypeOK, out[me] # 0, pos[me] <= Chunks,
           NEW chunk \in Chunk, Write(me, chunk)
    PROVE  /\ data' \in [Inode -> Content]
           /\ \A n \in Inode : n # out[me] => data'[n] = data[n]
           /\ \A c \in 1 .. Chunks : data'[out[me]][c] = IF c = pos[me] THEN chunk ELSE data[out[me]][c]
           /\ pos'[me] = pos[me] + 1
           /\ pos' \in [Proc -> 1 .. Chunks + 1]
<1> DEFINE o == out[me]
<1> DEFINE g == [data[o] EXCEPT ![pos[me]] = chunk]
<1>1. o \in Inode /\ pos[me] \in 1 .. Chunks /\ data \in [Inode -> Content]
    BY DEF TypeOK, Content
<1>2. data[o] \in Content
    BY <1>1
<1>3. g \in Content /\ \A c \in 1 .. Chunks : g[c] = IF c = pos[me] THEN chunk ELSE data[o][c]
    BY <1>1, <1>2 DEF Content
<1>4. data' = [data EXCEPT ![o] = g]
    BY DEF Write
<1> HIDE DEF g, o
<1>5. data' \in [Inode -> Content] /\ data'[o] = g /\ \A n \in Inode : n # o => data'[n] = data[n]
    BY <1>1, <1>3, <1>4
<1>6. pos'[me] = pos[me] + 1 /\ pos' \in [Proc -> 1 .. Chunks + 1]
    BY <1>1 DEF Write, TypeOK
<1>7. QED
    BY <1>3, <1>5, <1>6 DEF o

-----------------------------------------------------------------------------
(* There is always an inode for a file that is created.                    *)

\* A function has no more values than arguments.
LEMMA ValuesAreFew ==
    ASSUME NEW S, IsFiniteSet(S), NEW f
    PROVE  IsFiniteSet({f[x] : x \in S}) /\ Cardinality({f[x] : x \in S}) <= Cardinality(S)
<1> DEFINE T == {f[x] : x \in S}
           g == [x \in S |-> f[x]]
<1>1. g \in Surjection(S, T)
    BY DEF Surjection
<1>2. QED
    BY <1>1, FS_Surjection

\* Two sets together have no more elements than the two have.
LEMMA UnionIsSmall ==
    ASSUME NEW S, IsFiniteSet(S), NEW T, IsFiniteSet(T),
           NEW a \in Int, Cardinality(S) <= a, NEW b \in Int, Cardinality(T) <= b
    PROVE  IsFiniteSet(S \cup T) /\ Cardinality(S \cup T) <= a + b
<1>1. IsFiniteSet(S \cap T)
    BY FS_Intersection
<1>2. Cardinality(S) \in Nat /\ Cardinality(T) \in Nat /\ Cardinality(S \cap T) \in Nat
    BY <1>1, FS_CardinalityType
<1>3. IsFiniteSet(S \cup T) /\ Cardinality(S \cup T) = Cardinality(S) + Cardinality(T) - Cardinality(S \cap T)
    BY FS_Union
<1>4. QED
    BY <1>2, <1>3

\* A smaller set leaves some element of a larger one out.
LEMMA TooFewToCover ==
    ASSUME NEW S, IsFiniteSet(S), NEW T, Cardinality(S) < Cardinality(T)
    PROVE  \E m \in T : m \notin S
<1>1. SUFFICES ASSUME T \subseteq S PROVE FALSE
    OBVIOUS
<1>2. IsFiniteSet(T) /\ Cardinality(T) <= Cardinality(S)
    BY <1>1, FS_Subset
<1>3. Cardinality(T) \in Nat /\ Cardinality(S) \in Nat
    BY <1>2, FS_CardinalityType
<1>4. QED
    BY <1>2, <1>3

\* However many invocations hold files open, one that holds none finds a free inode.
LEMMA FreeIsFree ==
    ASSUME TypeOK, NEW me \in Proc, out[me] = 0, arc[me] = 0
    PROVE  Free \in Inode /\ Free # 0 /\ Free # dest /\ Free # partial
<1> DEFINE others == Proc \ {me}
           outs == {out[p] : p \in others}
           arcs == {arc[p] : p \in others}
           used == {dest, partial} \cup (outs \cup arcs)
           n == Cardinality(Proc)
           most == n - 1
<1>1. n \in Nat /\ IsFiniteSet(others) /\ Cardinality(others) = most /\ most \in Int
    BY FS_CardinalityType, FS_RemoveElement
<1> HIDE DEF most
<1>2. /\ IsFiniteSet(outs) /\ Cardinality(outs) <= most
      /\ IsFiniteSet(arcs) /\ Cardinality(arcs) <= most
    BY <1>1, ValuesAreFew
<1>3. IsFiniteSet({dest, partial}) /\ Cardinality({dest, partial}) <= 1 + 1
    <2>1. ASSUME NEW x PROVE IsFiniteSet({x}) /\ Cardinality({x}) <= 1
        <3>1. IsFiniteSet({x}) /\ Cardinality({x}) = 1
            BY FS_Singleton, Zenon
        <3>2. QED
            BY <3>1
    <2>2. IsFiniteSet({dest} \cup {partial}) /\ Cardinality({dest} \cup {partial}) <= 1 + 1
        BY <2>1, 1 \in Int, UnionIsSmall, Zenon
    <2>3. {dest, partial} = {dest} \cup {partial}
        OBVIOUS
    <2>4. QED
        BY <2>2, <2>3
<1> HIDE DEF outs, arcs
<1>4. IsFiniteSet(outs \cup arcs) /\ Cardinality(outs \cup arcs) <= most + most
    BY <1>1, <1>2, UnionIsSmall, Zenon
<1>5. IsFiniteSet(used) /\ Cardinality(used) <= (1 + 1) + (most + most)
    <2>1. 1 + 1 \in Int /\ most + most \in Int
        BY <1>1
    <2>2. QED
        BY <1>3, <1>4, <2>1, UnionIsSmall, Zenon
<1>6. Cardinality(Inode) = 2 + 2 * n
    BY <1>1, FS_Interval DEF Inode
<1> HIDE DEF n, used
<1>7. Cardinality(used) < Cardinality(Inode)
    BY <1>1, <1>5, <1>6, FS_CardinalityType DEF most
<1>8. PICK m \in Inode : m \notin used
    BY <1>5, <1>7, TooFewToCover
<1>9. m \notin {dest, partial} \cup {out[p] : p \in Proc} \cup {arc[p] : p \in Proc}
    <2>1. m # 0
        BY DEF Inode
    <2>2. QED
        BY <1>8, <2>1 DEF used, outs, arcs
<1>10. Free \in Inode /\ Free # dest /\ Free # partial
    BY <1>9 DEF Free
<1>11. QED
    BY <1>10 DEF Inode

-----------------------------------------------------------------------------
(* Any number of invocations at a time.                                    *)

(***************************************************************************)
(* The inductive invariant.  The two names never refer to one file, and an *)
(* invocation that reads or writes has a file open for it, never one file  *)
(* for both.  Whether that file still has a name, and what else writes to  *)
(* it, nobody can say when two download at once.                           *)
(***************************************************************************)
Apart == dest # 0 /\ partial # 0 => dest # partial

Handles(p) ==
    /\ pc[p] \notin {"copy", "extract"} => out[p] = 0 /\ arc[p] = 0
    /\ pc[p] = "copy" => out[p] # 0 /\ arc[p] = 0
    /\ pc[p] = "extract" => out[p] # 0 /\ arc[p] # 0 /\ out[p] # arc[p]

SharedInv == TypeOK /\ Apart /\ \A p \in Proc : Handles(p)

\* A cache nobody has touched yet, whatever it holds.
LEMMA InitShared == Init => SharedInv
<1> SUFFICES ASSUME Init PROVE SharedInv
    OBVIOUS
<1>1. Cardinality(Proc) \in Nat
    BY FS_CardinalityType
<1>2. 1 \in Inode
    BY <1>1 DEF Inode
<1>3. data \in [Inode -> Content]
    <2>1. CASE data = [n \in Inode |-> Blank]
        BY <2>1, BlankIsContent
    <2>2. CASE \E kind \in {"good", "bad"} : data = [n \in Inode |-> IF n = 1 THEN Of(kind) ELSE Blank]
        BY <2>2, BlankIsContent, OfIsContent DEF Chunk
    <2>3. QED
        BY <2>1, <2>2 DEF Init
<1>4. TypeOK
    <2>1. 1 \in 1 .. Chunks + 1 /\ 0 \in 0 .. Runs
        OBVIOUS
    <2>2. QED
        BY <1>2, <1>3, <2>1 DEF Init, TypeOK, Content, PC
<1>5. Apart /\ (\A p \in Proc : Handles(p))
    BY DEF Init, Apart, Handles
<1>6. QED
    BY <1>4, <1>5 DEF SharedInv

\* An invocation moves its own program counter and its own descriptors.
LEMMA HandlesFrame ==
    ASSUME NEW p \in Proc, Handles(p), pc'[p] = pc[p], out'[p] = out[p], arc'[p] = arc[p]
    PROVE  Handles(p)'
BY DEF Handles

\* Where a file is created, the two names keep apart.
LEMMA CreatesApart ==
    ASSUME SharedInv, NEW p \in Proc, Fetch(p) \/ OpenArchive(p)
    PROVE  /\ Opened(partial) \in Inode /\ Opened(partial) # 0 /\ Opened(partial) # dest
           /\ Opened(dest) \in Inode /\ Opened(dest) # 0 /\ Opened(dest) # partial
<1>1. TypeOK /\ out[p] = 0 /\ arc[p] = 0
    BY DEF SharedInv, Handles, Fetch, OpenArchive
<1>2. Free \in Inode /\ Free # 0 /\ Free # dest /\ Free # partial
    BY <1>1, FreeIsFree
<1>3. 0 \notin Inode
    BY DEF Inode
<1>4. QED
    BY <1>2, <1>3 DEF Opened, SharedInv, TypeOK, Apart

\* The steps of one invocation, whatever the others are at.
LEMMA SharedStepOf ==
    ASSUME SharedInv, NEW p \in Proc, Begin(p) \/ resolveArtifact(p) \/ End(p)
    PROVE  /\ TypeOK' /\ Apart' /\ Handles(p)'
           /\ \A q \in Proc : q # p => pc'[q] = pc[q] /\ out'[q] = out[q] /\ arc'[q] = arc[q]
<1> USE DEF SharedInv, Goto
<1> DEFINE Others == \A q \in Proc : q # p => pc'[q] = pc[q] /\ out'[q] = out[q] /\ arc'[q] = arc[q]
           Kept == TypeOK' /\ Apart' /\ Handles(p)' /\ Others
<1>1. CASE Begin(p)
    BY <1>1 DEF Begin, TypeOK, Apart, Handles, files, names, PC
<1>2. CASE Look(p)
    BY <1>2 DEF Look, TypeOK, Apart, Handles, files, names, PC
<1>3. CASE Fetch(p)
    <2>1. CASE pc'[p] = "err"
        BY <1>3, <2>1 DEF Fetch, TypeOK, Apart, Handles, PC
    <2>2. CASE pc'[p] = "copy"
        <3>1. PICK kind \in {"good", "bad"} :
                  /\ body' = [body EXCEPT ![p] = kind]
                  /\ partial' = Opened(partial)
                  /\ data' = [data EXCEPT ![partial'] = Blank]
                  /\ out' = [out EXCEPT ![p] = partial'] /\ pos' = [pos EXCEPT ![p] = 1]
                  /\ pc' = [pc EXCEPT ![p] = "copy"]
            BY <1>3, <2>2 DEF Fetch, TypeOK
        <3>2. UNCHANGED <<tarball, dest, arc, runs>>
            BY <1>3 DEF Fetch
        <3>3. partial' \in Inode /\ partial' # 0 /\ partial' # dest
            BY <1>3, <3>1, CreatesApart
        <3>4. data' \in [Inode -> Content]
            BY <3>1, <3>3, BlankIsContent DEF TypeOK, Content
        <3>5. TypeOK'
            BY <3>1, <3>2, <3>3, <3>4 DEF TypeOK, Content, PC
        <3>6. arc[p] = 0
            BY <1>3 DEF Fetch, Handles
        <3>7. Apart' /\ Handles(p)' /\ Others
            BY <3>1, <3>2, <3>3, <3>6 DEF TypeOK, Apart, Handles
        <3>8. QED
            BY <3>5, <3>7
    <2>3. QED
        BY <1>3, <2>1, <2>2 DEF Fetch, TypeOK
<1>4. ASSUME NEW chunk \in Chunk, pc[p] \in {"copy", "extract"}, More(p), Write(p, chunk),
             UNCHANGED <<pc, out, arc, tarball, names, body, runs>>
      PROVE  Kept
    <2>1. out[p] # 0 /\ pos[p] <= Chunks /\ TypeOK
        BY <1>4 DEF Handles, More
    <2>2. data' \in [Inode -> Content] /\ pos' \in [Proc -> 1 .. Chunks + 1]
        BY <1>4, <2>1, WriteAt
    <2>3. QED
        BY <1>4, <2>1, <2>2 DEF TypeOK, Content, Apart, Handles, names
<1>5. ASSUME NEW next \in PC \ {"copy", "extract"}, pc' = [pc EXCEPT ![p] = next], Close(p),
             UNCHANGED <<tarball, files, pos, body, runs>>
      PROVE  Kept
    BY <1>5 DEF Close, TypeOK, Apart, Handles, files, names
<1>6. CASE Copy(p)
    <2>1. body[p] \in Chunk
        BY DEF TypeOK, Chunk
    <2>2. CASE Write(p, body[p]) /\ UNCHANGED <<pc, out, arc>>
        BY <1>4, <1>6, <2>1, <2>2 DEF Copy
    <2>3. CASE Goto(p, "discard") /\ Close(p) /\ UNCHANGED <<data, pos>>
        BY <1>5, <1>6, <2>3 DEF Copy, files, PC
    <2>4. QED
        BY <1>6, <2>2, <2>3 DEF Copy
<1>7. CASE Verify(p)
    <2>1. PICK next \in {"discard", "open", "rename"} : Goto(p, next)
        BY <1>7 DEF Verify
    <2>2. next \in PC \ {"copy", "extract"}
        BY DEF PC
    <2>3. QED
        BY <1>5, <1>7, <2>1, <2>2 DEF Verify
<1>8. CASE Rename(p)
    BY <1>8 DEF Rename, TypeOK, Apart, Handles, names, PC
<1>9. CASE OpenArchive(p)
    <2>1. CASE pc'[p] = "discard"
        BY <1>9, <2>1 DEF OpenArchive, TypeOK, Apart, Handles, PC
    <2>2. CASE pc'[p] = "extract"
        <3>1. /\ partial # 0
              /\ arc' = [arc EXCEPT ![p] = partial]
              /\ dest' = Opened(dest)
              /\ data' = [data EXCEPT ![dest'] = Blank]
              /\ out' = [out EXCEPT ![p] = dest'] /\ pos' = [pos EXCEPT ![p] = 1]
              /\ pc' = [pc EXCEPT ![p] = "extract"]
              /\ UNCHANGED <<tarball, partial, body, runs>>
            BY <1>9, <2>2 DEF OpenArchive, TypeOK
        <3>2. dest' \in Inode /\ dest' # 0 /\ dest' # partial
            BY <1>9, <3>1, CreatesApart
        <3>3. data' \in [Inode -> Content]
            BY <3>1, <3>2, BlankIsContent DEF TypeOK, Content
        <3>4. TypeOK'
            BY <3>1, <3>2, <3>3 DEF TypeOK, Content, PC
        <3>5. Apart' /\ Handles(p)' /\ Others
            BY <3>1, <3>2 DEF TypeOK, Apart, Handles
        <3>6. QED
            BY <3>4, <3>5
    <2>3. QED
        BY <1>9, <2>1, <2>2 DEF OpenArchive, TypeOK
<1>10. CASE Extract(p)
    <2>1. data[arc[p]][pos[p]] \in Chunk
        BY <1>10 DEF Extract, More, TypeOK, Handles
    <2>2. CASE Write(p, data[arc[p]][pos[p]]) /\ UNCHANGED <<pc, out, arc>>
        BY <1>4, <1>10, <2>1, <2>2 DEF Extract
    <2>3. CASE Goto(p, AfterExtractError) /\ Close(p) /\ UNCHANGED <<data, pos>>
        BY <1>5, <1>10, <2>3 DEF Extract, AfterExtractError, files, PC
    <2>4. QED
        BY <1>10, <2>2, <2>3 DEF Extract
<1>11. CASE Extracted(p)
    BY <1>5, <1>11 DEF Extracted, PC
<1>12. CASE RemovePartial(p)
    BY <1>12 DEF RemovePartial, TypeOK, Apart, Handles, PC
<1>13. CASE End(p)
    BY <1>5, <1>13 DEF End, PC
<1>14. QED
    BY <1>1, <1>2, <1>3, <1>6, <1>7, <1>8, <1>9, <1>10, <1>11, <1>12, <1>13 DEF resolveArtifact

(***************************************************************************)
(* Any number of invocations at once, each killed where it may be: dest    *)
(* and its .partial are never one file, no invocation reads the file it    *)
(* is writing, and none writes to a file it has not opened.                *)
(***************************************************************************)
THEOREM SharedInvariance == Spec => []SharedInv
<1>1. ASSUME SharedInv, [Next]_vars PROVE SharedInv'
    <2>1. ASSUME NEW p \in Proc, Begin(p) \/ resolveArtifact(p) \/ End(p) PROVE SharedInv'
        <3>1. \A q \in Proc : Handles(q)'
            BY <1>1, <2>1, SharedStepOf, HandlesFrame DEF SharedInv
        <3>2. QED
            BY <1>1, <2>1, <3>1, SharedStepOf DEF SharedInv
    <2>2. CASE UNCHANGED vars
        BY <1>1, <2>2 DEF SharedInv, TypeOK, Apart, Handles, vars, files, names, proc
    <2>3. QED
        BY <1>1, <2>1, <2>2 DEF Next, NoMoreRuns
<1>2. QED
    BY <1>1, InitShared, PTL DEF Spec

(***************************************************************************)
(* Every variable of the cache keeps to its type, however many invocations *)
(* share it: no write past the end of a file, no descriptor of a file that *)
(* does not exist, and always an inode for a file that is created.         *)
(***************************************************************************)
THEOREM CacheTypeCorrect == Spec => []TypeOK
<1>1. SharedInv => TypeOK
    BY DEF SharedInv
<1>2. QED
    BY <1>1, SharedInvariance, PTL

-----------------------------------------------------------------------------
(* A cache that has the kernel.                                            *)

\* The kernel is there whole and nobody is about to touch it.
Served ==
    /\ ~tarball /\ Whole(dest)
    /\ \A p \in Proc : pc[p] \in {"idle", "look", "ok", "err"}

(***************************************************************************)
(* Once the cache holds the pinned kernel and no invocation is fetching    *)
(* it, any number of them may use it at once, for ever: each is handed the *)
(* pinned kernel and none downloads it again.  The race of two downloads   *)
(* needs a cold cache.                                                     *)
(***************************************************************************)
THEOREM WarmCacheServesAll == Spec => [](Served => [](Served /\ UsedIsVerified))
<1>1. ASSUME Served, TypeOK, [Next]_vars PROVE Served'
    <2>1. ASSUME NEW p \in Proc, Begin(p) \/ Look(p) \/ End(p) PROVE Served'
        <3>1. UNCHANGED <<tarball, dest, data>>
            BY <2>1 DEF Begin, Look, End, files, names
        <3>2. \A q \in Proc : pc'[q] \in {"idle", "look", "ok", "err"}
            BY <1>1, <2>1 DEF Served, Begin, Look, fileHasDigest, End, Goto, TypeOK
        <3>3. QED
            BY <1>1, <3>1, <3>2 DEF Served, Whole
    <2>2. ASSUME NEW p \in Proc, resolveArtifact(p) PROVE Look(p)
        BY <1>1, <2>2 DEF resolveArtifact, Served, Fetch, Copy, Verify, Rename, OpenArchive,
                          Extract, Extracted, RemovePartial
    <2>3. CASE UNCHANGED vars
        BY <1>1, <2>3 DEF vars, files, names, proc, Served, Whole
    <2>4. QED
        BY <1>1, <2>1, <2>2, <2>3 DEF Next, NoMoreRuns
<1>2. Served => UsedIsVerified
    BY DEF Served, UsedIsVerified
<1>3. QED
    BY <1>1, <1>2, CacheTypeCorrect, PTL DEF Spec

-----------------------------------------------------------------------------
(* One invocation at a time.                                               *)

(***************************************************************************)
(* The inductive invariant.  What is open is what has a name, and what was *)
(* received is in the .partial, what was extracted in dest, up to the      *)
(* position reached.                                                       *)
(***************************************************************************)
Descriptors(p) ==
    /\ pc[p] \notin {"copy", "extract"} => out[p] = 0 /\ arc[p] = 0
    /\ pc[p] = "copy" => partial # 0 /\ out[p] = partial /\ arc[p] = 0
    /\ pc[p] = "extract" => dest # 0 /\ out[p] = dest /\ partial # 0 /\ arc[p] = partial

Contents(p) ==
    /\ pc[p] = "copy" => \A c \in 1 .. Chunks : c < pos[p] => data[partial][c] = body[p]
    /\ pc[p] \in {"rename", "open", "extract"} => partial # 0 /\ data[partial] = Of("good")
    /\ pc[p] = "rename" => ~tarball
    /\ pc[p] \in {"open", "extract", "clean"} => tarball
    /\ pc[p] = "extract" => \A c \in 1 .. Chunks : c < pos[p] => data[dest][c] = "good"
    /\ pc[p] \in {"clean", "ok"} => dest # 0 /\ data[dest] = Of("good")

CacheInv == TypeOK /\ Apart /\ (\A p \in Proc : Descriptors(p) /\ Contents(p))

LEMMA CacheInvInit ==
    ASSUME Init
    PROVE  CacheInv
BY InitShared DEF SharedInv, CacheInv, Init, Descriptors, Contents

LEMMA BeginKeeps ==
    ASSUME NEW me, Proc = {me}, CacheInv, Begin(me)
    PROVE  CacheInv'
BY DEF CacheInv, TypeOK, Apart, Descriptors, Contents, Begin, Goto, files, names, PC

LEMMA LookKeeps ==
    ASSUME NEW me, Proc = {me}, CacheInv, Look(me)
    PROVE  CacheInv'
BY DEF CacheInv, TypeOK, Apart, Descriptors, Contents, Look, fileHasDigest, Whole, Goto, files, names, PC

LEMMA VerifyKeeps ==
    ASSUME NEW me, Proc = {me}, CacheInv, Verify(me)
    PROVE  CacheInv'
<1>1. TypeOK' /\ Apart'
    BY DEF CacheInv, TypeOK, Apart, Verify, Close, Goto, files, names, PC
<1>2. Descriptors(me)'
    BY DEF CacheInv, TypeOK, Descriptors, Verify, Close, Goto, files, names
<1>3. ASSUME body[me] = "good"
      PROVE  partial # 0 /\ data[partial] = Of("good")
    <2>1. pc[me] = "copy" /\ partial # 0 /\ pos[me] = Chunks + 1
        BY DEF CacheInv, TypeOK, Descriptors, Verify, More
    <2>2. data[partial] \in Content
        BY <2>1 DEF CacheInv, TypeOK, Content
    <2>3. \A c \in 1 .. Chunks : data[partial][c] = "good"
        BY <1>3, <2>1 DEF CacheInv, Contents
    <2>4. QED
        BY <2>1, <2>2, <2>3, AllOfAKind
<1>4. Contents(me)'
    BY <1>3 DEF CacheInv, TypeOK, Contents, Verify, Close, Goto, files, names
<1>5. QED
    BY <1>1, <1>2, <1>4 DEF CacheInv

LEMMA RenameKeeps ==
    ASSUME NEW me, Proc = {me}, CacheInv, Rename(me)
    PROVE  CacheInv'
BY DEF CacheInv, TypeOK, Apart, Descriptors, Contents, Rename, Goto, names, PC

LEMMA RemovePartialKeeps ==
    ASSUME NEW me, Proc = {me}, CacheInv, RemovePartial(me)
    PROVE  CacheInv'
BY DEF CacheInv, TypeOK, Apart, Descriptors, Contents, RemovePartial, Goto, PC

LEMMA ExtractedKeeps ==
    ASSUME NEW me, Proc = {me}, CacheInv, Extracted(me)
    PROVE  CacheInv'
<1>1. TypeOK' /\ Apart' /\ Descriptors(me)'
    BY DEF CacheInv, TypeOK, Apart, Descriptors, Extracted, Close, Goto, files, names, PC
<1>2. dest # 0 /\ data[dest] = Of("good")
    <2>1. pc[me] = "extract" /\ dest # 0 /\ pos[me] = Chunks + 1
        BY DEF CacheInv, TypeOK, Descriptors, Extracted, More
    <2>2. data[dest] \in Content
        BY <2>1 DEF CacheInv, TypeOK, Content
    <2>3. \A c \in 1 .. Chunks : data[dest][c] = "good"
        BY <2>1 DEF CacheInv, Contents
    <2>4. QED
        BY <2>1, <2>2, <2>3, AllOfAKind
<1>3. Contents(me)'
    BY <1>2 DEF CacheInv, TypeOK, Contents, Extracted, Close, Goto, files, names
<1>4. QED
    BY <1>1, <1>3 DEF CacheInv

LEMMA EndKeeps ==
    ASSUME NEW me, Proc = {me}, CacheInv, End(me)
    PROVE  CacheInv'
BY DEF CacheInv, TypeOK, Apart, Descriptors, Contents, End, Close, Goto, files, names, PC

LEMMA FetchKeeps ==
    ASSUME NEW me, Proc = {me}, CacheInv, Fetch(me)
    PROVE  CacheInv'
<1>1. pc[me] = "fetch" /\ out[me] = 0 /\ arc[me] = 0 /\ TypeOK
    BY DEF CacheInv, Descriptors, Fetch
<1>2. CASE Goto(me, "err") /\ UNCHANGED <<body, partial, data, out, pos>>
    BY <1>1, <1>2 DEF CacheInv, TypeOK, Apart, Descriptors, Contents, Fetch, Goto, PC
<1>3. CASE \E kind \in {"good", "bad"} :
               /\ body' = [body EXCEPT ![me] = kind]
               /\ partial' = Opened(partial)
               /\ data' = [data EXCEPT ![partial'] = Blank]
               /\ out' = [out EXCEPT ![me] = partial'] /\ pos' = [pos EXCEPT ![me] = 1]
               /\ Goto(me, "copy")
    <2>1. partial' \in Inode /\ partial' # 0 /\ partial' # dest
        BY <1>1, <1>3, FreeIsFree DEF CacheInv, TypeOK, Apart, Opened, Inode
    <2>2. dest' = dest /\ arc' = arc /\ tarball' = tarball /\ runs' = runs
        BY DEF Fetch
    <2>3. data' \in [Inode -> Content]
        BY <1>1, <1>3, <2>1, BlankIsContent DEF TypeOK, Content
    <2>4. TypeOK'
        BY <1>1, <1>3, <2>1, <2>2, <2>3 DEF TypeOK, Content, Goto, PC
    <2>5. Apart' /\ Descriptors(me)'
        BY <1>1, <1>3, <2>1, <2>2 DEF TypeOK, Apart, Descriptors, Goto
    <2>6. Contents(me)'
        BY <1>1, <1>3, <2>1, <2>2 DEF TypeOK, Contents, Goto
    <2>7. QED
        BY <2>4, <2>5, <2>6 DEF CacheInv
<1>4. QED
    BY <1>2, <1>3 DEF Fetch

LEMMA OpenArchiveKeeps ==
    ASSUME NEW me, Proc = {me}, CacheInv, OpenArchive(me)
    PROVE  CacheInv'
<1>1. /\ pc[me] = "open" /\ out[me] = 0 /\ arc[me] = 0 /\ TypeOK
      /\ tarball /\ partial # 0 /\ data[partial] = Of("good")
      /\ UNCHANGED <<tarball, partial, body, runs>>
    BY DEF CacheInv, Descriptors, Contents, OpenArchive
<1>2. CASE Goto(me, "discard") /\ UNCHANGED <<dest, data, out, arc, pos>>
    BY <1>1, <1>2 DEF CacheInv, TypeOK, Apart, Descriptors, Contents, Goto, PC
<1>3. CASE /\ arc' = [arc EXCEPT ![me] = partial]
           /\ dest' = Opened(dest)
           /\ data' = [data EXCEPT ![dest'] = Blank]
           /\ out' = [out EXCEPT ![me] = dest'] /\ pos' = [pos EXCEPT ![me] = 1]
           /\ Goto(me, "extract")
    <2>1. dest' \in Inode /\ dest' # 0 /\ dest' # partial
        BY <1>1, <1>3, FreeIsFree DEF CacheInv, TypeOK, Apart, Opened, Inode
    <2>2. data' \in [Inode -> Content]
        BY <1>1, <1>3, <2>1, BlankIsContent DEF TypeOK, Content
    <2>3. TypeOK'
        BY <1>1, <1>3, <2>1, <2>2 DEF TypeOK, Content, Goto, PC
    <2>4. Apart' /\ Descriptors(me)'
        BY <1>1, <1>3, <2>1 DEF TypeOK, Apart, Descriptors, Goto
    <2>5. Contents(me)'
        BY <1>1, <1>3, <2>1 DEF TypeOK, Contents, Goto
    <2>6. QED
        BY <2>3, <2>4, <2>5 DEF CacheInv
<1>4. QED
    BY <1>2, <1>3 DEF OpenArchive

LEMMA CopyKeeps ==
    ASSUME NEW me, Proc = {me}, CacheInv, Copy(me)
    PROVE  CacheInv'
<1>1. /\ pc[me] = "copy" /\ pos[me] <= Chunks /\ TypeOK
      /\ partial # 0 /\ out[me] = partial /\ arc[me] = 0 /\ dest # partial
      /\ UNCHANGED <<tarball, names, body, runs>>
    BY DEF CacheInv, Descriptors, Apart, Copy, More
<1>2. CASE Goto(me, "discard") /\ Close(me) /\ UNCHANGED <<data, pos>>
    BY <1>1, <1>2 DEF CacheInv, TypeOK, Apart, Descriptors, Contents, Goto, Close, names, PC
<1>3. CASE Write(me, body[me]) /\ UNCHANGED <<pc, out, arc>>
    <2>1. body[me] \in Chunk
        BY <1>1 DEF TypeOK, Chunk
    <2>2. /\ data' \in [Inode -> Content]
          /\ \A c \in 1 .. Chunks : data'[partial][c] = IF c = pos[me] THEN body[me] ELSE data[partial][c]
          /\ pos'[me] = pos[me] + 1
          /\ pos' \in [Proc -> 1 .. Chunks + 1]
        <3>1. TypeOK /\ out[me] # 0 /\ pos[me] <= Chunks /\ Write(me, body[me])
            BY <1>1, <1>3
        <3>2. /\ data' \in [Inode -> Content]
              /\ \A c \in 1 .. Chunks : data'[out[me]][c] = IF c = pos[me] THEN body[me] ELSE data[out[me]][c]
              /\ pos'[me] = pos[me] + 1
              /\ pos' \in [Proc -> 1 .. Chunks + 1]
            BY <2>1, <3>1, WriteAt, Zenon
        <3>3. QED
            BY <1>1, <3>2
    <2>3. TypeOK'
        BY <1>1, <1>3, <2>2 DEF TypeOK, Content, names
    <2>4. Apart' /\ Descriptors(me)'
        BY <1>1, <1>3 DEF Apart, Descriptors, names
    <2>5. \A c \in 1 .. Chunks : c < pos'[me] => data'[partial][c] = body[me]
        <3>1. SUFFICES ASSUME NEW c \in 1 .. Chunks, c < pos'[me]
              PROVE  data'[partial][c] = body[me]
            OBVIOUS
        <3>2. CASE c = pos[me]
            BY <2>2, <3>2
        <3>3. CASE c # pos[me]
            <4>1. c < pos[me]
                BY <1>1, <2>2, <3>1, <3>3 DEF TypeOK
            <4>2. data[partial][c] = body[me]
                BY <1>1, <4>1 DEF CacheInv, Contents
            <4>3. QED
                BY <2>2, <3>3, <4>2
        <3>4. QED
            BY <3>2, <3>3
    <2>6. Contents(me)'
        BY <1>1, <1>3, <2>5 DEF Contents, names
    <2>7. QED
        BY <2>3, <2>4, <2>6 DEF CacheInv
<1>4. QED
    BY <1>2, <1>3 DEF Copy

LEMMA ExtractKeeps ==
    ASSUME NEW me, Proc = {me}, CacheInv, Extract(me)
    PROVE  CacheInv'
<1>1. /\ pc[me] = "extract" /\ pos[me] <= Chunks /\ TypeOK /\ tarball
      /\ dest # 0 /\ out[me] = dest /\ partial # 0 /\ arc[me] = partial /\ dest # partial
      /\ data[partial] = Of("good") /\ pos[me] \in 1 .. Chunks /\ partial \in Inode
      /\ UNCHANGED <<tarball, names, body, runs>>
    BY DEF CacheInv, TypeOK, Descriptors, Contents, Apart, Extract, More
<1>2. CASE Goto(me, AfterExtractError) /\ Close(me) /\ UNCHANGED <<data, pos>>
    BY <1>1, <1>2 DEF CacheInv, TypeOK, Apart, Descriptors, Contents, Goto, Close, names, PC, AfterExtractError
<1>3. CASE Write(me, data[arc[me]][pos[me]]) /\ UNCHANGED <<pc, out, arc>>
    <2>1. "good" \in Chunk
        BY DEF Chunk
    <2>2. data[arc[me]][pos[me]] = "good"
        BY <1>1, <2>1, OfIsContent
    <2>3. Write(me, "good")
        BY <1>3, <2>2
    <2>4. /\ data' \in [Inode -> Content]
          /\ \A n \in Inode : n # out[me] => data'[n] = data[n]
          /\ \A c \in 1 .. Chunks : data'[out[me]][c] = IF c = pos[me] THEN "good" ELSE data[out[me]][c]
          /\ pos'[me] = pos[me] + 1
          /\ pos' \in [Proc -> 1 .. Chunks + 1]
        <3>1. TypeOK /\ out[me] # 0 /\ pos[me] <= Chunks
            BY <1>1
        <3>2. QED
            BY <2>1, <2>3, <3>1, WriteAt, Zenon
    <2>5. /\ data'[partial] = data[partial]
          /\ \A c \in 1 .. Chunks : data'[dest][c] = IF c = pos[me] THEN "good" ELSE data[dest][c]
        BY <1>1, <2>4
    <2>6. TypeOK'
        BY <1>1, <1>3, <2>4 DEF TypeOK, Content, names
    <2>7. Apart' /\ Descriptors(me)'
        BY <1>1, <1>3 DEF Apart, Descriptors, names
    <2>8. \A c \in 1 .. Chunks : c < pos'[me] => data'[dest][c] = "good"
        <3>1. SUFFICES ASSUME NEW c \in 1 .. Chunks, c < pos'[me]
              PROVE  data'[dest][c] = "good"
            OBVIOUS
        <3>2. CASE c = pos[me]
            BY <2>4, <2>5, <3>2
        <3>3. CASE c # pos[me]
            <4>1. c < pos[me]
                BY <1>1, <2>4, <3>1, <3>3
            <4>2. data[dest][c] = "good"
                BY <1>1, <4>1 DEF CacheInv, Contents
            <4>3. QED
                BY <2>5, <3>3, <4>2
        <3>4. QED
            BY <3>2, <3>3
    <2>9. Contents(me)'
        BY <1>1, <1>3, <2>5, <2>8 DEF Contents, names
    <2>10. QED
        BY <2>6, <2>7, <2>9 DEF CacheInv
<1>4. QED
    BY <1>2, <1>3 DEF Extract

-----------------------------------------------------------------------------

\* One process at a time: the invariant of every state the cache can be in.
LEMMA CacheInvStep ==
    ASSUME NEW me, Proc = {me}, CacheInv, [Next]_vars
    PROVE  CacheInv'
<1>1. CASE Begin(me)
    BY <1>1, BeginKeeps
<1>2. CASE resolveArtifact(me)
    BY <1>2, LookKeeps, FetchKeeps, CopyKeeps, VerifyKeeps, RenameKeeps, OpenArchiveKeeps,
       ExtractKeeps, ExtractedKeeps, RemovePartialKeeps DEF resolveArtifact
<1>3. CASE End(me)
    BY <1>3, EndKeeps
<1>4. CASE UNCHANGED vars
    BY <1>4 DEF CacheInv, TypeOK, Apart, Descriptors, Contents, vars, files, names, proc
<1>5. QED
    BY <1>1, <1>2, <1>3, <1>4 DEF Next, NoMoreRuns

(***************************************************************************)
(* The invariant, for one invocation at a time.                            *)
(***************************************************************************)
THEOREM CacheInvariance ==
    ASSUME NEW me, Proc = {me}
    PROVE  Spec => []CacheInv
<1>1. Init => CacheInv
    BY CacheInvInit
<1>2. CacheInv /\ [Next]_vars => CacheInv'
    BY CacheInvStep
<1>3. QED
    BY <1>1, <1>2, PTL DEF Spec

(***************************************************************************)
(* What resolveArtifact hands out is the pinned file, whatever invocations *)
(* killed before it have left behind.                                      *)
(***************************************************************************)
THEOREM HandsOutTheVerified ==
    ASSUME NEW me, Proc = {me}
    PROVE  Spec => []UsedIsVerified
<1>1. CacheInv => UsedIsVerified
    BY DEF CacheInv, Contents, UsedIsVerified, Whole
<1>2. QED
    BY <1>1, CacheInvariance, PTL

(***************************************************************************)
(* The cached kernel changes to the whole pinned kernel or not at all.     *)
(***************************************************************************)
THEOREM KernelArrivesWhole ==
    ASSUME NEW me, Proc = {me}
    PROVE  Spec => ArrivesWhole
<1>1. CacheInv /\ [Next]_vars => [~tarball /\ Held' # Held => Held' = Of("good")]_vars
    <2>1. SUFFICES ASSUME CacheInv, Next, ~tarball
          PROVE  Held' # Held => Held' = Of("good")
        BY DEF vars, files, names
    <2>2. CASE Rename(me)
        BY <2>1, <2>2 DEF CacheInv, Contents, Rename, Held, names
    <2>3. CASE Fetch(me)
        <3>1. dest' = dest /\ pc[me] = "fetch" /\ out[me] = 0 /\ arc[me] = 0 /\ TypeOK
            BY <2>1, <2>3 DEF Fetch, CacheInv, Descriptors
        <3>2. dest # 0 => data'[dest] = data[dest]
            BY <2>1, <2>3, <3>1, FreeIsFree DEF Fetch, CacheInv, Apart, TypeOK, Opened
        <3>3. QED
            BY <3>1, <3>2 DEF Held
    <2>4. CASE Copy(me)
        <3>1. /\ dest' = dest /\ pc[me] = "copy" /\ pos[me] <= Chunks /\ TypeOK
              /\ partial # 0 /\ out[me] = partial /\ dest # partial /\ body[me] \in Chunk
            BY <2>1, <2>4 DEF Copy, More, CacheInv, Descriptors, Apart, TypeOK, Chunk, names
        <3>2. dest # 0 => data'[dest] = data[dest]
            <4>1. CASE UNCHANGED data
                BY <4>1
            <4>2. CASE Write(me, body[me])
                BY <3>1, <4>2, WriteAt DEF TypeOK
            <4>3. QED
                BY <2>4, <4>1, <4>2 DEF Copy
        <3>3. QED
            BY <3>1, <3>2 DEF Held
    <2>5. CASE OpenArchive(me) \/ Extract(me)
        BY <2>1, <2>5 DEF OpenArchive, Extract, CacheInv, Contents
    <2>6. CASE \/ Begin(me) \/ Look(me) \/ Verify(me) \/ Extracted(me)
               \/ RemovePartial(me) \/ End(me) \/ NoMoreRuns
        BY <2>6 DEF Begin, Look, Verify, Extracted, RemovePartial, End, NoMoreRuns, Held, vars, files, names
    <2>7. QED
        BY <2>1, <2>2, <2>3, <2>4, <2>5, <2>6 DEF Next, resolveArtifact
<1>2. QED
    BY <1>1, CacheInvariance, PTL DEF Spec, ArrivesWhole

=============================================================================
