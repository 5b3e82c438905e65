------------------------------ MODULE FileTree ------------------------------
(* The file manager (internal/domain/filemanager): a directory tree with    *)
(* symbolic links, of which the panel may touch only what lies below a base *)
(* path.  Requests hold the manager's lock from the check of their paths to *)
(* their last change, except for an upload, which holds it only until its   *)
(* file is open.                                                            *)
(* A path is a sequence of names.  What a file holds is a text, or for an   *)
(* archive the entries packed in it.  Modes and owners are left out.        *)
EXTENDS Naturals, Sequences, FiniteSets, SequencesExt

CONSTANTS
    Names,        \* file names, in lexical order (a sequence)
    ZipOf,        \* name -> the name with ".zip" at its end
    Format,       \* name -> "zip", "tgz", "gz" or "other", by its suffix
    UnGz,         \* name -> the name without ".gz"
    Base,         \* the base path
    Paths,        \* bound: the paths that may exist
    InitTrees,    \* the trees the administrator may have prepared
    Uploads,      \* contents that clients send
    MaxEntries,   \* maxExtractFileCount
    MaxChanges,   \* bound: requests that change the tree
    MaxFaults     \* bound: writes that fail

VARIABLES
    tree,         \* path -> [kind, content, to, fd]
    upload,       \* path of the upload that is being copied, or Nowhere
    served,       \* texts in the last response
    reply,        \* "ok" or "error"
    changes,      \* requests that changed the tree, so far
    faults

vars == <<tree, upload, served, reply, changes, faults>>

Nowhere == <<"?">>
Empty == [text |-> 0, entries |-> <<>>]
Dir == [kind |-> "dir", content |-> Empty, to |-> <<>>, fd |-> FALSE]
File(c, fd) == [kind |-> "file", content |-> c, to |-> <<>>, fd |-> fd]
With(t, p, v) == [q \in DOMAIN t \cup {p} |-> IF q = p THEN v ELSE t[q]]
Only(t, S) == [q \in DOMAIN t \cap S |-> t[q]]
Count == changes < MaxChanges /\ changes' = changes + 1
Charge(at) == faults' = faults + (IF at = "none" THEN 0 ELSE 1) /\ faults' <= MaxFaults

----------------------------------------------------------------------------
(* The kernel's part.  A failing call leaves the tree as it is.             *)
Is(t, p, kind) == p \in DOMAIN t /\ t[p].kind = kind
Below(t, p) == {q \in DOMAIN t : IsStrictPrefix(p, q)}
Outside(t) == {p \in DOMAIN t : ~IsPrefix(Base, p)}

(* A link's target holds no link itself.                                    *)
Follow(t, q) ==
    IF q \notin DOMAIN t THEN Nowhere
    ELSE IF t[q].kind # "link" THEN q
    ELSE IF t[q].to \in DOMAIN t THEN t[q].to ELSE Nowhere
EvalSymlinks(t, path) ==
    LET at[i \in 0..Len(path)] == IF i = 0 THEN <<>> ELSE Follow(t, Append(at[i - 1], path[i]))
    IN at[Len(path)]

CanOpen(t, p) == p # <<>> /\ Is(t, Front(p), "dir") /\ (p \in DOMAIN t => t[p].kind = "file")
Write(t, p, c) == With(t, p, File(c, IF p \in DOMAIN t THEN t[p].fd ELSE FALSE))
CanMkdirAll(t, p) == \A i \in 0..Len(p) : SubSeq(p, 1, i) \in DOMAIN t => Is(t, SubSeq(p, 1, i), "dir")
MkdirAll(t, p) ==
    [q \in DOMAIN t \cup {SubSeq(p, 1, i) : i \in 1..Len(p)} |-> IF q \in DOMAIN t THEN t[q] ELSE Dir]
OsRemove(t, p) == IF Below(t, p) = {} THEN Only(t, DOMAIN t \ {p}) ELSE t
OsRemoveAll(t, p) == Only(t, DOMAIN t \ ({p} \cup Below(t, p)))
CanRename(t, p, q) ==
    /\ p \in DOMAIN t /\ Is(t, Front(q), "dir") /\ ~IsStrictPrefix(p, q)
    /\ q \in DOMAIN t /\ p # q =>
          /\ Is(t, p, "dir") <=> Is(t, q, "dir")
          /\ Below(t, q) = {}
OsRename(t, p, q) ==
    LET moved == {p} \cup Below(t, p)
        at(r) == q \o SubSeq(r, Len(p) + 1, Len(r))
        from(s) == p \o SubSeq(s, Len(q) + 1, Len(s))
        new == {at(r) : r \in moved}
    IN [s \in (DOMAIN t \ moved) \cup new |-> IF s \in new THEN t[from(s)] ELSE t[s]]

----------------------------------------------------------------------------
(* What the proofs assume of the constants.  A tree is whole, with the base *)
(* path in it and nothing open.  A text tells where it comes from: what is  *)
(* in a file outside the base path is neither below it nor with a client.   *)
ArchiveEntry == [path: Seq(STRING), kind: {"dir", "file", "link", "hardlink", "big"}, text: Nat]
Content == [text: Nat, entries: Seq(ArchiveEntry)]
Node == [kind: {"dir", "file", "link"}, content: Content, to: Seq(STRING), fd: BOOLEAN]
Texts(c) == {c.text} \cup {c.entries[i].text : i \in DOMAIN c.entries}
Secrets(t) == {t[p].content.text : p \in {q \in Outside(t) : t[q].kind = "file"}}
TreeBounds ==
    /\ {MaxEntries, MaxChanges, MaxFaults} \subseteq Nat
    /\ Base \in Seq(STRING) /\ Paths \subseteq Seq(STRING) /\ IsFiniteSet(Paths)
    /\ Nowhere \in Seq(STRING) \ Paths
    /\ \A p \in Paths : IsStrictPrefix(Base, p) => UnGz[Last(p)] \in STRING
    /\ Uploads \subseteq Content
    /\ \A t \in InitTrees :
          /\ t \in [DOMAIN t -> Node] /\ DOMAIN t \subseteq Paths /\ Is(t, Base, "dir")
          /\ \A p \in DOMAIN t : ~t[p].fd /\ \A i \in 0..Len(p) : SubSeq(p, 1, i) \in DOMAIN t
          /\ \A c \in Uploads \cup {Empty} \cup {t[p].content : p \in DOMAIN t \ Outside(t)} :
                Texts(c) \cap Secrets(t) = {}

----------------------------------------------------------------------------
IsSubPath(parent, child) == IsPrefix(parent, child)

(* The longest part of the path that exists is resolved, the rest is taken  *)
(* as it stands, and the result must lie below the base path.               *)
Climb(abs, parts) ==
    LET k == Max({i \in DOMAIN parts : parts[i] # Nowhere})
    IN [at |-> parts[k], rest |-> SubSeq(abs, k + 1, Len(abs))]

Confine(t, found) ==
    IF found.rest # <<>> /\ Is(t, found.at, "file") THEN Nowhere      \* ENOTDIR: refused
    ELSE IF IsSubPath(Base, found.at \o found.rest) THEN found.at \o found.rest ELSE Nowhere
ResolveInSandbox(t, path) ==
    LET abs == Base \o path
    IN Confine(t, Climb(abs, [i \in 0..Len(abs) |-> EvalSymlinks(t, SubSeq(abs, 1, i))]))

ValidatePath(t, path) == ResolveInSandbox(t, path)
ValidateRealPath(t, p) ==
    LET at == EvalSymlinks(t, p) IN at # Nowhere /\ IsSubPath(Base, at)
toRelativePath(p) == SubSeq(p, Len(Base) + 1, Len(p))

(* filepath.Walk in lexical order.  An entry that leads outside the base    *)
(* path, or nowhere, answers SkipDir: what follows it in its directory is   *)
(* left out too.                                                            *)
Index(n) == CHOOSE i \in DOMAIN Names : Names[i] = n
Before(p, q) ==
    \/ IsPrefix(p, q)
    \/ \E i \in DOMAIN p \cap DOMAIN q :
          SubSeq(p, 1, i - 1) = SubSeq(q, 1, i - 1) /\ p[i] # q[i] /\ Index(p[i]) < Index(q[i])
Visited(t, root) ==
    LET found == {q \in DOMAIN t : IsPrefix(root, q)}
        Skipped(q) == \E r \in found : /\ ~ValidateRealPath(t, r)
                                       /\ IsStrictPrefix(Front(r), q) /\ Before(r, q)
    IN {q \in found : ~Skipped(q)}
Walk(t, root) ==      \* a set: of the one order there is
    {w \in [1..Cardinality(Visited(t, root)) -> Visited(t, root)] :
        \A i, j \in DOMAIN w : i < j => w[i] # w[j] /\ Before(w[i], w[j])}

----------------------------------------------------------------------------
(* Answers.                                                                 *)
Change(t) ==
    /\ Count /\ DOMAIN t \subseteq Paths
    /\ tree' = t /\ reply' = "ok" /\ served' = {} /\ UNCHANGED <<upload, faults>>
Finish(end) ==
    /\ Count /\ DOMAIN end.t \subseteq Paths
    /\ tree' = end.t /\ reply' = (IF end.bad THEN "error" ELSE "ok")
    /\ served' = {} /\ UNCHANGED <<upload, faults>>
Serve(texts) == served' = texts /\ reply' = "ok" /\ UNCHANGED <<tree, upload, changes, faults>>

Mkdir(p) ==
    \E v \in {ValidatePath(tree, p)} :
       v # Nowhere /\ CanMkdirAll(tree, v) /\ Change(MkdirAll(tree, v))

(* The file is cut before it is written: a write that fails loses both.     *)
WriteContent(p, c, at) ==
    \E v \in {ValidatePath(tree, p)} :
       /\ v # Nowhere /\ CanOpen(tree, v) /\ v \in Paths
       /\ tree' = Write(tree, v, IF at = "write" THEN Empty ELSE c)
       /\ reply' = (IF at = "write" THEN "error" ELSE "ok")
       /\ served' = {} /\ UNCHANGED upload /\ Count /\ Charge(at)

ReadContent(p) ==
    \E v \in {ValidatePath(tree, p)} :
       Is(tree, v, "file") /\ Serve({tree[v].content.text})

Delete(p, recursive) ==
    \E v \in {ValidatePath(tree, p)} :
       /\ v # Nowhere /\ v # Base /\ ~IsStrictPrefix(v, Base)
       /\ v \in DOMAIN tree
       /\ recursive \/ Below(tree, v) = {}
       /\ Change(IF recursive THEN OsRemoveAll(tree, v) ELSE OsRemove(tree, v))

Rename(p, q) ==
    \E v \in {ValidatePath(tree, p)}, w \in {ValidatePath(tree, q)} :
       v # Nowhere /\ w # Nowhere /\ CanRename(tree, v, w) /\ Change(OsRename(tree, v, w))

Copy(p, q, at) ==
    \E v \in {ValidatePath(tree, p)}, w \in {ValidatePath(tree, q)} :
       /\ v # w /\ Is(tree, v, "file") /\ w # Nowhere /\ CanOpen(tree, w) /\ w \in Paths
       /\ tree' = Write(tree, w, IF at = "write" THEN Empty ELSE tree[v].content)
       /\ reply' = (IF at = "write" THEN "error" ELSE "ok")
       /\ served' = {} /\ UNCHANGED upload /\ Count /\ Charge(at)

(* The paths are all checked first and renamed one by one: when a rename    *)
(* fails, those before it stay moved.                                       *)
moveOne(s, v, to) ==
    IF s.bad \/ ~CanRename(s.t, v, to) THEN [s EXCEPT !.bad = TRUE]
    ELSE [s EXCEPT !.t = OsRename(s.t, v, to)]
moveAll(t, vs, w) ==
    LET at[i \in 0..Len(vs)] == IF i = 0 THEN [t |-> t, bad |-> FALSE]
                                ELSE moveOne(at[i - 1], vs[i], Append(w, Last(vs[i])))
    IN at[Len(vs)]
Move(ps, d) ==
    \E w \in {ValidatePath(tree, d)}, vs \in {[i \in DOMAIN ps |-> ValidatePath(tree, ps[i])]} :
        /\ w # Nowhere /\ Nowhere \notin ToSet(vs) /\ CanMkdirAll(tree, w)
        /\ Finish(moveAll(MkdirAll(tree, w), vs, w))

(* The texts found, the first limit of them.                                *)
SearchContent(root, limit) ==
    \E v \in {ValidatePath(tree, root)} :
        /\ v \in DOMAIN tree
        /\ \E files \in {{q \in Visited(tree, v) : tree[q].kind = "file"}} :
              Serve({tree[q].content.text : q \in
                        {q \in files : Cardinality({r \in files : Before(r, q)}) <= limit}})

----------------------------------------------------------------------------
(* A link is packed as an empty file: it is opened without being followed.  *)
(* The archive itself may be among what it packs, just cut to nothing.      *)
packed(t, v, q) ==
    [path |-> SubSeq(q, Len(v), Len(q)),
     kind |-> IF t[q].kind = "dir" THEN "dir" ELSE "file",
     text |-> IF t[q].kind = "file" THEN t[q].content.text ELSE 0]
Compress(p, d) ==
    \E v \in {ValidatePath(tree, p)}, x \in {ValidatePath(tree, d)} :
        /\ x # Nowhere /\ x # Base /\ v # Base
        /\ \E w \in {Append(Front(x), ZipOf[Last(x)])} : \E t \in {Write(tree, w, Empty)} :
            /\ CanOpen(tree, w) /\ v \in DOMAIN t
            /\ \E visited \in Walk(t, v) :
                  Change(Write(tree, w, [text |-> 0, entries |->
                      [i \in DOMAIN visited |-> packed(t, v, visited[i])]]))

(* Directories below the last one that is there, from the top down, each    *)
(* one made remembered.                                                     *)
mkdirAllWithRecord(s, p) ==
    LET k == Max({i \in 0..Len(p) : SubSeq(p, 1, i) \in DOMAIN s.t})
    IN IF CanMkdirAll(s.t, p)
       THEN [s EXCEPT !.t = MkdirAll(s.t, p),
                      !.made = @ \o [i \in 1..(Len(p) - k) |-> SubSeq(p, 1, k + i)]]
       ELSE [s EXCEPT !.bad = TRUE]

writeEntry(s, v, e) ==
    IF s.bad \/ ~CanOpen(s.t, v) THEN [s EXCEPT !.bad = TRUE]
    ELSE [s EXCEPT !.t = Write(s.t, v, [text |-> e.text, entries |-> <<>>]),
                   !.made = Append(@, v), !.bad = e.kind = "big"]

(* One entry of an archive; a text beyond the size limit is "big".          *)
extractEntry(s, dest, e, refused) ==
    LET v == ValidatePath(s.t, toRelativePath(dest \o e.path))
    IN IF s.bad THEN s
       ELSE IF \/ ".." \in ToSet(e.path) \/ v = Nowhere \/ ~IsSubPath(dest, v)
               \/ e.kind \in refused \/ s.count = MaxEntries
       THEN [s EXCEPT !.bad = TRUE]
       ELSE [(IF e.kind = "dir" THEN mkdirAllWithRecord(s, v)
              ELSE writeEntry(mkdirAllWithRecord(s, Front(v)), v, e)) EXCEPT !.count = @ + 1]

rollback(t, made) ==
    LET at[i \in 0..Len(made)] == IF i = 0 THEN t ELSE OsRemove(at[i - 1], made[Len(made) + 1 - i])
    IN at[Len(made)]

Outcome(end) == IF end.bad THEN [t |-> rollback(end.t, end.made), bad |-> TRUE]
                ELSE [t |-> end.t, bad |-> FALSE]
Begun(t) == [t |-> t, made |-> <<>>, count |-> 0, bad |-> FALSE]
(* Bug variant: entries are written where their path leads, unchecked.      *)
extractUnchecked(s, dest, e, refused) ==
    IF s.bad \/ e.kind \in refused THEN [s EXCEPT !.bad = TRUE]
    ELSE writeEntry(s, EvalSymlinks(s.t, dest \o e.path), e)
extractAllUnchecked(t, archive, dest, refused) ==
    LET es == t[archive].content.entries
        at[i \in 0..Len(es)] == IF i = 0 THEN Begun(t)
                                ELSE extractUnchecked(at[i - 1], dest, es[i], refused)
    IN Outcome(at[Len(es)])

extractAll(t, archive, dest, refused) ==
    LET es == t[archive].content.entries
        at[i \in 0..Len(es)] == IF i = 0 THEN Begun(t)
                                ELSE extractEntry(at[i - 1], dest, es[i], refused)
    IN Outcome(at[Len(es)])
extractZip(t, archive, dest) == extractAll(t, archive, dest, {"link"})
extractTarGz(t, archive, dest) == extractAll(t, archive, dest, {"link", "hardlink"})
gunzip(t, archive, out) ==
    IF out = Nowhere \/ ~CanOpen(t, out) THEN [t |-> t, bad |-> TRUE]
    ELSE [t |-> Write(t, out, [text |-> t[archive].content.text, entries |-> <<>>]), bad |-> FALSE]
extractGzip(t, archive, dest) ==
    gunzip(t, archive, ValidatePath(t, toRelativePath(Append(dest, UnGz[Last(archive)]))))

extractFrom(t, v, w) ==
    CASE Format[Last(v)] = "tgz" -> extractTarGz(t, v, w)
      [] Format[Last(v)] = "zip" -> extractZip(t, v, w)
      [] Format[Last(v)] = "gz" -> extractGzip(t, v, w)
      [] OTHER -> [t |-> t, bad |-> TRUE]
Extract(p, d) ==
    \E v \in {ValidatePath(tree, p)}, w \in {ValidatePath(tree, d)} :
        /\ v # Nowhere /\ w # Nowhere /\ CanMkdirAll(tree, w) /\ Is(tree, v, "file")
        /\ Finish(extractFrom(MkdirAll(tree, w), v, w))

----------------------------------------------------------------------------
(* An upload opens its file under the lock and copies without it.  The file *)
(* stays the same one when it is moved meanwhile, but what is too big is    *)
(* removed by its path.                                                     *)
UploadOpen(p) ==
    \E v \in {ValidatePath(tree, p)} :
       /\ upload = Nowhere /\ v # Nowhere /\ CanOpen(tree, v) /\ v \in Paths
       /\ tree' = With(tree, v, File(Empty, TRUE))
       /\ upload' = v
       /\ Count /\ UNCHANGED <<served, reply, faults>>

Closed(t) == [q \in DOMAIN t |-> [t[q] EXCEPT !.fd = FALSE]]
UploadCopy(c, end) ==
    /\ upload # Nowhere
    /\ LET t == [q \in DOMAIN tree |-> IF tree[q].fd THEN [tree[q] EXCEPT !.content = c] ELSE tree[q]]
       IN tree' = Closed(IF end = "toobig" THEN OsRemove(t, upload) ELSE t)
    /\ upload' = Nowhere /\ reply' = (IF end = "ok" THEN "ok" ELSE "error")
    /\ served' = {} /\ UNCHANGED <<changes, faults>>

----------------------------------------------------------------------------
(* Requests name paths relative to the base path.                           *)
Asked == {toRelativePath(p) : p \in {q \in Paths : IsPrefix(Base, q)}}

PostMkdir == \E p \in Asked : Mkdir(p)
GetContent == \E p \in Asked : ReadContent(p)
Download == \E p \in Asked : ReadContent(p)
SaveContent == \E p \in Asked, c \in Uploads, at \in {"none", "write"} : WriteContent(p, c, at)
DeleteFile == \E p \in Asked, recursive \in BOOLEAN : Delete(p, recursive)
PutRename == \E p, q \in Asked : Rename(p, q)
PostMove == \E p, q, d \in Asked : p # q /\ Move(<<p, q>>, d)
PostCopy == \E p, q \in Asked, at \in {"none", "write"} : Copy(p, q, at)
GetSearch == \E p \in Asked : SearchContent(p, 2)
PostCompress == \E p, d \in Asked : Compress(p, d)
PostExtract == \E p, d \in Asked : Extract(p, d)
PostUpload == \E p \in Asked : UploadOpen(p)
UploadEnds == \E c \in Uploads, end \in {"ok", "broken", "toobig"} : UploadCopy(c, end)

Init ==
    /\ tree \in InitTrees /\ upload = Nowhere
    /\ served = {} /\ reply = "ok" /\ changes = 0 /\ faults = 0

Next ==
    \/ PostMkdir \/ GetContent \/ Download \/ SaveContent \/ DeleteFile \/ PutRename
    \/ PostMove \/ PostCopy \/ GetSearch \/ PostCompress \/ PostExtract
    \/ PostUpload \/ UploadEnds

Spec == Init /\ [][Next]_vars

----------------------------------------------------------------------------
TypeOK ==
    /\ DOMAIN tree \subseteq Paths
    /\ \A p \in DOMAIN tree : tree[p].kind \in {"dir", "file", "link"} /\ tree[p].fd \in BOOLEAN
    /\ upload \in Paths \cup {Nowhere}
    /\ served \subseteq Nat /\ reply \in {"ok", "error"} 
    /\ changes \in 0..MaxChanges /\ faults \in 0..MaxFaults

(* No request changes anything outside the base path, through whatever      *)
(* links and whatever archives, and the base path itself stays              *)
(* (ResolveInSandbox, "guarantees the target stays within basePath").       *)
SandboxHolds ==
    /\ Outside(tree') = Outside(tree) /\ Base \in DOMAIN tree'
    /\ \A p \in Outside(tree) : tree'[p] = tree[p]

(* No response carries what a file outside the base path holds (the checks  *)
(* of ValidatePath and of every walk).                                      *)
NothingLeaks == served \cap Secrets(tree) = {}

(* An extraction that fails leaves no file and no directory behind that it  *)
(* made, except for the directory it was asked to extract to (the deferred  *)
(* clean-up of extractZip and extractTarGz, "in reverse order").            *)
FailedExtractLeavesNothing ==
    \A p, d \in Asked : reply' = "error" /\ Extract(p, d) =>
        DOMAIN tree' \subseteq DOMAIN MkdirAll(tree, ValidatePath(tree, d))

(* The clean-up of a failed extraction removes what was created, and        *)
(* nothing that was there before.                                           *)
CleanupKeepsFiles ==
    PostExtract /\ reply' = "error" => DOMAIN tree \subseteq DOMAIN tree'
=============================================================================
