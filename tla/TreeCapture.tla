----------------------------- MODULE TreeCapture -----------------------------
(***************************************************************************)
(* The capture behind a seal (capture_and_seal of pantheon-engine/src/     *)
(* sealing.rs): the walk over the Workspace directory (pantheon-git/src/   *)
(* capture.rs), every payload published into the content store of          *)
(* CasPublish, the diff against the immutable base, the preimages, and the *)
(* transaction that claims the members of the changeset.                   *)
(*                                                                         *)
(* A node is what an inode number names: its type never changes, its       *)
(* content may be rewritten in place, and the names of a directory may     *)
(* come to lead to other nodes while the walk is under way, unless the     *)
(* Workspace is quiet.  A payload is its digest and its Git object name.   *)
(* Paths are sequences of names; a walk visits names in a fixed order.     *)
(***************************************************************************)
EXTENDS CasPublish, SequencesExt

CONSTANTS
    Walker,       \* the publisher that captures; the others are other seals,
    Shared,       \* which publish these payloads
    Nodes, Root, Type, Nowhere,
    Order,        \* the names, in the order of their bytes
    GitName,      \* the name ".git"
    Layouts,      \* trees a worker may leave: directory -> name -> node
    Written,      \* node -> its payload at first
    Size,         \* payload -> number of bytes
    Base,         \* the entries of the resolved base: path, kind, payload
    Scopes,       \* scopes a Task may declare: sets of patterns
    Spare,        \* nodes that may take another node's place
    MaxObject, MaxEntries, MaxTotal, MaxDepth,   \* the ceilings of a capture
    MaxChanges    \* bound on changes to the tree during a capture

ASSUME CaptureAssumption == Walker \in Publishers /\ Nowhere \notin Nodes

VARIABLES
    children,   \* directory -> name -> node
    content,    \* file or symlink -> payload
    scope,      \* the Task's patterns, compiled
    walk,       \* the capture: its step, open directories, entry in hand
    final,      \* captured entries in order; "node" is where the bytes were read
    entries,    \* entries of the changeset
    held,       \* references publish has returned to this capture
    changes, quiet

treeVars == <<children, content, changes, quiet>>
captureVars == <<walk, final, entries, held>>
allVars == <<vars, treeVars, captureVars, scope>>

Directories == {n \in Nodes : Type[n] = "directory"}
Files == {n \in Nodes : Type[n] \in {"file", "executable"}}

NoWalk == [step |-> "idle"]

CaptureInit ==
    /\ Init
    /\ children \in Layouts
    /\ content = Written
    /\ scope \in Scopes
    /\ walk = NoWalk
    /\ final = <<>> /\ entries = {} /\ held = {}
    /\ changes = 0
    /\ quiet \in BOOLEAN

----------------------------------------------------------------------------
(* The Task's scope.                                                       *)

RECURSIVE MatchesFrom(_, _)

MatchesFrom_ManyIsOne(pattern, path) ==
    /\ Len(pattern) = Len(path)
    /\ \A i \in DOMAIN path : pattern[i] \in {path[i], "*", "**"}

\* matches_from: "*" takes one component, "**" any number of them.
MatchesFrom(pattern, path) ==
    IF pattern = <<>> THEN path = <<>>
    ELSE IF Head(pattern) = "**"
         THEN \/ MatchesFrom(Tail(pattern), path)
              \/ path # <<>> /\ MatchesFrom(pattern, Tail(path))
         ELSE /\ path # <<>>
              /\ Head(pattern) \in {"*", Head(path)}
              /\ MatchesFrom(Tail(pattern), Tail(path))

Authorizes(path) == \E pattern \in scope : MatchesFrom(pattern, path)

----------------------------------------------------------------------------
(* The walk.                                                               *)

Top == walk.stack[Len(walk.stack)]
Name == Head(Top.left)
Path == Append(Top.prefix, Name)
There == children[Top.dir][Name]

\* walk_directory collects and sorts the names before it looks at any.
Frame(dir, prefix) ==
    [dir |-> dir, prefix |-> prefix,
     left |-> SelectSeq(Order, LAMBDA n : children[dir][n] # Nowhere)]

\* The entry in hand is done with.
Advanced == [walk.stack EXCEPT ![Len(walk.stack)].left = Tail(@)]

Walking(step) == walk.step = step
Then(w) == walk' = w /\ UNCHANGED <<final, entries, held, vars, treeVars, scope>>
Fails == [step |-> "failed"]

\* The base is read and the root pinned; a failed capture may be tried again.
StartCapture ==
    /\ walk.step \in {"idle", "failed", "refused"}
    /\ walk' = [step |-> "entry", stack |-> <<Frame(Root, <<>>)>>]
    /\ final' = <<>> /\ entries' = {} /\ held' = {}
    /\ UNCHANGED <<vars, treeVars, scope>>

\* .git at the root is not tree content.
SkipGit ==
    /\ Walking("entry") /\ Top.left # <<>>
    /\ Path = <<GitName>>
    /\ Then([walk EXCEPT !.stack = Advanced])

StepForType(type) ==
    CASE type = "directory" -> "descend"
      [] type = "symlink" -> "readlink"
      [] type \in {"file", "executable"} -> "open"

\* A nested repository, a mount, a special file and too large a file.
Refused(n) ==
    \/ Name = GitName
    \/ Type[n] \in {"mount", "special"}
    \/ n \in Files /\ Size[content[n]] > MaxObject

\* The entry is inspected without being followed; it may be gone.
Inspect ==
    /\ Walking("entry") /\ Top.left # <<>>
    /\ Path # <<GitName>>
    /\ Then(IF There = Nowhere \/ Refused(There) THEN Fails
            ELSE [step |-> StepForType(Type[There]), stack |-> walk.stack,
                  node |-> There,
                  size |-> IF There \in Files THEN Size[content[There]] ELSE 0])

VerifyIdentity_SameType(n) ==
    n = walk.node \/ {n, walk.node} \subseteq Files

\* verify_identity: what was opened is what was inspected.
VerifyIdentity(n) == n = walk.node

Descend ==
    /\ Walking("descend")
    /\ Then(IF VerifyIdentity(There) /\ Len(walk.stack) <= MaxDepth
            THEN [step |-> "entry", stack |-> Append(Advanced, Frame(There, Path))]
            ELSE Fails)

Captured(kind, node) ==
    [step |-> "sink", stack |-> walk.stack,
     entry |-> [path |-> Path, kind |-> kind, payload |-> content[node], node |-> node]]

\* A link's target is read from whatever symlink is there by now.
ReadLink ==
    /\ Walking("readlink")
    /\ Then(IF There \in Nodes /\ Type[There] = "symlink"
            THEN Captured("symlink", There)
            ELSE Fails)

OpenFile ==
    /\ Walking("open")
    /\ Then(IF VerifyIdentity(There)
            THEN [step |-> "read", stack |-> walk.stack, node |-> walk.node,
                  size |-> walk.size, fd |-> There]
            ELSE Fails)

\* read_bounded, from the descriptor that was validated; the mode is that of
\* the inspection.
ReadFile ==
    /\ Walking("read")
    /\ Then(IF Size[content[walk.fd]] = walk.size
            THEN Captured(Type[walk.node], walk.fd)
            ELSE Fails)

EndDirectory ==
    /\ Walking("entry") /\ Top.left = <<>>
    /\ Then(IF Len(walk.stack) = 1 THEN [step |-> "diff", at |-> 1]
            ELSE [walk EXCEPT !.stack = SubSeq(walk.stack, 1, Len(walk.stack) - 1)])

----------------------------------------------------------------------------
(* The sink of capture_and_seal.                                           *)

TotalBytes(captured) ==
    FoldLeft(LAMBDA n, e : n + Size[e.payload], 0, captured)

WithinCeilings_OffByOne(e) ==
    /\ Len(final) <= MaxEntries
    /\ TotalBytes(final) + Size[e.payload] <= MaxTotal

WithinCeilings(e) ==
    /\ Len(final) < MaxEntries
    /\ TotalBytes(final) + Size[e.payload] <= MaxTotal

SinkRefuses ==
    /\ Walking("sink")
    /\ ~WithinCeilings(walk.entry)
    /\ Then(Fails)

\* Bytes outside the scope are not retained.
SinkSkips ==
    /\ Walking("sink")
    /\ WithinCeilings(walk.entry)
    /\ ~Authorizes(walk.entry.path)
    /\ final' = Append(final, walk.entry)
    /\ walk' = [step |-> "entry", stack |-> Advanced]
    /\ UNCHANGED <<entries, held, vars, treeVars, scope>>

SinkPublishes ==
    /\ Walking("sink")
    /\ WithinCeilings(walk.entry)
    /\ Authorizes(walk.entry.path)
    /\ Begin(Walker, walk.entry.payload)
    /\ walk' = [walk EXCEPT !.step = "publishing"]
    /\ UNCHANGED <<final, entries, held, treeVars, scope>>

\* publish returned a reference to the object.
Returned ==
    /\ At(Walker, "ok") \/ At(Walker, "found")
    /\ held' = held \cup {[object |-> Object(Walker), flushed |-> At(Walker, "ok")]}
    /\ pub' = [pub EXCEPT ![Walker] = Idle]
    /\ UNCHANGED <<disk, claims, bounds, treeVars, scope>>

SinkReturns ==
    /\ Walking("publishing")
    /\ Returned
    /\ final' = Append(final, walk.entry)
    /\ walk' = [step |-> "entry", stack |-> Advanced]
    /\ UNCHANGED entries

PublicationFailed ==
    /\ Walking("publishing") \/ Walking("preimage")
    /\ At(Walker, "idle")
    /\ Then(Fails)

----------------------------------------------------------------------------
(* The diff: the captured entries in order, then the base's.               *)

InBase(path) == {b \in Range(Base) : b.path = path}
InFinal(path) == {e \in Range(final) : e.path = path}

Unchanged_SizeOnly(b, e) ==
    b.kind = e.kind /\ Size[b.payload] = Size[e.payload]

\* Equal kind and size, and the Git object name of the captured bytes is the
\* one the base tree records.
Unchanged(b, e) ==
    b.kind = e.kind /\ Size[b.payload] = Size[e.payload] /\ b.payload = e.payload

Absent == [kind |-> "absent", payload |-> NoObject]
Present(e) == [kind |-> e.kind, payload |-> e.payload]
DiffAt(i) == [step |-> "diff", at |-> i]
DiffingFinal == Walking("diff") /\ walk.at <= Len(final)
DiffingBase == Walking("diff") /\ walk.at \in Len(final) + 1 .. Len(final) + Len(Base)
AfterEntry == final[walk.at]
BeforeEntry == Base[walk.at - Len(final)]

DiffUnchanged ==
    /\ \/ DiffingFinal /\ \E b \in InBase(AfterEntry.path) : Unchanged(b, AfterEntry)
       \/ DiffingBase /\ InFinal(BeforeEntry.path) # {}
    /\ Then(DiffAt(walk.at + 1))

ChangedPath ==
    IF walk.at <= Len(final) THEN AfterEntry.path ELSE BeforeEntry.path

IsChange ==
    \/ DiffingFinal /\ ~\E b \in InBase(AfterEntry.path) : Unchanged(b, AfterEntry)
    \/ DiffingBase /\ InFinal(BeforeEntry.path) = {}

\* refuse_unpublished_change, and the scope check of a deletion: the seal
\* fails with the path.
DiffRefuses ==
    /\ IsChange
    /\ ~Authorizes(ChangedPath)
    /\ Then([step |-> "refused", path |-> ChangedPath])

DiffAdds ==
    /\ DiffingFinal /\ IsChange
    /\ Authorizes(ChangedPath)
    /\ InBase(AfterEntry.path) = {}
    /\ entries' = entries \cup {[path |-> AfterEntry.path, before |-> Absent,
                                 after |-> Present(AfterEntry)]}
    /\ walk' = DiffAt(walk.at + 1)
    /\ UNCHANGED <<final, held, vars, treeVars, scope>>

\* before_state: the preimage of a Modify or a Delete is read from the base
\* and published.
PublishPreimage ==
    /\ IsChange
    /\ Authorizes(ChangedPath)
    /\ \E b \in InBase(ChangedPath) :
         /\ Begin(Walker, b.payload)
         /\ walk' = [step |-> "preimage", at |-> walk.at, before |-> b]
    /\ UNCHANGED <<final, entries, held, treeVars, scope>>

PreimageReturns ==
    /\ Walking("preimage")
    /\ Returned
    /\ entries' = entries \cup
         {[path |-> walk.before.path, before |-> Present(walk.before),
           after |-> IF walk.at <= Len(final) THEN Present(AfterEntry) ELSE Absent]}
    /\ walk' = DiffAt(walk.at + 1)
    /\ UNCHANGED final

Members_AfterOnly ==
    {x.after.payload : x \in entries} \ {NoObject}

\* Every preimage and every result, each digest once.
Members ==
    UNION {{x.before.payload, x.after.payload} : x \in entries} \ {NoObject}

\* commit_changeset_seal: the rows that name the members.
CommitSeal ==
    /\ Walking("diff") /\ walk.at > Len(final) + Len(Base)
    /\ claims' = claims \cup {h \in held : h.object \in Members}
    /\ walk' = [step |-> "sealed"]
    /\ UNCHANGED <<final, entries, held, disk, pub, bounds, treeVars, scope>>

----------------------------------------------------------------------------
(* Everyone else.                                                          *)

Editable == ~quiet /\ changes < MaxChanges /\ changes' = changes + 1

\* Another process makes a name lead elsewhere, or nowhere.
Replace(dir, name, n) ==
    /\ Editable
    /\ children[dir][name] # n
    /\ children' = [children EXCEPT ![dir][name] = n]
    /\ UNCHANGED <<content, quiet, captureVars, vars, scope>>

Rewrite(f, p) ==
    /\ Editable
    /\ content[f] # p
    /\ content' = [content EXCEPT ![f] = p]
    /\ UNCHANGED <<children, quiet, captureVars, vars, scope>>

\* Losing power ends the capture with everything else that runs.
LosePower ==
    /\ PowerLoss
    /\ walk' = NoWalk
    /\ final' = <<>> /\ entries' = {} /\ held' = {}
    /\ UNCHANGED <<treeVars, scope>>

StoreStep ==
    /\ \/ \E p \in Publishers :
            \/ Stage(p) \/ Flush(p) \/ Link(p) \/ LinkCollides(p) \/ Verify(p)
            \/ Discard(p) \/ SyncDir(p) \/ Abandon(p)
       \/ \E p \in Publishers \ {Walker} :
            Claim(p) \/ \E o \in Shared : Begin(p, o)
    /\ UNCHANGED <<treeVars, captureVars, scope>>

WalkStep ==
    \/ StartCapture \/ SkipGit \/ Inspect \/ Descend \/ ReadLink \/ OpenFile
    \/ ReadFile \/ EndDirectory

SealStep ==
    \/ SinkRefuses \/ SinkSkips \/ SinkPublishes \/ SinkReturns
    \/ PublicationFailed
    \/ DiffUnchanged \/ DiffRefuses \/ DiffAdds
    \/ PublishPreimage \/ PreimageReturns \/ CommitSeal

TreeStep ==
    \/ \E dir \in Directories, i \in DOMAIN Order, n \in Spare \cup {Nowhere} :
         Replace(dir, Order[i], n)
    \/ \E f \in Files, p \in Objects : Rewrite(f, p)

CaptureNext == WalkStep \/ SealStep \/ TreeStep \/ StoreStep \/ LosePower

CaptureSpec == CaptureInit /\ [][CaptureNext]_allVars

----------------------------------------------------------------------------
(* What a scope and a tree are, said without walking them.                 *)

\* The path can be cut into consecutive parts, one per component of the
\* pattern: any part for "**", one name for the others.
Covers(pattern, path) ==
    \E cut \in [0 .. Len(pattern) -> 0 .. Len(path)] :
       /\ cut[0] = 0 /\ cut[Len(pattern)] = Len(path)
       /\ \A i \in DOMAIN pattern :
            IF pattern[i] = "**" THEN cut[i] >= cut[i - 1]
            ELSE cut[i] = cut[i - 1] + 1 /\ pattern[i] \in {"*", path[cut[i]]}

InScope(path) == \E pattern \in scope : Covers(pattern, path)

Resolve(path) ==
    FoldLeft(LAMBDA n, name : IF n \in Directories THEN children[n][name] ELSE Nowhere,
             Root, path)

Paths == UNION {[1 .. k -> Range(Order)] : k \in 1 .. MaxDepth + 1}

\* The files and links of the Workspace, its own .git left out.
Tree ==
    {[path |-> p, kind |-> Type[Resolve(p)], payload |-> content[Resolve(p)]] :
       p \in {q \in Paths : /\ q[1] # GitName
                            /\ Resolve(q) \in Nodes
                            /\ Type[Resolve(q)] \in {"file", "executable", "symlink"}}}

Plain(seq) ==
    {[path |-> e.path, kind |-> e.kind, payload |-> e.payload] : e \in Range(seq)}

\* What a capture recorded is what was there.  The kind and the bytes of an
\* entry are those of one object, whatever was put in its place meanwhile; no
\* ceiling is passed; and the capture of a Workspace nobody writes to is its
\* whole tree: no entry missing, invented or doubled.
CaptureFaithful ==
    /\ \A e \in Range(final) : e.kind = Type[e.node]
    /\ Len(final) <= MaxEntries /\ TotalBytes(final) <= MaxTotal
    /\ quiet /\ walk.step \in {"diff", "preimage", "sealed"} =>
         /\ Plain(final) = Tree
         /\ Len(final) = Cardinality(Tree)

\* A sealed changeset is the difference between the base and the capture: an
\* entry for each path that differs in kind or bytes and for no other, with
\* the two states it relates, and every one of them in the Task's scope.  A
\* seal refused for its scope names a path that did change, out of the scope.
ChangesetExact ==
    LET before == Plain(Base)
        after == Plain(final)
        changed == {e.path : e \in (before \ after) \cup (after \ before)}
        Of(S, path) == IF \E e \in S : e.path = path
                       THEN Present(CHOOSE e \in S : e.path = path) ELSE Absent
    IN  /\ Walking("sealed") =>
             /\ \A path \in changed : InScope(path)
             /\ entries = {[path |-> path, before |-> Of(before, path),
                            after |-> Of(after, path)] : path \in changed}
        /\ Walking("refused") => walk.path \in changed /\ ~InScope(walk.path)

\* The bytes of every member of a sealed changeset, preimages included, are in
\* the content store and named by its rows, whoever else publishes, fails or is
\* killed; and the capture never hands the store bytes of a path out of scope.
MembersStored ==
    /\ Walking("sealed") =>
         \A x \in entries : \A state \in {x.before, x.after} :
            state.kind # "absent" =>
              /\ entry[state.payload] # "absent" /\ bytes[state.payload] = "synced"
              /\ \E c \in claims : c.object = state.payload
    /\ ~At(Walker, "idle") =>
         \E e \in Plain(Base) \cup (IF Walking("publishing") THEN {walk.entry} ELSE {}) :
            e.payload = Object(Walker) /\ InScope(e.path)

=============================================================================
