------------------------------ MODULE Archive ------------------------------
(* Package archives and the tree they are unpacked into: src/archive.rs and *)
(* the checks of src/download.rs around it. An archive is a sequence of     *)
(* entries, a tree a function from paths to nodes. One archive is unpacked  *)
(* at a time; an error leaves what was written before it.                   *)
EXTENDS Naturals, Sequences, FiniteSets, SequencesExt, FiniteSetsExt

CONSTANTS Page,        \* bytes the inspection charges at least for a file
          MaxEntries,  \* entries of one archive, paths included
          MaxBytes,    \* bytes of one archive, and of the tree
          MaxFollow    \* symbolic links followed for one link

ASSUME ArchiveAssumption == {Page, MaxEntries, MaxBytes, MaxFollow} \subseteq Nat \ {0}

\* A path as an entry spells it: absolute or not, "." and ".." included.
Spelled(abs, at) == [abs |-> abs, at |-> at]

Prefixes1(p) == {SubSeq(p, 1, n) : n \in 1..Len(p)}
Ancestors(p) == Prefixes1(p) \ {p}

\* The path below the root that a spelling names, and whether it is accepted.
SafeName(name) == ~name.abs /\ name.at # <<>> /\ ~Contains(name.at, "..")
RelativePath(name) == SelectSeq(name.at, LAMBDA c : c # ".")

Rounded(size) == ((size + Page - 1) \div Page) * Page

\* Executables are looked for in bin and sbin of usr, and of trees in usr/lib and opt.
EntryPoint(p) == /\ Len(p) > 2 /\ p[Len(p) - 1] \in {"bin", "sbin"}
                 /\ \/ Len(p) = 3 /\ p[1] = "usr"
                    \/ SubSeq(p, 1, 2) = <<"usr", "lib">>
                    \/ p[1] = "opt"

SizesOf(archive) == FoldSeq(LAMBDA e, sum : e.size + sum, 0, archive)

\* Fault: parent directories without an entry of their own are not counted.
InspectedNames(archive) ==
  LET paths == {RelativePath(e.name) : e \in ToSet(archive)} \ {<<>>}
  IN [ok |-> /\ \A e \in ToSet(archive) : SafeName(e.name)
             /\ Len(archive) <= MaxEntries /\ SizesOf(archive) <= MaxBytes
             /\ Cardinality(paths) <= MaxEntries,
      bytes |-> FoldSeq(LAMBDA e, sum : Rounded(e.size) + sum, 0, archive) + Page * Cardinality(paths),
      inodes |-> Cardinality(paths),
      owned |-> {p \in paths : EntryPoint(p)}]

\* What the inspection of an archive answers before anything is unpacked.
Inspected(archive) ==
  LET paths == UNION {Prefixes1(RelativePath(e.name)) : e \in ToSet(archive)}
  IN [ok |-> /\ \A e \in ToSet(archive) : SafeName(e.name)
             /\ Len(archive) <= MaxEntries /\ SizesOf(archive) <= MaxBytes
             /\ Cardinality(paths) <= MaxEntries,
      bytes |-> FoldSeq(LAMBDA e, sum : Rounded(e.size) + sum, 0, archive) + Page * Cardinality(paths),
      inodes |-> Cardinality(paths),
      owned |-> {RelativePath(e.name) : e \in {x \in ToSet(archive) :
                   /\ x.kind = "link" \/ (x.kind = "file" /\ x.exec)
                   /\ EntryPoint(RelativePath(x.name))}}]

-----------------------------------------------------------------------------
\* Nodes: a regular file carries the identity of its inode.
Dir == [kind |-> "dir"]
DirsOf(tree)  == {p \in DOMAIN tree : tree[p].kind = "dir"}
LinksOf(tree) == {p \in DOMAIN tree : tree[p].kind = "link"}
FilesOf(tree) == {p \in DOMAIN tree : tree[p].kind = "file"}
Children(tree, p) == {q \in DOMAIN tree : p \in Ancestors(q)}

\* A name is refused when a component of it, the last included, is a link.
ThroughLink(tree, p) == Prefixes1(p) \cap LinksOf(tree) # {}

\* The lexical check of a link's destination against the depth of the link.
SafeDestination(p, to) ==
  /\ ~to.abs /\ to.at # <<>>
  /\ LET depth[n \in 0..Len(to.at)] ==      \* -1 once the root was left
           IF n = 0 THEN Len(p) - 1
           ELSE LET before == depth[n - 1]
                IN IF before < 0 THEN before
                   ELSE IF to.at[n] = "."  THEN before
                   ELSE IF to.at[n] = ".." THEN before - 1
                   ELSE before + 1
     IN depth[Len(to.at)] >= 0

\* A hard link may only name a regular file this archive created.
SafeHardLink(s, to) == /\ SafeName(to) /\ ~ThroughLink(s.tree, RelativePath(to))
                       /\ RelativePath(to) \in s.made \cap FilesOf(s.tree)

Admissible(s, e) ==
  LET p == RelativePath(e.name)
  IN /\ SafeName(e.name) /\ e.kind \in {"file", "dir", "link", "hard"}
     /\ e.kind # "file" => e.size = 0
     /\ s.count < MaxEntries /\ s.bytes + e.size <= MaxBytes
     /\ p = <<>> => e.kind = "dir"
     /\ ~ThroughLink(s.tree, p)
     /\ e.kind = "link" => SafeDestination(p, e.to)
     /\ e.kind = "hard" => SafeHardLink(s, e.to)

\* libarchive's writer: missing parents become directories, a file in the
\* place of a parent is replaced, a directory that holds anything is not.
Placed(tree, p, node) ==
  [q \in DOMAIN tree \cup Prefixes1(p) |->
     CASE q = p -> IF node.kind = "dir" /\ p \in DirsOf(tree) THEN tree[p] ELSE node
       [] q \in Ancestors(p) \ DirsOf(tree) -> Dir
       [] OTHER -> tree[q]]

NodeOf(s, e, p) ==
  CASE e.kind = "dir"  -> Dir
    [] e.kind = "link" -> [kind |-> "link", to |-> e.to]
    [] e.kind = "hard" -> s.tree[RelativePath(e.to)]
    [] OTHER -> [kind |-> "file", size |-> e.size, exec |-> e.exec, inode |-> <<s.who, s.count>>]

\* One entry; once an entry was refused nothing more is written.
Entry1(e, s) ==
  LET p == RelativePath(e.name)
      next == [s EXCEPT !.count = @ + 1, !.bytes = @ + e.size]
  IN IF ~s.ok THEN s
     ELSE IF ~Admissible(s, e) THEN [s EXCEPT !.ok = FALSE]
     ELSE IF p = <<>> THEN next
     ELSE IF e.kind # "dir" /\ Children(s.tree, p) # {} THEN [s EXCEPT !.ok = FALSE]
     ELSE [next EXCEPT !.tree = Placed(s.tree, p, NodeOf(s, e, p)),
                        !.made = IF e.kind \in {"file", "hard"} THEN @ \cup {p} ELSE @]

Unpacked(tree, archive, who) ==
  FoldLeft(LAMBDA s, e : Entry1(e, s),
           [ok |-> TRUE, tree |-> tree, made |-> {}, who |-> who, count |-> 0, bytes |-> 0], archive)

\* Resolution in file-system order; Outside when it leaves the root, meets an
\* absolute link or follows too many. A missing component ends nothing.
Outside == <<"..">>
Walk(tree, p) ==
  LET from[at \in Seq(STRING), pending \in Seq(STRING), followed \in 0..MaxFollow] ==
        IF pending = <<>> THEN at
        ELSE LET c == Head(pending)
                 rest == Tail(pending)
                 here == Append(at, c)
             IN CASE c = "."  -> from[at, rest, followed]
                  [] c = ".." -> IF at = <<>> THEN Outside ELSE from[Front(at), rest, followed]
                  [] here \in LinksOf(tree) ->
                       IF followed = MaxFollow \/ tree[here].to.abs THEN Outside
                       ELSE from[at, tree[here].to.at \o rest, followed + 1]
                  [] OTHER -> from[here, rest, followed]
  IN from[<<>>, p, 0]

LinksStayInside(tree) == \A p \in LinksOf(tree) : Walk(tree, p) # Outside

DiskSize(tree) == FoldSet(LAMBDA p, sum : tree[p].size + sum, 0, FilesOf(tree))

\* Unpack one archive; then the whole tree is measured and every link followed.
Extracted(tree, archive, who) ==
  LET s == Unpacked(tree, archive, who)
  IN [tree |-> s.tree, ok |-> s.ok /\ DiskSize(s.tree) <= MaxBytes /\ LinksStayInside(s.tree)]

\* The regular file a name stands for carries an executable bit.
Runnable(tree, p) == LET q == Walk(tree, p) IN q \in FilesOf(tree) /\ tree[q].exec

-----------------------------------------------------------------------------
\* What a tree occupies: a page for a directory or a link, pages for an inode.
InodesOf(tree) == {tree[p].inode : p \in FilesOf(tree)}
OccupiedInodes(tree) == Cardinality(InodesOf(tree)) + Cardinality(DirsOf(tree) \cup LinksOf(tree))
OccupiedBytes(tree) ==
  Page * Cardinality(DirsOf(tree) \cup LinksOf(tree))
  + FoldSet(LAMBDA i, sum : Rounded(tree[CHOOSE p \in FilesOf(tree) : tree[p].inode = i].size) + sum,
            0, InodesOf(tree))
=============================================================================
