--------------------------- MODULE SourceCatalog ---------------------------
(***************************************************************************)
(* What a release catalog offers and which release a recipe selects        *)
(* (src/sources/catalog.rs, git.rs, direct.rs, build/recipe.rs, mod.rs).   *)
(*                                                                         *)
(* A version is its numeric core and a sequence of pre-release             *)
(* identifiers. Two orders meet here: the semantic precedence by which     *)
(* select picks a release, and pacman's order on the version string that   *)
(* arch_version or the catalog writes, by which an update is recognised;   *)
(* they disagree on rc9 and rc10 and on rewritten versions. A tag, a       *)
(* digest, a commit and the bytes behind a URL are model values or numbers.*)
(***************************************************************************)
EXTENDS Naturals, Sequences, FiniteSets

CONSTANTS None,        \* no tag, no digest, no word, no selection
          Error        \* a refusal

(***************************************************************************)
(* Versions                                                                *)
(***************************************************************************)

(* The words of pre-release identifiers, in the order of their letters;     *)
(* "pre" is the word arch_version puts before a number.                    *)
WordRank == [alpha |-> 1, beta |-> 2, pre |-> 3, rc |-> 4]

(* The digits after a word (0: there are none), compared as text: rc10 comes  *)
(* before rc9, and rc before both.                                         *)
Digits[n \in Nat] == IF n = 0 THEN << >> ELSE Append(Digits[n \div 10], n % 10)
TextLess(s, t) ==
    \E i \in 1 .. Len(t) :
        /\ i <= Len(s) + 1
        /\ \A j \in 1 .. i - 1 : s[j] = t[j]
        /\ i = Len(s) + 1 \/ s[i] < t[i]

(* Precedence of two identifiers (the semver crate): a number is lower      *)
(* than a word, numbers compare as numbers and words as text.              *)
IdentifierLess(x, y) ==
    \/ x.word = None /\ y.word # None
    \/ x.word = None /\ y.word = None /\ x.num < y.num
    \/ x.word # None /\ y.word # None
       /\ \/ WordRank[x.word] < WordRank[y.word]
          \/ x.word = y.word /\ TextLess(Digits[x.num], Digits[y.num])

(* cmp_precedence: a release outranks its own pre-releases.                 *)
Outranks(v, w) ==
    \/ v.core > w.core
    \/ /\ v.core = w.core
       /\ \/ v.pre = << >> /\ w.pre # << >>
          \/ /\ w.pre # << >>
             /\ \E i \in 1 .. Len(v.pre) :
                    /\ i <= Len(w.pre) + 1
                    /\ \A j \in 1 .. i - 1 : v.pre[j] = w.pre[j]
                    /\ i = Len(w.pre) + 1 \/ IdentifierLess(w.pre[i], v.pre[i])

(* The parts of an identifier in a version string; gap is the number of      *)
(* separators before a part.                                               *)
Parts(id, first) ==
    LET gap == IF first THEN 0 ELSE 1
    IN IF id.word = None
       THEN IF first THEN << [word |-> "pre", num |-> 0, gap |-> 0],
                             [word |-> None, num |-> id.num, gap |-> 0] >>
                     ELSE << [word |-> None, num |-> id.num, gap |-> gap] >>
       ELSE << [word |-> id.word, num |-> 0, gap |-> gap] >>
            \o IF id.num = 0 THEN << >> ELSE << [word |-> None, num |-> id.num, gap |-> 0] >>

(* arch_version: the core, then the pre-release joined to it, "pre" before   *)
(* a pre-release that starts with a number.                                *)
ArchVersion(v) ==
    LET from[i \in Nat] == IF i > Len(v.pre) THEN << >>
                           ELSE Parts(v.pre[i], i = 1) \o from[i + 1]
    IN << [word |-> None, num |-> v.core, gap |-> 0] >> \o from[1]

(* vercmp's verdict (v is newer) at the first part that differs, or on what  *)
(* is left of the longer string.                                           *)
PartNewer(x, y) ==
    IF x.gap # y.gap THEN x.gap > y.gap
    ELSE \/ x.word = None /\ y.word # None
         \/ x.word = None /\ y.word = None /\ x.num > y.num
         \/ x.word # None /\ y.word # None /\ WordRank[x.word] > WordRank[y.word]

LeftoverNewer(x) == x.word = None \/ x.gap > 0

Newer(v, w) ==
    \E i \in 1 .. Len(v) + 1 :
        /\ \A j \in 1 .. i - 1 : j <= Len(w) /\ v[j] = w[j]
        /\ \/ i <= Len(v) /\ i <= Len(w) /\ v[i] # w[i] /\ PartNewer(v[i], w[i])
           \/ i <= Len(v) /\ i = Len(w) + 1 /\ LeftoverNewer(v[i])
           \/ i = Len(v) + 1 /\ i <= Len(w) /\ ~LeftoverNewer(w[i])

(***************************************************************************)
(* What a catalog says                                                     *)
(***************************************************************************)

(* parse_releases: GitHub drafts are dropped; GitLab knows no pre-release    *)
(* mark and no digest; a manifest may name a version and a package version.*)
Published(kind, releases) ==
    LET visible(r) == kind = "github" => ~r.draft
        seen(r) ==
            [r EXCEPT !.draft = FALSE,
                      !.flag = r.flag /\ kind # "gitlab",
                      !.override = IF kind \in {"github", "gitlab"} THEN None ELSE r.override,
                      !.assets = IF kind = "gitlab"
                                 THEN [i \in DOMAIN r.assets |-> [r.assets[i] EXCEPT !.digest = None]]
                                 ELSE r.assets]
        kept == SelectSeq(releases, visible)
    IN [i \in DOMAIN kept |-> seen(kept[i])]

(* releases: a manifest whole, a fixed tag from its own endpoint (an error   *)
(* if there is none), otherwise the recent window of the recipe.           *)
Listed(kind, recipe, releases, pageSize) ==
    LET all == Published(kind, releases)
        named(r) == r.tag = recipe.tag
        size == recipe.pages * pageSize
    IN CASE kind \in {"manifest", "local"} -> all
         [] kind \in {"github", "gitlab"} /\ recipe.tag # None -> SelectSeq(all, named)
         [] OTHER -> Published(kind, SubSeq(releases, 1, IF size < Len(releases) THEN size
                                                         ELSE Len(releases)))

(* accepts *)
Accepts(channel, version, flag) ==
    CASE channel = "stable" -> version.pre = << >> /\ ~flag
      [] channel = "prerelease" -> version.pre # << >> \/ flag
      [] OTHER -> version.pre # << >> /\ version.pre[1] = [word |-> channel, num |-> 0]

(* The releases select compares: right tag, right pattern, a version that    *)
(* parses, the channel.                                                    *)
Candidates(recipe, listed) ==
    { i \in DOMAIN listed :
        LET r == listed[i] IN
        /\ recipe.tag # None => r.tag = recipe.tag
        /\ recipe.pattern # None => r.tag \in recipe.pattern
        /\ r.version # None
        /\ Accepts(recipe.channel, r.version, r.flag) }

(* Fault: the catalog is trusted to list the newest release first. *)
FirstListed(listed, among) == { i \in among : \A j \in among : i <= j }

Greatest(listed, among) ==
    { i \in among : \A j \in among : ~Outranks(listed[j].version, listed[i].version) }

(* checksum_asset and checksum_line: one checksum file, in it one line for    *)
(* the selected asset.                                                     *)
ChecksumOf(release) ==
    IF Len(release.sums) = 1 /\ Len(release.sums[1]) = 1 THEN release.sums[1][1] ELSE None

(* select_commit: what ls-remote reports of the tag, the commit an annotated *)
(* tag points to before the tag object; anything else is refused.          *)
SelectCommit(lines) ==
    LET of(form) == { i \in DOMAIN lines : lines[i].form = form }
        one(form) == lines[CHOOSE i \in of(form) : TRUE].commit
    IN IF \/ of("other") # {}
          \/ Cardinality(of("direct")) > 1
          \/ Cardinality(of("peeled")) > 1
       THEN None
       ELSE IF of("peeled") # {} THEN one("peeled")
       ELSE IF of("direct") # {} THEN one("direct")
       ELSE None

(* git::resolve: a fixed revision needs no server.                           *)
ResolveCommit(recipe, release) ==
    IF recipe.revision # None THEN recipe.revision ELSE SelectCommit(release.refs)

(* The digest an approved asset must have: the recipe's, the catalog's, the  *)
(* checksum file's.                                                        *)
DigestOf(recipe, release, asset) ==
    IF recipe.sha # None THEN recipe.sha
    ELSE IF asset.digest # None THEN asset.digest
    ELSE IF recipe.checksums THEN ChecksumOf(release)
    ELSE None

(* select: the greatest matching release, refused when two have the same      *)
(* precedence, with the one asset and digest, or the one commit, that the  *)
(* approval will fix. Only a native package carries a version of its own.  *)
Select(recipe, listed) ==
    LET greatest == Greatest(listed, Candidates(recipe, listed))
        release == listed[CHOOSE i \in greatest : TRUE]
        fitting == { i \in DOMAIN release.assets : release.assets[i].matches }
        asset == release.assets[CHOOSE i \in fitting : TRUE]
        content == IF recipe.git THEN ResolveCommit(recipe, release)
                   ELSE IF Cardinality(fitting) # 1 THEN None
                   ELSE DigestOf(recipe, release, asset)
        version == IF release.override = None THEN ArchVersion(release.version)
                   ELSE release.override
    IN IF \/ Cardinality(greatest) # 1
          \/ content = None
          \/ recipe.format # "native" /\ version # ArchVersion(release.version)
       THEN None
       ELSE [tag |-> release.tag, version |-> version, content |-> content]

(***************************************************************************)
(* Source definitions                                                      *)
(***************************************************************************)

(* build::validate: build instructions exactly for source recipes, a Git     *)
(* input instead of an asset, a revision only with a fixed tag.            *)
ValidBuild(recipe) ==
    /\ recipe.build <=> recipe.format = "source"
    /\ recipe.git => recipe.build /\ recipe.sha = None /\ ~recipe.checksums
    /\ recipe.revision # None => recipe.git /\ recipe.tag # None

(* validate_config, for one source: aliases are safe and shadow no           *)
(* repository, a local catalog takes no token, every recipe is complete.   *)
ValidSource(alias, source, repositories) ==
    /\ alias \notin repositories
    /\ source.kind = "local" => ~source.token
    /\ \A p \in DOMAIN source.recipes :
        LET r == source.recipes[p] IN
        /\ r.pages \in 1 .. 20
        /\ r.format # "native" => r.binaries
        /\ r.sha # None => r.tag # None
        /\ ValidBuild(r)

(* direct::parse: which provider a direct target names, if it names one.      *)
(* A target is its prefix, whether the rest is a URL, an absolute path or  *)
(* a project of so many parts, its host, and whether it has a query.       *)
ParseDirect(t) ==
    CASE t.prefix = "manifest" ->
             IF t.rest = "https" THEN "manifest" ELSE IF t.rest = "path" THEN "local" ELSE Error
      [] t.prefix = "github" -> IF t.rest = "project" /\ t.parts = 2 THEN "github" ELSE Error
      [] t.prefix = "gitlab" ->
             IF t.parts >= 2 /\ (t.rest = "project" \/ (t.rest = "https" /\ ~t.query /\ ~t.api))
             THEN "gitlab" ELSE Error
      [] t.prefix = "https" ->
             IF t.json THEN "manifest"
             ELSE IF t.query THEN Error
             ELSE IF t.host = "github" /\ t.parts = 2 THEN "github"
             ELSE IF t.host = "gitlab" /\ t.parts >= 2 THEN "gitlab"
             ELSE Error
      [] OTHER -> None
=============================================================================
