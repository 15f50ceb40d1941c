-------------------------- MODULE MCSourceInstall --------------------------
(* Two packages, five definitions: releases for the stable, the alpha and the  *)
(* prerelease channel, native packages of a manifest, and a Git build. On  *)
(* rc9 and rc10, and on the versions the manifest writes over, the         *)
(* semantic order and pacman's disagree.                                   *)
EXTENDS SourceInstall, TLC

CONSTANTS app, tool, hosted, user, tmp, var

MCPackage == {app, tool}
MCAlias == {hosted, user}
Word(w) == [word |-> w, num |-> 0]
Number(n) == [word |-> None, num |-> n]
V(n) == [core |-> n, pre |-> << >>]
Candidate(n, i) == [core |-> n, pre |-> << [word |-> "rc", num |-> i] >>]
Alpha(n, i) == [core |-> n, pre |-> << Word("alpha"), Number(i) >>]

Recipe == [channel |-> "stable", format |-> "archive", git |-> FALSE, build |-> FALSE,
           revision |-> None, tag |-> None, pattern |-> None, sha |-> None, checksums |-> TRUE,
           pages |-> 1, binaries |-> TRUE, depends |-> {}]
Release(tag, version, content) ==
    [tag |-> tag, version |-> version, override |-> None, flag |-> FALSE, draft |-> FALSE,
     assets |-> << [matches |-> TRUE, digest |-> content], [matches |-> FALSE, digest |-> None] >>,
     sums |-> << << content >> >>, refs |-> << [form |-> "direct", commit |-> 9],
                                               [form |-> "peeled", commit |-> content] >>]

(* The hosted source in four editions: stable archives, the alpha channel      *)
(* with two pages, every pre-release, and a Git build.                     *)
Stable == [kind |-> "github", token |-> FALSE, recipes |-> app :> Recipe]
Prereleases == [Stable EXCEPT !.recipes[app].channel = "alpha", !.recipes[app].pages = 2,
                             !.recipes[app].depends = {tool}]
GitBuild == [Stable EXCEPT !.recipes[app].format = "source", !.recipes[app].git = TRUE,
                           !.recipes[app].build = TRUE, !.recipes[app].checksums = FALSE]
Untested == [Stable EXCEPT !.recipes[app].channel = "prerelease"]
Catalog == [kind |-> "manifest", token |-> FALSE,
            recipes |-> tool :> [Recipe EXCEPT !.format = "native", !.binaries = FALSE]]
MCSource == {Stable, Prereleases, Untested, GitBuild, Catalog}

Files(r, s, c) == [releases |-> r, served |-> s, commits |-> c]
MCUpstream == (app :> {
      Files(<< Release("v2", V(2), 2), Release("v1", V(1), 1) >>,
            [v1 |-> 1, v2 |-> 2], {1, 2}),
      Files(<< Release("v1", V(1), 1), Release("v2a", Alpha(2, 2), 3),
               Release("v2", V(2), 5), Release("v3a", Alpha(3, 1), 4) >>,
            [v1 |-> 1, v2 |-> 5, v2a |-> 3, v3a |-> 4], {1, 3, 4, 5}),
      Files(<< Release("v2rc10", Candidate(2, 10), 3), Release("v2rc9", Candidate(2, 9), 4) >>,
            [v2rc10 |-> 3, v2rc9 |-> 4], {3, 4}) }
   @@ tool :> {
      Files(<< [Release("v2", V(2), 6) EXCEPT !.override = ArchVersion(V(7))],
               Release("v1", V(1), 1) >>, [v1 |-> 1, v2 |-> 6], {}),
      Files(<< [Release("v2", V(2), 1) EXCEPT !.override = ArchVersion(V(1))],
               [Release("v1", V(1), 6) EXCEPT !.override = ArchVersion(V(7))] >>,
            [v1 |-> 6, v2 |-> 1], {}) })
MCInside == [c \in 1 .. 6 |-> IF c = 6 THEN ArchVersion(V(7)) ELSE ArchVersion(V(1))]
MCDirect == { [value |-> [prefix |-> "github", rest |-> "project", parts |-> 2],
               alias |-> user, source |-> Stable, package |-> app] }

At(v, c) == [version |-> v, content |-> c]
MCDatabases == { (app :> At(ArchVersion(V(1)), 1) @@ tool :> At(ArchVersion(V(1)), 1)),
                 (app :> At(None, None) @@ tool :> At(ArchVersion(V(1)), 1)) }
Pins(a, t) == (app :> a @@ tool :> t)
MCConfigs == { [sources |-> (hosted :> s @@ user :> Catalog), pins |-> Pins(hosted, user)] :
                   s \in {Stable, Prereleases, Untested, GitBuild} }
        \cup { [sources |-> (hosted :> None @@ user :> None), pins |-> Pins(None, None)] }
MCDependsOn == [p \in MCPackage |-> {}]
MCBases == << tmp, var >>
=============================================================================
