---------------------------- MODULE MCEphemeral ----------------------------
(* Small instances of Ephemeral: an application with two libraries that     *)
(* depend on each other, archives whose links and sizes matter, and the     *)
(* invocations that take every branch of the command line.                  *)
EXTENDS Ephemeral, TLC

At(p) == Spelled(FALSE, p)
File(p, size, exec) == [name |-> At(p), kind |-> "file", size |-> size, exec |-> exec, to |-> At(<<>>)]
DirAt(p)      == [name |-> At(p), kind |-> "dir", size |-> 0, exec |-> FALSE, to |-> At(<<>>)]
LinkTo(p, to) == [name |-> At(p), kind |-> "link", size |-> 0, exec |-> FALSE, to |-> At(to)]
HardTo(p, to) == [name |-> At(p), kind |-> "hard", size |-> 0, exec |-> FALSE, to |-> At(to)]

UsrBin(x) == <<"usr", "bin", x>>
Info == File(<<".PKGINFO">>, 1, FALSE)

\* The application: a program, a link to it, a hard link, and shared data.
AppArchive == <<DirAt(<<".">>), Info, File(UsrBin("app"), 5, TRUE), LinkTo(UsrBin("tool"), <<"app">>),
                HardTo(<<"usr", "share", "app">>, <<".", "usr", "bin", "app">>)>>
\* Only a tool, and a link into a library that comes from another archive.
LinkedArchive == <<Info, File(UsrBin("tool"), 4, TRUE), LinkTo(<<"usr", "lib", "app">>, <<"..", "alias", "..", "..", "x">>)>>
\* With alias absent the link above stays inside; with it, it leaves the root.
AliasArchive == <<Info, LinkTo(<<"usr", "alias">>, <<".">>)>>
PlainArchive == <<Info, File(UsrBin("b"), 3, TRUE), File(<<"usr", "lib", "b">>, 3, FALSE)>>
\* What an unverified download may hold: a link out of the root.
BadArchive == <<Info, File(UsrBin("app"), 1, TRUE), LinkTo(<<"usr", "out">>, <<"..", "..", "x">>)>>

App  == "app"
LibA == "liba"
LibB == "libb"
Depends == (App :> <<"a", "b">>) @@ (LibA :> <<"b>=2", "app">>) @@ (LibB :> <<"a", "libc">>)
NoDepends == [p \in {App, LibA, LibB} |-> <<>>]
Provider == ("a" :> LibA) @@ ("b" :> LibB) @@ ("b>=2" :> LibB) @@ ("app" :> App) @@ ("libc" :> Nothing) @@ ("gone" :> Nothing)
            @@ ("extra/app" :> App)

Base ==
  [depends |-> NoDepends, provider |-> Provider, satisfied |-> {"libc"},
   digests |-> {App, LibA, LibB}, cached |-> [p \in {App, LibA, LibB} |-> Nothing], cleaner |-> FALSE,
   payload |-> (App :> AppArchive) @@ (LibA :> AliasArchive) @@ (LibB :> PlainArchive), damaged |-> BadArchive,
   installed |-> [p \in {} |-> {}], stripped |-> (App :> "app") @@ (LibA :> "a") @@ (LibB :> "b"),
   tools |-> {"flatpak", "nix", "pipx"}, apps |-> {}, bwrap |-> "works", agrees |-> FALSE, room |-> "enough",
   base |-> "tmp", cwd |-> <<"srv", "data">>, overlay |-> TRUE, socket |-> TRUE, reused |-> FALSE]

MCWorlds ==
  {[Base EXCEPT !.depends = Depends],
   [Base EXCEPT !.depends[App] = <<"a">>, !.payload[App] = LinkedArchive],
   [Base EXCEPT !.depends[App] = <<"gone">>],
   [Base EXCEPT !.digests = {}, !.cached[App] = "bad", !.damaged = <<File(UsrBin("app"), 1, TRUE)>>, !.cwd = <<"home", "src">>, !.overlay = FALSE],
   [Base EXCEPT !.depends[App] = <<"b">>, !.cached[App] = "good", !.cleaner = TRUE, !.base = "home", !.reused = TRUE],
   [Base EXCEPT !.cached[App] = "bad", !.room = "tight", !.bwrap = "missing", !.agrees = TRUE],
   \* No package is called app: a library provides it, whose only program runs.
   [Base EXCEPT !.provider["app"] = LibB, !.depends[LibB] = <<"a">>, !.digests = {LibA}, !.cached[LibB] = "good"],
   [Base EXCEPT !.provider["app"] = Nothing, !.installed = (App :> {UsrBin("app"), UsrBin("x")}), !.bwrap = "broken",
                !.apps = {App}, !.cwd = <<>>, !.room = "enough"],
   [Base EXCEPT !.installed = (App :> {UsrBin("x"), UsrBin("y")}), !.tools = {"nix"}, !.room = "none"]}

Ask(mode, args) == [mode |-> mode, args |-> args, policy |-> "auto", provider |-> Nothing, target |-> App, pkg |-> App]
MCInvocations ==
  {Ask("run", <<>>), Ask("try", <<"--rw", "--gui", "x", "--", "--bare">>), Ask("run", <<"--sandbox", "--allow-unverified">>),
   Ask("try", <<"--bin=tool", "--net">>), Ask("run", <<"--installed">>), Ask("try", <<"--dry-run", "--bare">>),
   Ask("run", <<"--no-cache", "--bin=tool">>),
   [Ask("try", <<"--allow-unverified">>) EXCEPT !.policy = "ram"],
   [Ask("run", <<>>) EXCEPT !.provider = "extra", !.target = "extra/app"],
   [Ask("try", <<>>) EXCEPT !.provider = "flatpak"], [Ask("run", <<"--no-cache">>) EXCEPT !.provider = "flatpak"],
   [Ask("run", <<>>) EXCEPT !.provider = "nix"], [Ask("try", <<>>) EXCEPT !.provider = "nix"],
   [Ask("run", <<"--no-cache">>) EXCEPT !.provider = "pipx"], [Ask("try", <<"--dry-run">>) EXCEPT !.provider = "pipx"]}
=============================================================================
