----------------------------- MODULE MCRequests -----------------------------
(* Two users; the machines are an empty one and one mix was set up on.     *)
EXTENDS Requests

MCAlphabet ==
    <<".config", ".git", ".gitignore", ".mix", ".nix-profile", "HEAD", "bin", "config",
      "default", "empty", "etc", "flake.lock", "flake.nix", "home", "home-manager", "home.nix",
      "index", "index.lock", "journal", "main", "mix", "mix-daemon", "mix-nix.sh", "mix.service",
      "mix.socket", "multi-user.target.wants", "nix", "nix-env", "nix.conf", "nix.service",
      "nix.socket", "objects", "policy", "profile.d", "profiles", "refs", "sockets.target.wants",
      "state", "store", "system", "systemd", "u", "v", "var">>
MCEmbedded == <<<<1, 1>>, <<1, 1>>>>
MCNewest == <<<<2, 2>>, <<1, 1>>>>

Account(name, uid) == [name |-> name, ids |-> <<uid, uid>>, home |-> P(<<"home", name>>)]
U == Account("u", 1000)
V == Account("v", 1001)

\* Above every number a prediction hands out.
Epoch == 1000

Empty ==
    LET dirs == <<P(<<"etc">>), P(<<"etc", "systemd">>), SYSTEMD, P(<<"var">>), P(<<"home">>)>>
        bare == [files |-> <<>>, groups |-> <<>>,
                 users |-> [n \in {"u", "v"} |-> [ids |-> IF n = "u" THEN U.ids ELSE V.ids,
                                                  comment |-> 0]],
                 units |-> <<>>, profiles |-> <<>>, aside |-> <<>>, pending |-> <<>>,
                 acting |-> 0, next |-> Epoch, journals |-> <<>>, linked |-> <<>>, clobbered |-> {}]
        made == FoldLeft(LAMBDA v, dir : Insert(v, dir, Directory, Open, ROOT), bare, dirs)
    IN  Insert(Insert(made, U.home, Directory, Private, U.ids), V.home, Directory, Private, V.ids)

\* A command carried through without trouble.
RECURSIVE Through(_, _)
Through(v, steps) ==
    IF steps = <<>> THEN Commit(v)
    ELSE LET taken == FoldLeft(LAMBDA u, a : Apply(u, a).w, v, StepActions(v, Head(steps), 0).actions)
         IN  IF taken.next >= v.next THEN Through(taken, Tail(steps)) ELSE v
Bootstrapped(v, user) == Through(v, BootstrapSteps(Configured(v, user), FALSE))
Joined == Bootstrapped(Bootstrapped(Empty, V), U)
Established == Through(Joined, InstallSteps(Joined, Configured(Joined, U), {"tmux"}))
MCBase == {Empty, Established}
Plain == [packages |-> {}, force |-> FALSE, all |-> FALSE]
Command(op) == Plain @@ [op |-> op, user |-> U]
Installing == [Command("install") EXCEPT !.packages = {"vim"}]
Removing == [Command("remove") EXCEPT !.packages = {"vim"}]
Forced == [Command("bootstrap") EXCEPT !.force = TRUE]
MCHistories ==
    {<<Installing, Removing>>, <<Removing, Installing>>, <<Command("update"), Command("clean")>>,
     <<Command("clean"), Command("update")>>, <<Forced, Command("repair")>>}
      \cup {<<Command(pair[1]), Command(pair[2])>> : pair \in
              {<<"bootstrap", "repair">>, <<"repair", "bootstrap">>, <<"purge", "bootstrap">>,
               <<"user_remove", "purge">>}}
MCUsers == {U, V}
MCDrifts ==
    {<<"edit", NIX_CONF_DEST>>, <<"list", STATE_DIR(U.home) \o P(<<"state">>), {"git", "vim"}>>,
     <<"own", STATE_DIR(U.home)>>, <<"delete", REPOSITORY(U.home)>>,
     <<"dangle", PROFILES_DIR(U.home)>>, <<"stop", UnitPath("mix.service"), "mix.service">>,
     <<"newer", STATE_DIR(U.home) \o P(<<"state">>)>>}
=============================================================================
