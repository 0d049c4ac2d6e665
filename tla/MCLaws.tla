------------------------------- MODULE MCLaws -------------------------------
(* Small instances of the laws: journals made of two restores, one of a    *)
(* unit file whose undo also reloads, a unit, a reload and a restart; and  *)
(* Nix texts over the characters that are special to a writer or a reader, *)
(* whole words of the generated files standing for single letters.         *)
EXTENDS JournalLaws, NixLaws

MCAction == {"restoreA", "restoreB", "startU", "reload", "restartU"}
MCSync   == {"reload", "restartU"}
MCLoaded == {"startU"}
MCFrom   == [a \in MCAction |-> CASE a = "restoreA" -> "backupA"
                                  [] a = "restoreB" -> "backupB"
                                  [] OTHER -> NoPath]
MCChar == {"$", "{", "\\", "\"", "cr", "n"}
MCUndoLists == {<<>>, <<"restoreA">>, <<"restoreB", "reload">>,
                <<"startU", "restartU">>}

MCLetter == {"a", "i", "f", "o", "r", "n", "t", "u", "e", "l", "s"}
            \cup {"pkgs", "home", "homeDirectory", "packages", "stateVersion", "version", "username",
                  "extraBuilderCommands", "cp", "out", "generated", "nix", "lib", "modules",
                  "homeManagerConfiguration", "legacyPackages", "description", "Generated", "by", "mix",
                  "inputs", "outputs", "homeConfigurations", "home-manager", "nixpkgs", "url",
                  "follows", "owner", "repo", "username hole", "system hole", "x86_64-linux"}
MCKeys == {<<"a">>, <<"i", "f">>, <<"$">>, <<"\"", "\\">>, <<"a", ".", "1">>, <<"t", "r", "u", "e">>}
MCNames == {<<"a">>, <<"i", "f">>, <<"$", "{", "a", "}">>, <<"\\">>, <<"?", "#", "&">>, <<"a", " ", "%">>,
            <<".">>, <<"a", ".", "a">>, <<" ">>, <<"\"">>, <<"$", "$", "{">>, <<"cr", "nl">>}
MCReserved == {"/", "?", "#", "&", "%", "=", "+", " ", "$", "{", "}", "\\", "\"", "cr", "nl"}

(* Either a journal is grown or a text.                                    *)
Unwritten == <<"nothing">>
NoLaws == Init /\ text = Unwritten /\ size = 0

LawsInit == NoLaws \/ (Init /\ NixInit)
GrowsJournal == text = Unwritten /\ Next /\ UNCHANGED nixVars
GrowsText == text # Unwritten /\ NixNext /\ UNCHANGED vars
=============================================================================
