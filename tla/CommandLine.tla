----------------------------- MODULE CommandLine -----------------------------
(***************************************************************************)
(* What the program hands to itself when it is started as the service or   *)
(* as its manager: the words of the command line, the units that keep the  *)
(* owner of the socket between an installation and a repair, and the       *)
(* quoting of the elevated start on Windows (linux_service/entry.rs,       *)
(* manage.rs and render.rs, windows_service.rs and                         *)
(* windows_service_manager.rs).  Parsers and printers only: a command line *)
(* or an argument is built word by word, and the operators are compared    *)
(* with what they are to compute.                                          *)
(***************************************************************************)
EXTENDS Naturals, Sequences, SequencesExt

CONSTANTS
    Modes,          \* "service", "manage" (Linux) and "windows" (the manager there)
    Words,          \* what a command line is made of
    Letters,        \* what an argument is made of
    Owners,         \* whom the socket may belong to: [group, user, uid]
    MaxWords,       \* bound: words of a command line
    MaxLetters      \* bound: letters of an argument

VARIABLES mode, words, letters

vars == <<mode, words, letters>>

None == "none"
Failed == [failed |-> TRUE]
Numbers == {"7", "1000"}

(***************************************************************************)
(* Words                                                                   *)
(***************************************************************************)
FlagsOf(m) ==
    CASE m = "service" -> {"--socket", "--socket-group", "--allowed-uid"}
      [] m = "manage" -> {"--source", "--binary-path", "--unit-path", "--socket-unit-path",
                          "--startup-repair-unit-path", "--socket-group", "--socket-user",
                          "--allowed-uid"}
      [] m = "windows" -> {"--source"}
Optional == {"--socket-group", "--socket-user"}

\* what is in force without a word; DEFAULT_SOCKET_GROUP and the default paths
Defaults(m) ==
    [flag \in FlagsOf(m) |->
        IF flag = "--socket-group" /\ m = "manage" THEN "r-wg"
        ELSE IF flag \in {"--source", "--socket-group", "--socket-user", "--allowed-uid"} THEN None
        ELSE "default"]

Scan(m) == [options |-> Defaults(m), pending |-> None, failed |-> FALSE]

\* a mutant: "none" is a value like any other
StoreWord(scan, flag, word) == [scan EXCEPT !.options[flag] = word, !.pending = None]
Store(scan, flag, word) ==
    IF flag = "--allowed-uid" /\ word \notin Numbers THEN [scan EXCEPT !.failed = TRUE]
    ELSE [scan EXCEPT !.options[flag] = IF flag \in Optional /\ word = "None" THEN None ELSE word,
                      !.pending = None]

\* a mutant: a flag is never taken as a value
StepFlagsFirst(m, scan, word) ==
    IF scan.failed THEN scan
    ELSE IF word \in FlagsOf(m) THEN [scan EXCEPT !.pending = word]
    ELSE IF scan.pending # None THEN Store(scan, scan.pending, word)
    ELSE [scan EXCEPT !.failed = TRUE]
\* the loop of parse_service_mode_args and of both parse_manage_command
Step(m, scan, word) ==
    IF scan.failed THEN scan
    ELSE IF scan.pending # None THEN Store(scan, scan.pending, word)
    ELSE IF word \in FlagsOf(m) THEN [scan EXCEPT !.pending = word]
    ELSE [scan EXCEPT !.failed = TRUE]

\* a mutant: a flag at the end is let pass
ScanLineOpen(m, line) ==
    LET end == FoldLeft(LAMBDA scan, word : Step(m, scan, word), Scan(m), line)
    IN  IF end.failed THEN Failed ELSE [failed |-> FALSE, options |-> end.options]
ScanLine(m, line) ==
    LET end == FoldLeft(LAMBDA scan, word : Step(m, scan, word), Scan(m), line)
    IN  IF end.failed \/ end.pending # None THEN Failed
        ELSE [failed |-> FALSE, options |-> end.options]

ActionsOf(m) == {"install", "repair", "remove"} \union (IF m = "manage" THEN {"startup-repair"} ELSE {})
NeedsSource(action) == action \in {"install", "repair"}

\* parse_manage_command; the rest of the line is read before the action is
Manage(m, line) ==
    IF line = <<>> THEN Failed
    ELSE LET rest == ScanLine(m, Tail(line))
         IN  IF rest.failed \/ Head(line) \notin ActionsOf(m) THEN Failed
             ELSE IF NeedsSource(Head(line)) /\ rest.options["--source"] = None THEN Failed
             ELSE [failed |-> FALSE, action |-> Head(line), options |-> rest.options]

\* parse_linux_entry_command, parse_windows_entry_command without their first word
Parse(m, line) == IF m = "service" THEN ScanLine(m, line) ELSE Manage(m, line)

(***************************************************************************)
(* The units                                                               *)
(***************************************************************************)
\* a mutant: a socket that belongs to a user forgets the group everywhere
ExecStartOfUser(owner) ==
    (IF owner.group # None /\ owner.user = None THEN <<"--socket-group", owner.group>> ELSE <<>>)
    \o (IF owner.uid # None THEN <<"--allowed-uid", owner.uid>> ELSE <<>>)
\* render_service_unit
ExecStart(owner) ==
    (IF owner.group # None THEN <<"--socket-group", owner.group>> ELSE <<>>)
    \o (IF owner.uid # None THEN <<"--allowed-uid", owner.uid>> ELSE <<>>)

\* render_socket_unit: SocketUser and SocketGroup, None where the line is not written
SocketUnit(owner) ==
    IF owner.user # None THEN [user |-> owner.user, group |-> None]
    ELSE IF owner.group # None THEN [user |-> "root", group |-> owner.group]
    ELSE [user |-> "root", group |-> None]

\* load_existing_install_auth_mode: the word after the flag, wherever it stands
After(line, flag) ==
    LET places == {i \in 1..(Len(line) - 1) : line[i] = flag}
    IN  IF places = {} THEN None ELSE line[(CHOOSE i \in places : \A k \in places : k <= i) + 1]
OwnerOf(line, socket) ==
    [group |-> IF socket.group # None THEN socket.group ELSE After(line, "--socket-group"),
     user |-> IF socket.user = "root" THEN None ELSE socket.user,
     uid |-> IF After(line, "--allowed-uid") \in Numbers THEN After(line, "--allowed-uid") ELSE None]

\* manage_privileged_service and build_manage_args
ManagerLine(m, action, user, uid) ==
    <<action>> \o (IF ~NeedsSource(action) THEN <<>>
                   ELSE <<"--source", "exe">> \o
                        (IF m = "windows" THEN <<>>
                         ELSE <<"--socket-group", "None", "--allowed-uid", uid, "--socket-user", user>>))

(***************************************************************************)
(* Quoting                                                                 *)
(***************************************************************************)
Backslashes(n) == [i \in 1..n |-> "\\"]

\* a mutant: the backslashes at the end are not doubled
QuoteTail(arg) ==
    LET Add(acc, c) ==
            CASE c = "\\" -> [acc EXCEPT !.held = @ + 1]
              [] c = "\"" -> [text |-> acc.text \o Backslashes(2 * acc.held + 1) \o <<c>>, held |-> 0]
              [] OTHER -> [text |-> acc.text \o Backslashes(acc.held) \o <<c>>, held |-> 0]
        end == FoldLeft(Add, [text |-> <<"\"">>, held |-> 0], arg)
    IN  IF \A i \in DOMAIN arg : arg[i] \notin {" ", "\""} THEN arg
        ELSE end.text \o Backslashes(end.held) \o <<"\"">>
\* quote_windows_arg
Quote(arg) ==
    LET Add(acc, c) ==
            CASE c = "\\" -> [acc EXCEPT !.held = @ + 1]
              [] c = "\"" -> [text |-> acc.text \o Backslashes(2 * acc.held + 1) \o <<c>>, held |-> 0]
              [] OTHER -> [text |-> acc.text \o Backslashes(acc.held) \o <<c>>, held |-> 0]
        end == FoldLeft(Add, [text |-> <<"\"">>, held |-> 0], arg)
    IN  IF \A i \in DOMAIN arg : arg[i] \notin {" ", "\""} THEN arg
        ELSE end.text \o Backslashes(2 * end.held) \o <<"\"">>

\* how Windows cuts a command line into arguments: an even number of backslashes
\* before a quote is halved and the quote opens or closes, an odd number is halved
\* and the quote is taken
Cut(line) ==
    LET Word(acc) == IF acc.some THEN [acc EXCEPT !.args = Append(@, acc.word), !.word = <<>>, !.some = FALSE]
                     ELSE acc
        Flush(acc) == [acc EXCEPT !.word = @ \o Backslashes(acc.held), !.some = @ \/ acc.held > 0, !.held = 0]
        Add(acc, c) ==
            CASE c = "\\" -> [acc EXCEPT !.held = @ + 1]
              [] c = "\"" -> [acc EXCEPT !.word = @ \o Backslashes(acc.held \div 2)
                                                    \o (IF acc.held % 2 = 1 THEN <<c>> ELSE <<>>),
                                         !.open = IF acc.held % 2 = 1 THEN @ ELSE ~@,
                                         !.some = TRUE, !.held = 0]
              [] c = " " /\ ~acc.open -> Word(Flush(acc))
              [] OTHER -> [Flush(acc) EXCEPT !.word = Append(@, c), !.some = TRUE]
    IN  Word(Flush(FoldLeft(Add, [args |-> <<>>, word |-> <<>>, some |-> FALSE, held |-> 0, open |-> FALSE],
                            line))).args

(***************************************************************************)
(* Command lines and arguments                                             *)
(***************************************************************************)
AddWord(w) ==
    /\ letters = <<>> /\ Len(words) < MaxWords
    /\ words' = Append(words, w)
    /\ UNCHANGED <<mode, letters>>

AddLetter(c) ==
    /\ words = <<>> /\ mode = "windows" /\ Len(letters) < MaxLetters
    /\ letters' = Append(letters, c)
    /\ UNCHANGED <<mode, words>>

Init == mode \in Modes /\ words = <<>> /\ letters = <<>>
Next == (\E w \in Words : AddWord(w)) \/ (\E c \in Letters : AddLetter(c))
Spec == Init /\ [][Next]_vars

----------------------------------------------------------------------------
(***************************************************************************)
(* Properties                                                              *)
(***************************************************************************)
TypeOK == mode \in Modes /\ words \in Seq(Words) /\ letters \in Seq(Letters)

Pairs(line) == {i \in 1..Len(line) : i % 2 = 1}
Sound(m, line) ==
    /\ Len(line) % 2 = 0
    /\ \A i \in Pairs(line) :
         line[i] \in FlagsOf(m) /\ (line[i] = "--allowed-uid" => line[i + 1] \in Numbers)
Meant(m, line) ==
    [flag \in FlagsOf(m) |->
        LET given == {i \in Pairs(line) : line[i] = flag}
            last == CHOOSE i \in given : \A k \in given : k <= i
        IN  IF given = {} THEN Defaults(m)[flag]
            ELSE IF line[last + 1] = "None" /\ flag \in Optional THEN None ELSE line[last + 1]]
(* A command line is understood exactly when it is an action and pairs of  *)
(* a flag and a value, and then each option is the value given last, or    *)
(* what holds without one.                                                 *)
ArgumentsExact ==
    LET line == IF mode = "service" \/ words = <<>> THEN words ELSE Tail(words)
        parsed == Parse(mode, words)
        sound == /\ Sound(mode, line)
                 /\ mode # "service" => words # <<>> /\ words[1] \in ActionsOf(mode)
                                        /\ (NeedsSource(words[1]) => Meant(mode, line)["--source"] # None)
    IN  /\ ~parsed.failed <=> sound
        /\ sound => parsed.options = Meant(mode, line)

(* What the program writes for itself it reads back as it was meant: the   *)
(* owner of the socket from the units, which the service is started with   *)
(* and a repair keeps, and the options of the manager the user starts.     *)
OwnersReadBack ==
    words = <<>> => \A owner \in Owners :
        /\ OwnerOf(ExecStart(owner), SocketUnit(owner)) = owner
        /\ LET service == Parse("service", ExecStart(owner))
           IN  /\ ~service.failed
               /\ service.options["--socket-group"] = owner.group
               /\ service.options["--allowed-uid"] = owner.uid
        /\ owner.user # None /\ owner.uid # None =>
             \A m \in {"manage", "windows"} : \A action \in ActionsOf(m) :
                LET manager == Parse(m, ManagerLine(m, action, owner.user, owner.uid))
                IN  /\ ~manager.failed /\ manager.action = action
                    /\ m = "manage" /\ NeedsSource(action) =>
                         /\ manager.options["--socket-user"] = owner.user
                         /\ manager.options["--socket-group"] = None
                         /\ manager.options["--allowed-uid"] = owner.uid

(* An argument that is not empty reaches the elevated manager as it is,    *)
(* whatever spaces, quotes and backslashes are in it and what stands       *)
(* around it.                                                              *)
QuotingExact ==
    letters # <<>> =>
        Cut(Quote(letters) \o <<" ">> \o Quote(<<"x">>) \o <<" ">> \o Quote(letters))
            = <<letters, <<"x">>, letters>>
=============================================================================
