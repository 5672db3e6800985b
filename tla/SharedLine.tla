----------------------------- MODULE SharedLine -----------------------------
(***************************************************************************)
(* The command line of a shell that a person, agents and command-line      *)
(* callers type into, and the guard in front of it: mcp/guard.rs follows   *)
(* what is typed, whoever types it, so that what an agent submits is       *)
(* classified as the line the shell will run; mcp/server.rs and            *)
(* ipc/socket.rs ask, record and write, and take the tracker back when     *)
(* they did not write.                                                     *)
(*                                                                         *)
(* The session lock admits one input at a time: `input` is the one that    *)
(* holds it. The shell is external: it edits a line as its keys say, and a *)
(* completion or a recalled line may leave anything.                       *)
(***************************************************************************)
EXTENDS Integers, SequencesExt

CONSTANTS MaxTracked, \* MAX_TRACKED_COMMAND_BYTES
          MaxLine,    \* bound: the length of a line
          MaxKeys     \* bound: the keys of one input

ASSUME TrackedAssumption == MaxTracked \in Nat \ {0} /\ MaxLine \in Nat /\ MaxKeys \in Nat

\* Harmless, risky and secret characters; Enter, backspace, Ctrl-C, and the keys whose
\* effect the tracker cannot tell.
Chars == {"safe", "risky", "secret"}
Keys == Chars \cup {"enter", "back", "clear", "edit"}
Writers == {"person", "agent", "cli"}
NoInput == [stage |-> "none"]

VARIABLES line,    \* what the shell shows after its prompt
          tracked, \* TrackedInput of the session, and whether the session is sensitive
          input,   \* the input that holds the lock of the session
          posted,  \* post_login_command was sent
          shown,   \* history: characters an agent's input has put into records or dialogs
          dropped, \* history: an agent's call was dropped on the way
          slipped  \* history: a risky line ran on a guarded Enter nobody approved

lineVars == <<line, tracked, input, posted, shown, dropped, slipped>>

EmptyTracked == [text |-> <<>>, exact |-> TRUE, sensitive |-> FALSE]

LineTypeOK ==
    /\ line \in Seq(Chars) /\ Len(line) <= MaxLine
    /\ tracked \in [text : Seq(Chars), exact : BOOLEAN, sensitive : BOOLEAN]
    /\ Len(tracked.text) <= MaxTracked
    /\ input = NoInput \/
         (/\ input.stage \in {"asking", "recording", "writing"} /\ input.who \in Writers
          /\ input.keys \in Seq(Keys) /\ {input.redact, input.guarded} \subseteq BOOLEAN
          /\ input.asked \in SUBSET (1..Len(input.commands)) /\ input.approved \subseteq input.asked)
    /\ {posted, dropped, slipped} \subseteq BOOLEAN /\ shown \subseteq Chars

LineInit ==
    /\ line = <<>> /\ tracked = EmptyTracked /\ input = NoInput
    /\ posted = FALSE /\ shown = {} /\ dropped = FALSE /\ slipped = FALSE

-----------------------------------------------------------------------------
(* guard.rs. *)

FinishCommand(t) ==
    [t EXCEPT !.text = <<>>, !.exact = TRUE,
              !.done = IF t.text = <<>> /\ t.exact THEN @
                       ELSE Append(@, [text |-> t.text, exact |-> t.exact])]

ObserveKey(t, key) ==
    CASE key = "enter" -> FinishCommand(t)
      [] key = "back"  -> [t EXCEPT !.text = IF @ = <<>> THEN @ ELSE Front(@)]
      [] key = "clear" -> [t EXCEPT !.text = <<>>, !.exact = TRUE]
      [] key = "edit"  -> [t EXCEPT !.exact = FALSE]
      [] OTHER         -> [t EXCEPT !.text = Append(@, key)]

\* Mutant of TrimTracked: the length is looked at and the text left alone.
TrimTrackedNot(t) == [t EXCEPT !.exact = @ /\ Len(t.text) <= MaxTracked]

\* Of a line that is too long the tail is kept, and it cannot be verified.
TrimTracked(t) ==
    [t EXCEPT !.exact = @ /\ Len(t.text) <= MaxTracked,
              !.text = IF Len(@) <= MaxTracked THEN @
                       ELSE SubSeq(@, Len(@) - MaxTracked + 1, Len(@))]

ObserveAll(t, keys) ==
    LET seen[i \in 0..Len(keys)] ==
          IF i = 0 THEN [text |-> t.text, exact |-> t.exact, done |-> <<>>]
          ELSE TrimTracked(ObserveKey(seen[i - 1], keys[i]))
    IN seen[Len(keys)]

\* Mutant of Observed: the mark is that of the last input.
ObservedUnmarked(t, keys, sensitive) ==
    LET seen == ObserveAll(t, keys)
    IN [text |-> seen.text, exact |-> seen.exact, sensitive |-> sensitive]

\* The mark of a sensitive session outlasts the input as long as there is a line.
Observed(t, keys, sensitive) ==
    LET seen == ObserveAll(t, keys)
    IN [text |-> seen.text, exact |-> seen.exact,
        sensitive |-> (t.sensitive \/ sensitive) /\ ~(seen.text = <<>> /\ seen.exact)]

IsRisky(text) == "risky" \in Range(text)
NeedsApproval(command) == ~command.exact \/ IsRisky(command.text)

-----------------------------------------------------------------------------
(* The shell. *)

PressKey(shell, key) ==
    CASE key = "enter" -> {[line |-> <<>>, ran |-> Append(shell.ran, shell.line)]}
      [] key = "back"  -> {[shell EXCEPT !.line = IF @ = <<>> THEN @ ELSE Front(@)]}
      [] key = "clear" -> {[shell EXCEPT !.line = <<>>]}
      [] key = "edit"  -> {[shell EXCEPT !.line = l] : l \in {shell.line, <<>>, <<"safe">>, <<"risky">>}}
      [] OTHER         -> {[shell EXCEPT !.line = Append(@, key)]}

Typed(keys) ==
    LET shells[i \in 0..Len(keys)] ==
          IF i = 0 THEN {[line |-> line, ran |-> <<>>]}
          ELSE UNION {PressKey(shell, keys[i]) : shell \in shells[i - 1]}
    IN shells[Len(keys)]

-----------------------------------------------------------------------------
(* An input, from the lock to the write. *)

Release == input' = NoInput
Restore == tracked' = input.saved
Reveal(what) == shown' = IF input.redact THEN shown ELSE shown \cup (what \cap Chars)

\* lock_session, checkpoint_and_observe, and the classification of what Enter submits
\* by the configuration of that moment (GuardConfig.enabled).
BeginInput(who, keys, sensitive, guarded) ==
    /\ input = NoInput
    /\ Len(line) + Len(keys) <= MaxLine
    /\ who = "person" => ~sensitive /\ ~guarded
    /\ "secret" \in Range(keys) => sensitive
    /\ LET commands == ObserveAll(tracked, keys).done
           asked == IF ~guarded THEN {}
                    ELSE {i \in DOMAIN commands : NeedsApproval(commands[i])}
       IN input' = [stage |-> IF who = "person" THEN "writing"
                              ELSE IF who = "agent" /\ asked # {} THEN "asking" ELSE "recording",
                    who |-> who, keys |-> keys, saved |-> tracked, commands |-> commands,
                    asked |-> asked, approved |-> {}, guarded |-> guarded,
                    redact |-> tracked.sensitive \/ sensitive]
    /\ tracked' = Observed(tracked, keys, sensitive)
    /\ UNCHANGED <<line, posted, shown, dropped, slipped>>

\* Mutant of AnswerApproval: a refusal leaves the tracker as it is.
AnswerWithoutRestore(granted) ==
    /\ input.stage = "asking"
    /\ \E i \in input.asked \ input.approved :
         /\ \A j \in input.asked \ input.approved : i <= j
         /\ Reveal(Range(input.commands[i].text))
         /\ IF granted
              THEN input' = [input EXCEPT !.approved = @ \cup {i},
                         !.stage = IF input.asked = input.approved \cup {i} THEN "recording" ELSE @]
              ELSE Release
    /\ UNCHANGED <<line, tracked, posted, dropped, slipped>>

\* The agent's commands are asked about one by one; a refusal takes the input back.
AnswerApproval(granted) ==
    /\ input.stage = "asking"
    /\ \E i \in input.asked \ input.approved :
         /\ \A j \in input.asked \ input.approved : i <= j
         /\ Reveal(Range(input.commands[i].text))
         /\ IF granted
              THEN /\ input' = [input EXCEPT !.approved = @ \cup {i},
                         !.stage = IF input.asked = input.approved \cup {i} THEN "recording" ELSE @]
                   /\ UNCHANGED tracked
              ELSE Release /\ Restore
    /\ UNCHANGED <<line, posted, dropped, slipped>>

\* A record of every command goes before it, for the command line also one of what stays
\* unsubmitted. The command line has nobody to ask: after the record it is refused.
Recorded == (UNION {Range(input.commands[i].text) : i \in DOMAIN input.commands})
              \cup IF input.who = "cli" /\ input.commands = <<>> THEN Range(input.keys) ELSE {}

RecordInput(saved) ==
    /\ input.stage = "recording"
    /\ Reveal(Recorded)
    /\ IF saved /\ (input.who = "cli" => input.asked = {})
         THEN input' = [input EXCEPT !.stage = "writing"] /\ UNCHANGED tracked
         ELSE Release /\ Restore
    /\ UNCHANGED <<line, posted, dropped, slipped>>

\* write_to_ssh. The agent's typing is announced before, what the person types is not.
WriteInput(sent) ==
    /\ input.stage = "writing"
    /\ IF input.who = "agent" THEN Reveal(Range(input.keys)) ELSE UNCHANGED shown
    /\ IF sent
         THEN /\ \E shell \in Typed(input.keys) :
                   /\ line' = shell.line
                   /\ slipped' = (slipped \/
                        /\ input.guarded
                        /\ \E ran \in Range(shell.ran) :
                             IsRisky(ran) /\ input.approved = {})
              /\ UNCHANGED tracked
         ELSE Restore /\ UNCHANGED <<line, slipped>>
    /\ Release
    /\ UNCHANGED <<posted, dropped>>

\* The connection of the agent goes while its call waits: the call is dropped where it is.
DropInput ==
    /\ input.stage \in {"asking", "writing"} /\ input.who = "agent"
    /\ Release /\ dropped' = TRUE
    /\ UNCHANGED <<line, tracked, posted, shown, slipped>>

\* 800 ms after the login, past the lock and the tracker: what the line held runs with it.
PostLogin ==
    /\ ~posted /\ posted' = TRUE
    /\ line' = <<>>
    /\ UNCHANGED <<tracked, input, shown, dropped, slipped>>

-----------------------------------------------------------------------------
Inputs == UNION {[1..n -> Keys] : n \in 1..MaxKeys}

\* One input at a time.
LineNext ==
    \/ /\ input = NoInput
       /\ \E who \in Writers, keys \in Inputs, sensitive, guarded \in BOOLEAN :
            BeginInput(who, keys, sensitive, guarded)
    \/ \E granted \in BOOLEAN : AnswerApproval(granted)
    \/ \E saved \in BOOLEAN : RecordInput(saved)
    \/ \E sent \in BOOLEAN : WriteInput(sent)
    \/ DropInput \/ PostLogin

LineSpec == LineInit /\ [][LineNext]_lineVars

-----------------------------------------------------------------------------
(* Properties. *)

\* "AI-submitted Enter is classified against the actual mixed line": while the guard
\* is on, a risky line that the shell runs on the Enter of an agent or of the command line was
\* approved, whoever had typed it and in however many inputs. A call that is dropped while it
\* waits leaves the tracker ahead of the line: that aside.
SubmittedAsClassified == ~dropped => ~slipped

\* What was typed as sensitive never shows in a record, a notice or a dialog, also when it
\* is submitted by a later input that is not marked.
SecretsStayHidden == "secret" \notin shown

\* The tracker knows the line it judges and shows, whoever types into it.
LineIsTracked == SubmittedAsClassified /\ SecretsStayHidden
=============================================================================
