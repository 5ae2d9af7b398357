--------------------------- MODULE DebugControls ---------------------------
(***************************************************************************)
(* The controller a TCP client drives while the game runs: the override    *)
(* and its history (src/main/debug_server.cpp) and the game's poll of the  *)
(* controller (src/main/main.cpp).                                         *)
(*                                                                         *)
(* Three threads meet here with no lock between them but the history's:    *)
(* the server thread runs one command at a time, as single atomic stores   *)
(* in program order; the game thread polls, as single atomic loads; and a  *)
(* post-mortem may dump the history at any moment, so the history is       *)
(* judged in every state, also half-way through a command.  Recording an   *)
(* event happens under s_input_history_mu, which every reader takes too:   *)
(* it is one step.                                                         *)
(***************************************************************************)
EXTENDS Integers, Sequences, SequencesExt

CONSTANTS Buttons,              \* the button names button_bit knows
          StickPositions,       \* a subset of -128..127 with 0 in it
          INPUT_HISTORY_CAP,    \* slots of s_input_history
          Devices,              \* what the pad and the keyboard may read
          MaxCommands           \* bound: input commands the client sends

ASSUME ControlsAssumption ==
    /\ StickPositions \subseteq Int /\ 0 \in StickPositions
    /\ INPUT_HISTORY_CAP \in Nat \ {0}
    /\ \A d \in Devices : d.buttons \subseteq Buttons /\ {d.x, d.y} \subseteq Int
    /\ MaxCommands \in Nat

VARIABLES
    override,       \* g_input_override_active, g_buttons_override, g_stick_x/y_override
    todo,           \* the stores the command in progress still has to make
    command,        \* the command in progress; <<>> between commands
    s_input_history,        \* the ring
    s_input_history_seq,    \* events recorded so far
    sent,           \* history: the commands recorded so far, oldest first
    poll,           \* get_n64_input's program counter and locals
    inEffect,       \* history: the overrides in effect at some moment of this poll
    delivered       \* the input the game was given last, and its override part

vars == <<override, todo, command, s_input_history, s_input_history_seq, sent, poll,
          inEffect, delivered>>

Fresh   == [active |-> FALSE, buttons |-> {}, x |-> 0, y |-> 0]
Neutral == [buttons |-> {}, x |-> 0, y |-> 0]

(* A poll that has read nothing of the override yet. *)
PollAt(pc) == [pc |-> pc, buttons |-> {}, x |-> 0, y |-> 0]

(* What the override asks for: nothing while it is not armed. *)
Effective(o) == IF o.active THEN [buttons |-> o.buttons, x |-> o.x, y |-> o.y]
                ELSE Neutral

Commands ==
         [kind : {"button"}, name : Buttons, down : BOOLEAN]
    \cup [kind : {"stick"}, x : StickPositions, y : StickPositions]
    \cup [kind : {"clear", "claim"}]

(* Variants with a bug, here and below, each before the definition it is a *)
(* variant of: the runs must notice them.  Nothing else uses them.         *)
ClearForgetsStickY(c, o) ==
    CASE c.kind = "button" ->
            << <<"active", TRUE>>,
               <<"buttons", IF c.down THEN o.buttons \cup {c.name}
                            ELSE o.buttons \ {c.name}>> >>
      [] c.kind = "stick" -> << <<"active", TRUE>>, <<"x", c.x>>, <<"y", c.y>> >>
      [] c.kind = "clear" -> << <<"active", FALSE>>, <<"buttons", {}>>, <<"x", 0>> >>
      [] c.kind = "claim" -> << <<"active", TRUE>> >>

(* The stores each command makes, in order.  A set_button of a name that   *)
(* button_bit does not know is refused before any store and is left out.   *)
(* The load in set_button's read-modify-write races with nobody: only this *)
(* thread stores.                                                          *)
StoresOf(c, o) ==
    CASE c.kind = "button" ->
            << <<"active", TRUE>>,
               <<"buttons", IF c.down THEN o.buttons \cup {c.name}
                            ELSE o.buttons \ {c.name}>> >>
      [] c.kind = "stick" -> << <<"active", TRUE>>, <<"x", c.x>>, <<"y", c.y>> >>
      [] c.kind = "clear" ->
            << <<"active", FALSE>>, <<"buttons", {}>>, <<"x", 0>>, <<"y", 0>> >>
      [] c.kind = "claim" -> << <<"active", TRUE>> >>

Init ==
    /\ override = Fresh
    /\ todo = <<>>
    /\ command = <<>>
    /\ s_input_history = [i \in 0 .. INPUT_HISTORY_CAP - 1 |-> <<>>]
    /\ s_input_history_seq = 0
    /\ sent = <<>>
    /\ poll = PollAt("idle")
    /\ inEffect = {}
    /\ delivered = [input |-> Neutral, overridden |-> Neutral]
-----------------------------------------------------------------------------
(* handle_command, in the server thread.                                   *)

Receive ==
    /\ command = <<>>
    /\ s_input_history_seq < MaxCommands
    /\ \E c \in Commands :
          /\ command' = <<c>>
          /\ todo' = StoresOf(c, override)
    /\ UNCHANGED <<override, s_input_history, s_input_history_seq, sent, poll,
                   inEffect, delivered>>

Store ==
    /\ todo # <<>>
    /\ override' = [override EXCEPT ![Head(todo)[1]] = Head(todo)[2]]
    /\ todo' = Tail(todo)
    /\ inEffect' = IF poll.pc = "idle" THEN inEffect ELSE inEffect \cup {Effective(override')}
    /\ UNCHANGED <<command, s_input_history, s_input_history_seq, sent, poll,
                   delivered>>

RecordReleaseAsPress ==
    /\ command # <<>>
    /\ todo = <<>>
    /\ LET e == IF command[1].kind = "button" THEN [command[1] EXCEPT !.down = TRUE]
                ELSE command[1] IN
          /\ s_input_history' =
                [s_input_history EXCEPT ![s_input_history_seq % INPUT_HISTORY_CAP] = e]
          /\ sent' = Append(sent, e)
    /\ s_input_history_seq' = s_input_history_seq + 1
    /\ command' = <<>>
    /\ UNCHANGED <<override, todo, poll, inEffect, delivered>>

RecordInNextSlot ==
    /\ command # <<>>
    /\ todo = <<>>
    /\ s_input_history' =
          [s_input_history EXCEPT ![(s_input_history_seq + 1) % INPUT_HISTORY_CAP] = command[1]]
    /\ s_input_history_seq' = s_input_history_seq + 1
    /\ sent' = Append(sent, command[1])
    /\ command' = <<>>
    /\ UNCHANGED <<override, todo, poll, inEffect, delivered>>

(* record_input_event, and the reply. *)
Record ==
    /\ command # <<>>
    /\ todo = <<>>
    /\ s_input_history' =
          [s_input_history EXCEPT ![s_input_history_seq % INPUT_HISTORY_CAP] = command[1]]
    /\ s_input_history_seq' = s_input_history_seq + 1
    /\ sent' = Append(sent, command[1])
    /\ command' = <<>>
    /\ UNCHANGED <<override, todo, poll, inEffect, delivered>>
-----------------------------------------------------------------------------
(* get_n64_input, in the game thread.                                      *)

PollIgnoresActive ==
    /\ poll.pc = "idle"
    /\ poll' = PollAt("buttons")
    /\ inEffect' = {Effective(override)}
    /\ UNCHANGED <<override, todo, command, s_input_history, s_input_history_seq, sent,
                   delivered>>

PollActive ==
    /\ poll.pc = "idle"
    /\ poll' = PollAt(IF override.active THEN "buttons" ELSE "deliver")
    /\ inEffect' = {Effective(override)}
    /\ UNCHANGED <<override, todo, command, s_input_history, s_input_history_seq, sent,
                   delivered>>

PollField(field, next) ==
    /\ poll.pc = field
    /\ poll' = [poll EXCEPT !.pc = next, ![field] = override[field]]
    /\ UNCHANGED <<override, todo, command, s_input_history, s_input_history_seq, sent,
                   inEffect, delivered>>

PollOverride ==
    \/ PollField("buttons", "x")
    \/ PollField("x", "y")
    \/ PollField("y", "deliver")

MergeDevicesWin(d, o) ==
    [buttons |-> d.buttons \cup o.buttons,
     x |-> IF d.x # 0 THEN d.x ELSE o.x,
     y |-> IF d.y # 0 THEN d.y ELSE o.y]

(* What get_n64_input returns when the devices read d: buttons are OR'd, a *)
(* stick axis of the override wins unless it is 0.                         *)
Merge(d, o) ==
    [buttons |-> d.buttons \cup o.buttons,
     x |-> IF o.x # 0 THEN o.x ELSE d.x,
     y |-> IF o.y # 0 THEN o.y ELSE d.y]

(* The pad and the keyboard are merged in and the game has its input.      *)
PollDeliver ==
    /\ poll.pc = "deliver"
    /\ LET o == [buttons |-> poll.buttons, x |-> poll.x, y |-> poll.y] IN
          \E d \in Devices : delivered' = [input |-> Merge(d, o), overridden |-> o]
    /\ poll' = [poll EXCEPT !.pc = "idle"]
    /\ inEffect' = {}
    /\ UNCHANGED <<override, todo, command, s_input_history, s_input_history_seq, sent>>

-----------------------------------------------------------------------------
Server == Receive \/ Store \/ Record
Game == PollActive \/ PollOverride \/ PollDeliver

Next == Server \/ Game

Spec == Init /\ [][Next]_vars
-----------------------------------------------------------------------------
(* What a dump of the history contains, oldest event first.                *)

DumpFromSlotZero ==
    LET count == IF s_input_history_seq < INPUT_HISTORY_CAP THEN s_input_history_seq
                 ELSE INPUT_HISTORY_CAP
    IN  [i \in 1 .. count |-> s_input_history[i - 1]]

(* psr_dump_input_history_json and the input_history command. *)
Dump ==
    LET count == IF s_input_history_seq < INPUT_HISTORY_CAP THEN s_input_history_seq
                 ELSE INPUT_HISTORY_CAP
        start == s_input_history_seq - count
    IN  [i \in 1 .. count |-> s_input_history[(start + i - 1) % INPUT_HISTORY_CAP]]

(* What a command makes of an override. *)
Run(o, c) == FoldLeft(LAMBDA p, w : [p EXCEPT ![w[1]] = w[2]], o, StoresOf(c, o))

(* The override a client arrives at that sends these commands to a fresh   *)
(* runner, one after the other.                                            *)
Replay(events) == FoldLeft(Run, Fresh, events)
-----------------------------------------------------------------------------
Overrides == [active : BOOLEAN, buttons : SUBSET Buttons,
              x : StickPositions, y : StickPositions]
Inputs == [buttons : SUBSET Buttons, x : StickPositions, y : StickPositions]

TypeOK ==
    /\ override \in Overrides
    /\ command \in {<<>>} \cup {<<c>> : c \in Commands}
    /\ command = <<>> => todo = <<>>
    /\ s_input_history_seq = Len(sent) /\ s_input_history_seq \in 0 .. MaxCommands
    /\ \A i \in 0 .. INPUT_HISTORY_CAP - 1 :
          IF i < s_input_history_seq THEN s_input_history[i] \in Commands
          ELSE s_input_history[i] = <<>>
    /\ poll \in [pc : {"idle", "buttons", "x", "y", "deliver"}, buttons : SUBSET Buttons,
                 x : StickPositions, y : StickPositions]
    /\ inEffect \subseteq Inputs
    /\ delivered.overridden \in Inputs

(* Between commands a disarmed override has nothing in it, so arming it    *)
(* again (claim_input, or the first store of any command) can never bring  *)
(* back a button or a stick position from before a clear_input.            *)
DisarmedIsNeutral ==
    command = <<>> /\ ~override.active =>
        override.buttons = {} /\ override.x = 0 /\ override.y = 0

(* Each part of the input a poll is about to deliver is one that was in    *)
(* effect at some moment of that poll, although the poll reads the four    *)
(* atomics one after the other while the server thread stores to them.     *)
(* (The parts together need not be: a stick may be half-way through a      *)
(* set_stick.)                                                             *)
PollIsCurrent ==
    poll.pc = "deliver" =>
        /\ \E e \in inEffect : e.buttons = poll.buttons
        /\ \E e \in inEffect : e.x = poll.x
        /\ \E e \in inEffect : e.y = poll.y

(* What the override holds throughout a poll reaches the game, whatever    *)
(* the devices read: every button held in it, and each stick axis it keeps *)
(* away from the centre, at a position it had during the poll.             *)
HeldReachesGame ==
    [][poll.pc = "deliver" /\ poll'.pc = "idle" =>
        /\ \A b \in Buttons :
              (\A e \in inEffect : b \in e.buttons) => b \in delivered'.input.buttons
        /\ (\A e \in inEffect : e.x # 0) =>
              \E e \in inEffect : delivered'.input.x = e.x
        /\ (\A e \in inEffect : e.y # 0) =>
              \E e \in inEffect : delivered'.input.y = e.y]_vars

(* A dump lists the latest events in the order they happened, however      *)
(* often the ring has wrapped.                                             *)
DumpIsLatest == Dump = SubSeq(sent, Len(sent) - Len(Dump) + 1, Len(sent))

(* Re-driving a dump taken between commands reproduces the override, when  *)
(* the ring has not wrapped or still holds a clear_input.                  *)
DumpReplays ==
    /\ command = <<>>
    /\ \/ s_input_history_seq <= INPUT_HISTORY_CAP
       \/ \E i \in DOMAIN Dump : Dump[i].kind = "clear"
    => Replay(Dump) = override

(* debug_server.cpp:88-92, the history records every input-altering        *)
(* command "so we can re-drive the same sequence": a dump taken now        *)
(* explains the override the game was given last.                          *)
DumpExplainsInput ==
    s_input_history_seq <= INPUT_HISTORY_CAP =>
        \E n \in 0 .. Len(Dump) :
            delivered.overridden.buttons = Replay(SubSeq(Dump, 1, n)).buttons

=============================================================================
