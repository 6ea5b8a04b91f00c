------------------------------ MODULE Controller ------------------------------
(* The event loop of src/main.c and its controller: hot-plug events, the     *)
(* buttons, sticks and triggers polled once a frame and reported to the      *)
(* guest when they differ from what was reported last, the activation pulse  *)
(* that presses A once after a controller is opened, and the end of the loop. *)
(*                                                                           *)
(* All of it runs on the main thread.  SDL looks at the devices inside       *)
(* SDL_PollEvent and SDL_GameControllerUpdate only, so devices change in     *)
(* front of those calls.  Buttons carry the name of the Android key they     *)
(* send; one stick stands for all.  Left out are touch events, which are      *)
(* passed on as they come, SDL_QUIT, which ends the loop as Guide does, and  *)
(* the pad mapping, which every frame sets to the same constant.             *)
EXTENDS Integers, Sequences, FiniteSets

CONSTANTS Buttons,        \* polled buttons, as Android keys
          KeyA,           \* AKEYCODE_BUTTON_A, the key of the activation pulse
          Right,          \* AKEYCODE_DPAD_RIGHT, a button and the hat's +1
          Guide,          \* the button that quits
          Triggers,       \* the triggers
          Raw,            \* raw stick positions
          Deadzone,       \* STICK_DEADZONE
          MaxDevices,     \* bound: devices that are ever plugged in
          Slots           \* bound: devices plugged in at once

ASSUME ControllerAssumption ==
  /\ {KeyA, Right} \subseteq Buttons /\ KeyA # Right /\ Guide \notin Buttons
  /\ Raw \subseteq Int /\ 0 \in Raw /\ Deadzone \in Nat
  /\ MaxDevices \in Nat /\ Slots \in Nat \ {0}

Devices == 1 .. MaxDevices
None == 0                 \* g_controller == NULL

VARIABLES
  attached, plugged,      \* devices SDL sees; number of those there ever were
  events,                 \* SDL's queue of device events
  pad,                    \* what the open controller reads
  g_controller,
  g_button_states,        \* the buttons last reported as down
  last_axes, last_triggers,            \* g_last_hat_x, g_last_lx ...; g_last_l2_down ...
  press, release,         \* g_pending_activation_press, g_pending_activation_release
  g_request_quit,
  pc,                     \* step of the loop
  keys, axes, triggers,   \* what the guest has been told: keys down, axes, triggers
  stranded,               \* history: keys that were down when their controller was
                          \* forgotten and that have not moved since
  refused                 \* history: devices that did not open when their event came

devices == <<attached, plugged, events, pad>>
remembered == <<g_controller, g_button_states, last_axes, last_triggers>>
pulse == <<press, release>>
told == <<keys, axes, triggers>>
vars == <<devices, remembered, pulse, g_request_quit, pc, told, stranded, refused>>

Pads == [buttons : SUBSET (Buttons \cup {Guide}), stick : Raw, triggers : SUBSET Triggers]
Neutral == [buttons |-> {}, stick |-> 0, triggers |-> {}]

\* The axes as poll_controller_axes reports them: the hat and the stick.
Live(raw) == IF raw > Deadzone \/ raw < -Deadzone THEN raw ELSE 0
Hat(buttons) == IF Right \in buttons THEN 1 ELSE 0
Reading(p) == <<Hat(p.buttons), Live(p.stick)>>

-----------------------------------------------------------------------------
(* open_controller                                                           *)

\* Mutation: the last device is not tried.
CandidatesButLast == {d \in attached : \E e \in attached : e > d}
Candidates == attached

\* A controller is opened, in whatever position it is: the buttons reported
\* last are forgotten, and the pulse is queued.
Open(d) ==
  /\ g_controller' = d
  /\ pad' \in Pads
  /\ g_button_states' = {}
  /\ stranded' = keys
  /\ press' = TRUE /\ release' = 0
  /\ UNCHANGED <<last_axes, last_triggers>>

\* No device is there, or SDL_GameControllerOpen fails for every one of them.
OpenNone ==
  /\ g_controller' = None
  /\ UNCHANGED <<pad, g_button_states, last_axes, last_triggers, pulse, stranded>>

\* The devices are tried in turn until one opens: it may be any of them.
OpenController == OpenNone \/ \E d \in Candidates : Open(d)

\* main starts with no controller or with one, whose event is in the queue.
Init ==
  /\ attached \in {{}, {1} \cap Devices}
  /\ plugged = Cardinality(attached)
  /\ events = IF attached = {} THEN << >> ELSE <<[type |-> "ADDED", which |-> 1]>>
  /\ pad = Neutral /\ g_controller = None /\ g_button_states = {}
  /\ last_axes = <<0, 0>> /\ last_triggers = {}
  /\ press = FALSE /\ release = 0
  /\ g_request_quit = FALSE
  /\ pc = "boot"
  /\ keys = {} /\ axes = <<0, 0>> /\ triggers = {} /\ stranded = {} /\ refused = {}

Boot ==
  /\ pc = "boot"
  /\ OpenController
  /\ pc' = "events"
  /\ UNCHANGED <<attached, plugged, events, g_request_quit, told, refused>>

-----------------------------------------------------------------------------
(* The player and the guest.                                                 *)

SdlLooks == pc \in {"events", "update"}

PlugIn ==
  /\ SdlLooks
  /\ plugged < MaxDevices /\ Cardinality(attached) < Slots
  /\ plugged' = plugged + 1
  /\ attached' = attached \cup {plugged'}
  /\ events' = Append(events, [type |-> "ADDED", which |-> plugged'])
  /\ UNCHANGED <<pad, remembered, pulse, g_request_quit, pc, told, stranded, refused>>

\* An open controller that goes reads neutral, or as it did last.
Unplug ==
  /\ SdlLooks
  /\ \E d \in attached :
       /\ attached' = attached \ {d}
       /\ events' = Append(events, [type |-> "REMOVED", which |-> d])
       /\ pad' \in (IF d = g_controller THEN {pad, Neutral} ELSE {pad})
  /\ UNCHANGED <<plugged, remembered, pulse, g_request_quit, pc, told, stranded, refused>>

Handle ==
  /\ pc = "update"
  /\ g_controller \in attached
  /\ pad' \in Pads \ {pad}
  /\ UNCHANGED <<attached, plugged, events, remembered, pulse, g_request_quit, pc, told, stranded, refused>>

-----------------------------------------------------------------------------
(* One frame.                                                                *)

Event(type) == pc = "events" /\ events # << >> /\ Head(events).type = type

ControllerAdded ==
  /\ Event("ADDED")
  /\ events' = Tail(events)
  /\ IF g_controller = None
     THEN /\ OpenController
          /\ refused' = refused \cup
               (IF g_controller' = None THEN Candidates \cap {Head(events).which} ELSE {})
     ELSE UNCHANGED <<pad, remembered, pulse, stranded, refused>>
  /\ UNCHANGED <<attached, plugged, g_request_quit, pc, told>>

\* Mutation: any removal closes the controller.
IsOurs(which) == g_controller # None
Ours(which) == g_controller = which

ControllerRemoved ==
  /\ Event("REMOVED")
  /\ events' = Tail(events)
  /\ IF Ours(Head(events).which)
     THEN g_controller' = None /\ pad' = Neutral
     ELSE UNCHANGED <<g_controller, pad>>
  /\ UNCHANGED <<attached, plugged, g_button_states, last_axes, last_triggers, pulse,
                 g_request_quit, pc, told, stranded, refused>>

EventsDone ==
  /\ pc = "events" /\ events = << >>
  /\ pc' = "update"
  /\ UNCHANGED <<devices, remembered, pulse, g_request_quit, told, stranded, refused>>

\* SDL_GameControllerUpdate
Update ==
  /\ pc = "update"
  /\ pc' = "buttons"
  /\ UNCHANGED <<devices, remembered, pulse, g_request_quit, told, stranded, refused>>

\* Mutation: only presses are remembered.
RememberPressed == g_button_states \cup pad.buttons
Remember == pad.buttons

Keyed(buttons) == buttons \cap Buttons

\* poll_controller_buttons: a button that moved is reported; Guide asks to quit.
PollButtons ==
  /\ pc = "buttons"
  /\ IF g_controller = None
     THEN UNCHANGED <<g_button_states, g_request_quit, keys, stranded>>
     ELSE LET down == pad.buttons \ g_button_states
              up == g_button_states \ pad.buttons
          IN /\ g_button_states' = Remember
             /\ g_request_quit' = (g_request_quit \/ Guide \in down)
             /\ keys' = (keys \cup Keyed(down)) \ up
             /\ stranded' = stranded \ (down \cup up)
  /\ pc' = "axes"
  /\ UNCHANGED <<devices, g_controller, last_axes, last_triggers, pulse, axes, triggers, refused>>

\* poll_controller_axes
PollAxes ==
  /\ pc = "axes"
  /\ IF g_controller = None
     THEN UNCHANGED <<last_axes, last_triggers, axes, triggers>>
     ELSE /\ IF Reading(pad) # last_axes
             THEN axes' = Reading(pad) /\ last_axes' = Reading(pad)
             ELSE UNCHANGED <<axes, last_axes>>
          /\ last_triggers' = pad.triggers
          /\ triggers' = (triggers \cup (pad.triggers \ last_triggers))
                            \ (last_triggers \ pad.triggers)
  /\ pc' = "pulse"
  /\ UNCHANGED <<devices, g_controller, g_button_states, pulse, g_request_quit, keys, stranded, refused>>

PulseLength == 3

\* Mutation: the count of frames runs past its end.
OverPast(left) == left < 0
Over(left) == left = 0

\* pump_gamepad_activation_pulse: A goes down, and up three frames later.
PumpPulse ==
  /\ pc = "pulse"
  /\ IF g_controller = None THEN UNCHANGED <<pulse, keys, stranded>>
     ELSE IF press
     THEN /\ press' = FALSE /\ release' = PulseLength
          /\ keys' = keys \cup {KeyA}
          /\ stranded' = stranded \ {KeyA}
     ELSE IF release > 0
     THEN /\ release' = release - 1
          /\ keys' = IF Over(release') THEN keys \ {KeyA} ELSE keys
          /\ UNCHANGED <<press, stranded>>
     ELSE UNCHANGED <<pulse, keys, stranded>>
  /\ pc' = "end"
  /\ UNCHANGED <<devices, remembered, g_request_quit, axes, triggers, refused>>

\* The end of a frame: once more round, or pause, stop, close and exit.
EndFrame ==
  /\ pc = "end"
  /\ pc' = IF g_request_quit THEN "exit" ELSE "events"
  /\ UNCHANGED <<devices, remembered, pulse, g_request_quit, told, stranded, refused>>

Loop ==
  \/ Boot \/ ControllerAdded \/ ControllerRemoved \/ EventsDone
  \/ Update \/ PollButtons \/ PollAxes \/ PumpPulse \/ EndFrame

Next == Loop \/ PlugIn \/ Unplug \/ Handle

\* The loop runs.  It drains the queue before it goes on; devices are plugged
\* in finitely often, so the queue runs empty.
Fairness == WF_vars(Loop)

Spec == Init /\ [][Next]_vars /\ Fairness

-----------------------------------------------------------------------------
(* Properties.                                                               *)

\* The type of the loop's state.
TypeOK ==
  /\ attached \subseteq Devices /\ plugged \in 0 .. MaxDevices
  /\ events \in Seq([type : {"ADDED", "REMOVED"}, which : Devices])
  /\ pad \in Pads /\ g_controller \in Devices \cup {None}
  /\ g_button_states \subseteq Buttons \cup {Guide}
  /\ last_axes \in {0, 1} \X Raw /\ last_triggers \subseteq Triggers
  /\ press \in BOOLEAN /\ release \in 0 .. PulseLength
  /\ g_request_quit \in BOOLEAN
  /\ pc \in {"boot", "events", "update", "buttons", "axes", "pulse", "end", "exit"}
  /\ keys \subseteq Buttons /\ axes \in {0, 1} \X Raw /\ triggers \subseteq Triggers
  /\ stranded \subseteq Buttons /\ refused \subseteq Devices

\* After the poll the guest's axes and triggers are those of the open
\* controller, also when it is another one than last time or was unplugged
\* with a trigger held: what was reported last outlives the controller.
AnaloguesAgree ==
  pc = "pulse" /\ g_controller # None =>
    axes = Reading(pad) /\ triggers = pad.triggers

\* After the poll the keys the guest holds down are the buttons held on the
\* open controller, but for keys that were down when their controller was
\* forgotten; and A is down without being held only during a pulse.
KeysAgree ==
  pc = "axes" /\ g_controller # None =>
    /\ \A k \in Buttons \ (stranded \cup {KeyA}) : k \in keys <=> k \in pad.buttons
    /\ KeyA \in keys \ (stranded \cup pad.buttons) => release > 0

\* Devices are numbered as they are plugged in, and a removal is queued for a
\* device that is gone.  main opens its first controller with none open.
QueueSound ==
  /\ attached \subseteq 1 .. plugged
  /\ \A i \in 1 .. Len(events) :
       /\ events[i].which \in 1 .. plugged
       /\ events[i].type = "REMOVED" => events[i].which \notin attached
  /\ pc = "boot" => g_controller = None

\* What the loop remembers to have reported is what the guest was told, also
\* while no controller is open; but for stranded keys, and A during a pulse.
ToldAsRemembered ==
  /\ last_axes = axes /\ last_triggers = triggers
  /\ \A k \in Buttons \ (stranded \cup {KeyA}) : k \in keys <=> k \in g_button_states
  /\ KeyA \in keys \ (stranded \cup g_button_states) => release > 0
  /\ pc = "axes" /\ g_controller # None => g_button_states = pad.buttons

\* The loop, at any time: the inductive invariant of the proofs.
ControllerInv == TypeOK /\ QueueSound /\ ToldAsRemembered /\ AnaloguesAgree /\ KeysAgree

\* The pulse always lets go of A, as long as its controller is there: A is
\* released, or the controller is closed or the program ends first.
PulseEnds ==
  g_controller # None /\ release > 0 ~> KeyA \notin keys \/ g_controller = None \/ pc = "exit"

\* A controller that is plugged in while none is open is taken into use,
\* however its event and earlier removals are queued, if it stays and does not
\* refuse when its event is handled.  A refusal in main's own call does not
\* count: the event of a device that was there from the start tries it again.
ControllerFound ==
  \A d \in Devices :
    g_controller = None /\ d \in attached /\ (\E i \in 1 .. Len(events) :
        events[i] = [type |-> "ADDED", which |-> d])
      ~> g_controller \in attached \/ d \notin attached \/ d \in refused \/ pc = "exit"

\* The loop never lets go of a controller that is still plugged in.
KeepsController ==
  [][(g_controller \in attached) => g_controller' = g_controller]_vars
=============================================================================
