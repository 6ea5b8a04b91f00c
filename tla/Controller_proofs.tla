-------------------------- MODULE Controller_proofs --------------------------
(* Proofs about Controller, for any buttons, triggers, stick positions and   *)
(* number of devices: the inductive invariant ControllerInv, and that the    *)
(* loop keeps a controller for as long as it is plugged in.                  *)
EXTENDS Controller, FiniteSetTheorems, TLAPS

-----------------------------------------------------------------------------
(* Readings and the queue.                                                   *)

\* What the axes are reported as is a position of the hat and of the stick.
LEMMA ReadingType ==
  ASSUME NEW p \in Pads
  PROVE  Reading(p) \in {0, 1} \X Raw
  <1>1. p.stick \in Raw
    BY DEF Pads
  <1>2. Live(p.stick) \in Raw
    BY <1>1, ControllerAssumption DEF Live
  <1>3. Hat(p.buttons) \in {0, 1}
    BY DEF Hat
  <1> QED BY <1>2, <1>3 DEF Reading

DeviceEvents == [type : {"ADDED", "REMOVED"}, which : Devices]

\* A device event is queued.
LEMMA Queued ==
  ASSUME TypeOK, NEW e \in DeviceEvents, events' = Append(events, e)
  PROVE  /\ events' \in Seq(DeviceEvents)
         /\ \A i \in 1 .. Len(events') :
              events'[i] = e \/ (i \in 1 .. Len(events) /\ events'[i] = events[i])
  <1>1. events \in Seq(DeviceEvents)
    BY DEF TypeOK, DeviceEvents
  <1> QED BY <1>1

\* The oldest device event is taken.
LEMMA Taken ==
  ASSUME TypeOK, events # << >>, events' = Tail(events)
  PROVE  /\ events' \in Seq(DeviceEvents) /\ Head(events) \in DeviceEvents
         /\ 1 \in 1 .. Len(events) /\ Head(events) = events[1]
         /\ \A i \in 1 .. Len(events') : i + 1 \in 1 .. Len(events) /\ events'[i] = events[i + 1]
  <1>1. events \in Seq(DeviceEvents)
    BY DEF TypeOK, DeviceEvents
  <1> QED BY <1>1

-----------------------------------------------------------------------------
(* Every action preserves the invariant.                                     *)

\* main starts with none or one controller, and has told the guest nothing.
LEMMA ControllerInitInv == Init => ControllerInv
  <1> SUFFICES ASSUME Init PROVE ControllerInv
    OBVIOUS
  <1>1. /\ attached \subseteq Devices /\ plugged \in 0 .. MaxDevices /\ attached \subseteq 1 .. plugged
        /\ events \in Seq(DeviceEvents)
        /\ \A i \in 1 .. Len(events) : events[i].type = "ADDED" /\ events[i].which \in 1 .. plugged
    <2>1. CASE attached = {}
      <3>1. plugged = 0 /\ events = << >>
        BY <2>1, FS_EmptySet DEF Init
      <3> QED BY <2>1, <3>1, ControllerAssumption
    <2>2. CASE attached = {1}
      <3>1. plugged = 1 /\ 1 \in Devices /\ 1 \in 0 .. MaxDevices
        <4>1. Cardinality({1}) = 1
          BY FS_Singleton
        <4>2. plugged = 1
          BY <2>2, <4>1 DEF Init
        <4>3. 1 \in Devices
          BY <2>2 DEF Init
        <4> QED BY <4>2, <4>3, ControllerAssumption DEF Devices
      <3>2. events = <<[type |-> "ADDED", which |-> 1]>>
        BY <2>2 DEF Init
      <3> QED BY <2>2, <3>1, <3>2 DEF DeviceEvents
    <2> QED BY <2>1, <2>2 DEF Init
  <1>2. Neutral \in Pads
    BY ControllerAssumption DEF Neutral, Pads
  <1>3. <<0, 0>> \in {0, 1} \X Raw
    BY ControllerAssumption
  <1>4. TypeOK
    <2>1. press \in BOOLEAN /\ g_request_quit \in BOOLEAN
      BY Zenon DEF Init
    <2> QED BY <1>1, <1>2, <1>3, <2>1 DEF Init, TypeOK, DeviceEvents, PulseLength
  <1>5. QueueSound
    BY <1>1 DEF Init, QueueSound
  <1> QED BY <1>4, <1>5 DEF Init, ControllerInv, ToldAsRemembered, AnaloguesAgree, KeysAgree

\* A controller is opened, or there is none to open: the keys that were down
\* are stranded with the buttons they came from.
LEMMA OpenControllerInv ==
  ASSUME ControllerInv, OpenController
  PROVE  /\ pad' \in Pads /\ g_controller' \in attached \cup {None}
         /\ g_button_states' \subseteq Buttons \cup {Guide}
         /\ UNCHANGED <<last_axes, last_triggers>>
         /\ press' \in BOOLEAN /\ release' \in 0 .. PulseLength
         /\ stranded' \subseteq Buttons
         /\ \A k \in Buttons \ (stranded' \cup {KeyA}) : k \in keys <=> k \in g_button_states'
         /\ KeyA \in keys \ (stranded' \cup g_button_states') => release' > 0
  <1>1. CASE OpenNone
    <2>1. /\ g_controller' = None
          /\ UNCHANGED <<pad, g_button_states, last_axes, last_triggers, press, release, stranded>>
      BY <1>1 DEF OpenNone, pulse
    <2> QED BY <2>1 DEF ControllerInv, TypeOK, ToldAsRemembered
  <1>2. ASSUME NEW d \in Candidates, Open(d)
        PROVE  /\ pad' \in Pads /\ g_controller' \in attached
               /\ g_button_states' = {} /\ stranded' = keys /\ press' = TRUE /\ release' = 0
               /\ UNCHANGED <<last_axes, last_triggers>>
    BY <1>2 DEF Open, Candidates
  <1>3. CASE \E d \in Candidates : Open(d)
    <2>1. /\ pad' \in Pads /\ g_controller' \in attached
          /\ g_button_states' = {} /\ stranded' = keys /\ press' = TRUE /\ release' = 0
          /\ UNCHANGED <<last_axes, last_triggers>>
      BY <1>2, <1>3
    <2>2. press' \in BOOLEAN
      BY <2>1, Zenon
    <2>3. keys \subseteq Buttons
      BY DEF ControllerInv, TypeOK
    <2> QED BY <2>1, <2>2, <2>3 DEF PulseLength
  <1> QED BY <1>1, <1>3 DEF OpenController

LEMMA BootInv ==
  ASSUME ControllerInv, Boot
  PROVE  ControllerInv'
  <1>1. /\ pc = "boot" /\ pc' = "events"
        /\ UNCHANGED <<attached, plugged, events, g_request_quit, keys, axes, triggers>>
    BY DEF Boot, told
  <1>2. TypeOK'
    BY <1>1, OpenControllerInv DEF Boot, ControllerInv, TypeOK
  <1>3. QueueSound'
    BY <1>1 DEF ControllerInv, QueueSound
  <1>4. ToldAsRemembered'
    BY <1>1, OpenControllerInv DEF Boot, ControllerInv, ToldAsRemembered
  <1> QED BY <1>1, <1>2, <1>3, <1>4 DEF ControllerInv, AnaloguesAgree, KeysAgree

\* A device is plugged in, with a number of its own.
LEMMA PlugInInv ==
  ASSUME ControllerInv, PlugIn
  PROVE  ControllerInv'
  <1> DEFINE e == [type |-> "ADDED", which |-> plugged']
  <1>1. /\ plugged \in Nat /\ plugged' = plugged + 1 /\ plugged' \in Devices /\ plugged' \in 0 .. MaxDevices
        /\ attached' = attached \cup {plugged'} /\ e \in DeviceEvents /\ events' = Append(events, e)
        /\ UNCHANGED <<pad, g_controller, g_button_states, last_axes, last_triggers, press, release,
                       g_request_quit, pc, keys, axes, triggers, stranded, refused>>
    BY ControllerAssumption
    DEF PlugIn, ControllerInv, TypeOK, Devices, DeviceEvents, remembered, pulse, told
  <1>2. TypeOK'
    BY <1>1, Queued DEF ControllerInv, TypeOK, DeviceEvents
  <1>3. QueueSound'
    <2>1. ASSUME NEW i \in 1 .. Len(events')
          PROVE  /\ events'[i].which \in 1 .. plugged'
                 /\ events'[i].type = "REMOVED" => events'[i].which \notin attached'
      <3>1. CASE events'[i] = e
        BY <1>1, <3>1
      <3>2. CASE i \in 1 .. Len(events) /\ events'[i] = events[i]
        BY <1>1, <3>2 DEF ControllerInv, QueueSound
      <3> QED BY <1>1, <2>1, <3>1, <3>2, Queued DEF ControllerInv
    <2> QED BY <1>1, <2>1 DEF ControllerInv, QueueSound
  <1> QED
    BY <1>1, <1>2, <1>3
    DEF ControllerInv, ToldAsRemembered, AnaloguesAgree, KeysAgree

\* A device goes; its removal is queued.
LEMMA UnplugInv ==
  ASSUME ControllerInv, Unplug
  PROVE  ControllerInv'
  <1>1. PICK d \in attached : /\ attached' = attached \ {d}
                              /\ events' = Append(events, [type |-> "REMOVED", which |-> d])
                              /\ pad' \in (IF d = g_controller THEN {pad, Neutral} ELSE {pad})
    BY DEF Unplug
  <1> DEFINE e == [type |-> "REMOVED", which |-> d]
  <1>2. /\ d \in Devices /\ e \in DeviceEvents /\ pc \in {"events", "update"} /\ pad' \in Pads
        /\ UNCHANGED <<plugged, g_controller, g_button_states, last_axes, last_triggers, press, release,
                       g_request_quit, pc, keys, axes, triggers, stranded, refused>>
    BY <1>1, ControllerAssumption
    DEF Unplug, SdlLooks, ControllerInv, TypeOK, DeviceEvents, remembered, pulse, told, Neutral, Pads
  <1>3. TypeOK'
    BY <1>1, <1>2, Queued DEF ControllerInv, TypeOK, DeviceEvents
  <1>4. QueueSound'
    <2>1. ASSUME NEW i \in 1 .. Len(events')
          PROVE  /\ events'[i].which \in 1 .. plugged'
                 /\ events'[i].type = "REMOVED" => events'[i].which \notin attached'
      <3>1. CASE events'[i] = e
        <4>1. e.which = d /\ d \in 1 .. plugged
          BY DEF ControllerInv, QueueSound
        <4> QED BY <1>1, <1>2, <3>1, <4>1
      <3>2. CASE i \in 1 .. Len(events) /\ events'[i] = events[i]
        BY <1>1, <1>2, <3>2 DEF ControllerInv, QueueSound
      <3> QED BY <1>1, <1>2, <2>1, <3>1, <3>2, Queued DEF ControllerInv
    <2> QED BY <1>1, <1>2, <2>1 DEF ControllerInv, QueueSound
  <1> QED
    BY <1>2, <1>3, <1>4
    DEF ControllerInv, ToldAsRemembered, AnaloguesAgree, KeysAgree

\* The player moves the open controller, between two polls.
LEMMA HandleInv ==
  ASSUME ControllerInv, Handle
  PROVE  ControllerInv'
  <1>1. /\ pc = "update" /\ pad' \in Pads
        /\ UNCHANGED <<attached, plugged, events, g_controller, g_button_states, last_axes, last_triggers,
                       press, release, g_request_quit, pc, keys, axes, triggers, stranded, refused>>
    BY DEF Handle, remembered, pulse, told
  <1>2. TypeOK'
    BY <1>1 DEF ControllerInv, TypeOK
  <1> QED
    BY <1>1, <1>2
    DEF ControllerInv, QueueSound, ToldAsRemembered, AnaloguesAgree, KeysAgree

\* The removal or addition at the head of the queue is dropped from it.
LEMMA TakenSound ==
  ASSUME ControllerInv, pc = "events", events # << >>, events' = Tail(events),
         UNCHANGED <<attached, plugged, pc>>
  PROVE  QueueSound' /\ events' \in Seq(DeviceEvents)
  <1>1. ASSUME NEW i \in 1 .. Len(events')
        PROVE  /\ events'[i].which \in 1 .. plugged'
               /\ events'[i].type = "REMOVED" => events'[i].which \notin attached'
    <2>1. i + 1 \in 1 .. Len(events) /\ events'[i] = events[i + 1]
      BY <1>1, Taken DEF ControllerInv
    <2> QED BY <2>1 DEF ControllerInv, QueueSound
  <1> QED BY <1>1, Taken DEF ControllerInv, QueueSound

LEMMA ControllerAddedInv ==
  ASSUME ControllerInv, ControllerAdded
  PROVE  ControllerInv'
  <1>1. /\ pc = "events" /\ events # << >> /\ events' = Tail(events)
        /\ UNCHANGED <<attached, plugged, g_request_quit, pc, keys, axes, triggers>>
    BY DEF ControllerAdded, Event, told
  <1>2. QueueSound' /\ events' \in Seq(DeviceEvents)
    BY <1>1, TakenSound
  <1>3. CASE g_controller = None
    <2>1. Head(events).which \in Devices
      BY <1>1, Taken DEF ControllerInv, DeviceEvents
    <2>2. refused' \subseteq Devices
      BY <1>3, <2>1 DEF ControllerAdded, ControllerInv, TypeOK
    <2>3. TypeOK'
      BY <1>1, <1>2, <1>3, <2>2, OpenControllerInv DEF ControllerAdded, ControllerInv, TypeOK, DeviceEvents
    <2>4. ToldAsRemembered'
      BY <1>1, <1>3, OpenControllerInv DEF ControllerAdded, ControllerInv, ToldAsRemembered
    <2> QED BY <1>1, <1>2, <2>3, <2>4 DEF ControllerInv, AnaloguesAgree, KeysAgree
  <1>4. CASE g_controller # None
    <2>1. UNCHANGED <<pad, g_controller, g_button_states, last_axes, last_triggers, press, release, stranded, refused>>
      BY <1>4 DEF ControllerAdded, remembered, pulse
    <2>2. TypeOK'
      BY <1>1, <1>2, <2>1 DEF ControllerInv, TypeOK, DeviceEvents
    <2> QED
      BY <1>1, <1>2, <2>1, <2>2 DEF ControllerInv, ToldAsRemembered, AnaloguesAgree, KeysAgree
  <1> QED BY <1>3, <1>4

LEMMA ControllerRemovedInv ==
  ASSUME ControllerInv, ControllerRemoved
  PROVE  ControllerInv'
  <1>1. /\ pc = "events" /\ events # << >> /\ events' = Tail(events)
        /\ g_controller' \in {g_controller, None} /\ pad' \in {pad, Neutral}
        /\ UNCHANGED <<attached, plugged, g_button_states, last_axes, last_triggers, press, release,
                       g_request_quit, pc, keys, axes, triggers, stranded, refused>>
    BY DEF ControllerRemoved, Event, pulse, told
  <1>2. QueueSound' /\ events' \in Seq(DeviceEvents)
    BY <1>1, TakenSound
  <1>3. Neutral \in Pads
    BY ControllerAssumption DEF Neutral, Pads
  <1>4. TypeOK'
    BY <1>1, <1>2, <1>3 DEF ControllerInv, TypeOK, DeviceEvents
  <1> QED
    BY <1>1, <1>2, <1>4 DEF ControllerInv, ToldAsRemembered, AnaloguesAgree, KeysAgree

\* A step that moves the loop on and changes nothing else.
LEMMA MovesOnInv ==
  ASSUME ControllerInv, pc # "boot", pc \notin {"buttons", "axes"},
         pc' \in {"events", "update", "buttons", "exit"},
         UNCHANGED <<devices, remembered, pulse, g_request_quit, told, stranded, refused>>
  PROVE  ControllerInv'
  <1>1. UNCHANGED <<attached, plugged, events, pad, g_controller, g_button_states, last_axes,
                    last_triggers, press, release, g_request_quit, keys, axes, triggers, stranded, refused>>
    BY DEF devices, remembered, pulse, told
  <1>2. TypeOK'
    BY <1>1 DEF ControllerInv, TypeOK
  <1> QED
    BY <1>1, <1>2
    DEF ControllerInv, QueueSound, ToldAsRemembered, AnaloguesAgree, KeysAgree

\* The buttons that moved are reported and remembered.
LEMMA PollButtonsInv ==
  ASSUME ControllerInv, PollButtons
  PROVE  ControllerInv'
  <1>1. /\ pc = "buttons" /\ pc' = "axes"
        /\ UNCHANGED <<attached, plugged, events, pad, g_controller, last_axes, last_triggers, press,
                       release, axes, triggers, refused>>
    BY DEF PollButtons, devices, pulse
  <1>2. QueueSound'
    BY <1>1 DEF ControllerInv, QueueSound
  <1>3. CASE g_controller = None
    <2>1. UNCHANGED <<g_button_states, g_request_quit, keys, stranded>>
      BY <1>3 DEF PollButtons
    <2>2. TypeOK'
      BY <1>1, <2>1 DEF ControllerInv, TypeOK
    <2> QED
      BY <1>1, <1>2, <1>3, <2>1, <2>2
      DEF ControllerInv, ToldAsRemembered, AnaloguesAgree, KeysAgree
  <1>4. CASE g_controller # None
    <2> DEFINE down == pad.buttons \ g_button_states
               up == g_button_states \ pad.buttons
    <2>1. /\ g_button_states' = pad.buttons
          /\ g_request_quit' = (g_request_quit \/ Guide \in down)
          /\ keys' = (keys \cup (down \cap Buttons)) \ up
          /\ stranded' = stranded \ (down \cup up)
      BY <1>4 DEF PollButtons, Remember, Keyed
    <2>2. pad.buttons \subseteq Buttons \cup {Guide}
      BY DEF ControllerInv, TypeOK, Pads
    <2>3. TypeOK'
      BY <1>1, <2>1, <2>2 DEF ControllerInv, TypeOK
    <2>4. ASSUME NEW k \in Buttons \ (stranded' \cup {KeyA}) PROVE k \in keys' <=> k \in pad.buttons
      BY <2>1, <2>4 DEF ControllerInv, ToldAsRemembered
    <2>5. KeyA \in keys' \ (stranded' \cup pad.buttons) => release > 0
      BY <2>1, ControllerAssumption DEF ControllerInv, ToldAsRemembered
    <2>6. ToldAsRemembered'
      BY <1>1, <2>1, <2>4, <2>5 DEF ControllerInv, ToldAsRemembered
    <2>7. KeysAgree'
      BY <1>1, <2>4, <2>5 DEF KeysAgree
    <2> QED BY <1>1, <1>2, <2>3, <2>6, <2>7 DEF ControllerInv, AnaloguesAgree
  <1> QED BY <1>3, <1>4

\* The axes and triggers that moved are reported and remembered.
LEMMA PollAxesInv ==
  ASSUME ControllerInv, PollAxes
  PROVE  ControllerInv'
  <1>1. /\ pc = "axes" /\ pc' = "pulse"
        /\ UNCHANGED <<attached, plugged, events, pad, g_controller, g_button_states, press, release,
                       g_request_quit, keys, stranded, refused>>
    BY DEF PollAxes, devices, pulse
  <1>2. QueueSound'
    BY <1>1 DEF ControllerInv, QueueSound
  <1>3. CASE g_controller = None
    <2>1. UNCHANGED <<last_axes, last_triggers, axes, triggers>>
      BY <1>3 DEF PollAxes
    <2>2. TypeOK'
      BY <1>1, <2>1 DEF ControllerInv, TypeOK
    <2> QED
      BY <1>1, <1>2, <1>3, <2>1, <2>2
      DEF ControllerInv, ToldAsRemembered, AnaloguesAgree, KeysAgree
  <1>4. CASE g_controller # None
    <2>1. axes' = Reading(pad) /\ last_axes' = Reading(pad)
      BY <1>4 DEF PollAxes, ControllerInv, ToldAsRemembered
    <2>2. /\ last_triggers' = pad.triggers
          /\ triggers' = (triggers \cup (pad.triggers \ last_triggers)) \ (last_triggers \ pad.triggers)
      BY <1>4 DEF PollAxes
    <2>3. triggers' = pad.triggers
      BY <2>2 DEF ControllerInv, ToldAsRemembered
    <2>4. Reading(pad) \in {0, 1} \X Raw /\ pad.triggers \subseteq Triggers
      BY ReadingType DEF ControllerInv, TypeOK, Pads
    <2>5. TypeOK'
      BY <1>1, <2>1, <2>2, <2>3, <2>4 DEF ControllerInv, TypeOK
    <2>6. ToldAsRemembered'
      BY <1>1, <2>1, <2>2, <2>3 DEF ControllerInv, ToldAsRemembered
    <2>7. AnaloguesAgree'
      BY <1>1, <2>1, <2>3 DEF AnaloguesAgree, Reading
    <2> QED BY <1>1, <1>2, <2>5, <2>6, <2>7 DEF ControllerInv, KeysAgree
  <1> QED BY <1>3, <1>4

\* The pulse presses A, counts, and lets go of it.
LEMMA PumpPulseInv ==
  ASSUME ControllerInv, PumpPulse
  PROVE  ControllerInv'
  <1>1. /\ pc = "pulse" /\ pc' = "end"
        /\ UNCHANGED <<attached, plugged, events, pad, g_controller, g_button_states, last_axes,
                       last_triggers, g_request_quit, axes, triggers, refused>>
    BY DEF PumpPulse, devices, remembered
  <1>2. /\ press' \in BOOLEAN /\ release' \in 0 .. PulseLength
        /\ keys' \subseteq Buttons /\ stranded' \subseteq Buttons
        /\ \A k \in Buttons \ {KeyA} : /\ k \in keys' <=> k \in keys
                                       /\ k \in stranded' <=> k \in stranded
        /\ KeyA \in keys' \ (stranded' \cup g_button_states) => release' > 0
    <2>1. release \in 0 .. 3 /\ KeyA \in Buttons
      BY ControllerAssumption DEF ControllerInv, TypeOK, PulseLength
    <2>2. CASE g_controller = None \/ (~press /\ ~(release > 0))
      BY <2>2 DEF PumpPulse, pulse, ControllerInv, TypeOK, ToldAsRemembered
    <2>3. CASE g_controller # None /\ press
      <3>1. /\ press' = FALSE /\ release' = 3
            /\ keys' = keys \cup {KeyA} /\ stranded' = stranded \ {KeyA}
        BY <2>3 DEF PumpPulse, PulseLength
      <3>2. press' \in BOOLEAN
        BY <3>1, Zenon
      <3>4. release' \in 0 .. PulseLength
        BY <3>1 DEF PulseLength
      <3>3. keys \subseteq Buttons /\ stranded \subseteq Buttons
        BY DEF ControllerInv, TypeOK
      <3> QED BY <2>1, <3>1, <3>2, <3>3, <3>4
    <2>4. CASE g_controller # None /\ ~press /\ release > 0
      BY <2>1, <2>4 DEF PumpPulse, Over, PulseLength, ControllerInv, TypeOK, ToldAsRemembered
    <2> QED BY <2>2, <2>3, <2>4
  <1>3. TypeOK'
    BY <1>1, <1>2 DEF ControllerInv, TypeOK
  <1>4. QueueSound'
    BY <1>1 DEF ControllerInv, QueueSound
  <1>5. ToldAsRemembered'
    BY <1>1, <1>2 DEF ControllerInv, ToldAsRemembered
  <1> QED BY <1>1, <1>3, <1>4, <1>5 DEF ControllerInv, AnaloguesAgree, KeysAgree

LEMMA ControllerNextInv ==
  ASSUME ControllerInv, [Next]_vars
  PROVE  ControllerInv'
  <1>1. CASE EventsDone \/ Update \/ EndFrame
    BY <1>1, MovesOnInv DEF EventsDone, Update, EndFrame
  <1>2. CASE UNCHANGED vars
    <2>1. UNCHANGED <<attached, plugged, events, pad, g_controller, g_button_states, last_axes,
                      last_triggers, press, release, g_request_quit, pc, keys, axes, triggers, stranded, refused>>
      BY <1>2 DEF vars, devices, remembered, pulse, told
    <2>2. TypeOK'
      BY <2>1 DEF ControllerInv, TypeOK
    <2> QED
      BY <2>1, <2>2 DEF ControllerInv, QueueSound, ToldAsRemembered, AnaloguesAgree, KeysAgree
  <1> QED
    BY <1>1, <1>2, BootInv, PlugInInv, UnplugInv, HandleInv, ControllerAddedInv, ControllerRemovedInv,
       PollButtonsInv, PollAxesInv, PumpPulseInv
    DEF Next, Loop

-----------------------------------------------------------------------------
(* What the invariant shows.                                                 *)

\* What the loop remembers, what it has told the guest and what the open
\* controller reads agree at any time, however devices come and go.
THEOREM ControllerCorrect == Spec => []ControllerInv
  BY ControllerInitInv, ControllerNextInv, PTL DEF Spec

\* After each poll the keys that are down for the guest are the buttons that are
\* held, but for stranded ones and the pulse.
THEOREM GuestKeysAgree == Spec => []KeysAgree
  <1>1. ControllerInv => KeysAgree
    BY DEF ControllerInv
  <1> QED BY <1>1, ControllerCorrect, PTL

\* A controller that is plugged in is let go by no step: a removal in the queue
\* never names a device that is still there, and none is opened beside it.
THEOREM ControllerIsKept == Spec => KeepsController
  <1>1. ASSUME ControllerInv, [Next]_vars, g_controller \in attached
        PROVE  g_controller' = g_controller
    <2>1. g_controller # None /\ pc # "boot"
      BY <1>1 DEF ControllerInv, TypeOK, QueueSound, Devices, None
    <2>2. CASE ControllerRemoved
      <3>1. events # << >> /\ Head(events).type = "REMOVED" /\ events' = Tail(events)
        BY <2>2 DEF ControllerRemoved, Event
      <3>2. 1 \in 1 .. Len(events) /\ Head(events) = events[1]
        BY <1>1, <3>1, Taken DEF ControllerInv
      <3>3. Head(events).which \notin attached
        BY <1>1, <3>1, <3>2 DEF ControllerInv, QueueSound
      <3> QED BY <1>1, <2>2, <3>3 DEF ControllerRemoved, Ours
    <2>3. CASE ControllerAdded
      BY <2>1, <2>3 DEF ControllerAdded, remembered
    <2> QED
      BY <1>1, <2>1, <2>2, <2>3
      DEF Next, Loop, Boot, EventsDone, Update, PollButtons, PollAxes, PumpPulse, EndFrame, PlugIn,
          Unplug, Handle, vars, remembered
  <1>2. ControllerInv /\ [Next]_vars =>
          [(g_controller \in attached) => g_controller' = g_controller]_vars
    BY <1>1
  <1> QED BY <1>2, ControllerCorrect, PTL DEF Spec, KeepsController
=============================================================================
