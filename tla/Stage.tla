------------------------------- MODULE Stage -------------------------------
(***************************************************************************)
(* The stage of a room (ui/src/Room.tsx): which stream the big video       *)
(* shows, how the hotkeys walk through the streams, and when the controls  *)
(* disappear.  The streams come and go as useRoom (module Signalling) says.*)
(*                                                                         *)
(* A change of state is queued until React renders.  The handlers and the  *)
(* effects of a rendering know the values it was made from ("seen"), not   *)
(* the ones queued since; its effects run later, at the latest before the  *)
(* next rendering.                                                         *)
(***************************************************************************)
EXTENDS Integers, Sequences, SequencesExt

CONSTANTS SessionIds,
          Screens,      \* the MediaStreams of the page's own shares
          HostStream,   \* the page's own screen, as a selection
          None,
          Period        \* clock ticks until the controls hide

ASSUME NoneAssumption ==
    /\ None # HostStream /\ {None, HostStream} \cap (SessionIds \cup Screens) = {}
    /\ SessionIds \cap Screens = {}
ASSUME PeriodAssumption == Period \in Nat \ {0}

VARIABLES streams,      \* state.clientStreams, oldest first
          host,         \* state.hostStream
          selected,     \* selectedStream
          seen,         \* these three in the last rendering
          due,          \* its effects have yet to run
          video,        \* the big <video>; "plays" is about its last play()
          touched,      \* the user pressed something: sound may play
          wish,         \* what the user chose last, while it is there (observed)
          show,         \* showControl
          timer,        \* ticks left on the timeout of useShowOnMouseMovement
          idle,         \* ticks since the mouse moved (only observed)
          pinned        \* hoverControl, or the settings are open

stage    == <<streams, host, selected, seen, due, video, wish>>
controls == <<show, timer, idle, pinned>>
vars     == <<streams, host, selected, seen, due, video, touched, wish, show, timer, idle, pinned>>

Selections == SessionIds \cup {HostStream, None}
Sources    == SessionIds \cup Screens \cup {None}
Lists      == {list \in Seq(SessionIds) : IsInjective(list)}
Views      == [streams : Lists, host : Screens \cup {None}, selected : Selections]

now     == [streams |-> streams, host |-> host, selected |-> selected]
Mounted == [src |-> None, muted |-> FALSE, plays |-> "no"]

TypeOK ==
    /\ now \in Views /\ seen \in Views /\ due \in BOOLEAN
    /\ video \in [src : Sources, muted : BOOLEAN, plays : {"no", "asked", "yes"}]
    /\ touched \in BOOLEAN /\ wish \in Selections /\ show \in BOOLEAN /\ pinned \in BOOLEAN
    /\ timer \in 0..Period /\ idle \in 0..Period

Init ==
    /\ streams = << >> /\ host = None /\ selected = None /\ seen = now /\ due = TRUE
    /\ video = Mounted /\ touched \in BOOLEAN /\ wish = None
    /\ show = TRUE /\ timer = Period /\ idle = 0 /\ pinned = FALSE
-----------------------------------------------------------------------------
(* What is on the stage *)

(* A choice that is there to be shown.                                     *)
Live(view, choice) ==
    choice \in Range(view.streams) \/ (choice = HostStream /\ view.host # None)

(* The stream of the choice: "stream" in Room.tsx.                         *)
Shown(view) ==
    CASE ~Live(view, view.selected)   -> None
      [] view.selected = HostStream   -> view.host
      [] OTHER                        -> view.selected

First(view) == IF view.streams = << >> THEN None ELSE Head(view.streams)

(* Faulty: the effect does not depend on state.hostStream.                 *)
RenderWithoutHost ==
    /\ ~due
    /\ seen' = now
    /\ due' = (seen'.streams # seen.streams \/ seen'.selected # seen.selected)
    /\ video' = IF Shown(seen') = None THEN Mounted ELSE video
    /\ UNCHANGED <<streams, host, selected, touched, wish, controls>>

(* Everything queued is rendered.  The effects follow if a value they      *)
(* depend on is another one; a list of streams is, even of the same ones.  *)
(* Without a stream there is no <video>; a new one has its sound on, and   *)
(* the rendering that its ref asks for at once is part of this one.        *)
Render ==
    /\ ~due
    /\ seen' = now
    /\ due' \in {seen' # seen, TRUE}
    /\ video' = IF Shown(seen') = None THEN Mounted ELSE video
    /\ UNCHANGED <<streams, host, selected, touched, wish, controls>>

(* setSelectedStream by the user                                           *)
Select(choice) ==
    /\ selected' = choice
    /\ touched' = TRUE
    /\ wish' = IF ~due /\ Live(now, choice) THEN choice ELSE None
    /\ UNCHANGED <<streams, host, seen, due, video, controls>>

(* The second effect: the video gets the stream that was rendered.         *)
PlayShown ==
    video' = IF Shown(seen) \in {None, video.src} THEN video
             ELSE [video EXCEPT !.src = Shown(seen), !.plays = "asked"]

(* Faulty: the page's own screen is not looked at.                         *)
EffectsWithoutHost ==
    /\ due
    /\ due' = FALSE
    /\ selected' = IF seen.selected \in Range(seen.streams) THEN selected ELSE First(seen)
    /\ PlayShown
    /\ UNCHANGED <<streams, host, seen, touched, wish, controls>>

(* The first effect selects by what was rendered, over what was queued.    *)
Effects ==
    /\ due
    /\ due' = FALSE
    /\ selected' = IF Live(seen, seen.selected) THEN selected ELSE First(seen)
    /\ PlayShown
    /\ UNCHANGED <<streams, host, seen, touched, wish, controls>>

(* play() settles.  A browser refuses sound before the user touched the    *)
(* page (NotAllowedError); the page then mutes the video and tries again.  *)
Play ==
    /\ video.plays = "asked"
    /\ video' = [video EXCEPT !.plays = "yes", !.muted = @ \/ ~touched]
    /\ UNCHANGED <<streams, host, selected, seen, due, touched, wish, controls>>
-----------------------------------------------------------------------------
(* Streams come and go: onTrack, endshare and a peer that is done, share   *)
(* and stopShare of useRoom.  A stream is a new one each time.             *)

onTrack(s) ==
    /\ s \notin Range(streams) \cup Range(seen.streams) \cup {selected, seen.selected, video.src}
    /\ streams' = Append(streams, s)
    /\ UNCHANGED <<host, selected, seen, due, video, touched, wish, controls>>

EndShare(s) ==
    /\ \E i \in DOMAIN streams : streams[i] = s /\ streams' = RemoveAt(streams, i)
    /\ wish' = IF wish = s THEN None ELSE wish
    /\ UNCHANGED <<host, selected, seen, due, video, touched, controls>>

shareStarts(screen) ==
    /\ host = None /\ screen \notin {seen.host, video.src}
    /\ host' = screen
    /\ UNCHANGED <<streams, selected, seen, due, video, touched, wish, controls>>

(* By the hotkey s and the button, or in the browser's own controls.       *)
stopShare ==
    /\ host # None
    /\ host' = None
    /\ touched' \in {touched, TRUE}
    /\ wish' = IF wish = HostStream THEN None ELSE wish
    /\ UNCHANGED <<streams, selected, seen, due, video, controls>>
-----------------------------------------------------------------------------
(* What the user does to the stage *)

(* A click on a small video: those of all streams but the one selected.    *)
Thumbnail(choice) ==
    /\ Live(seen, choice) /\ choice # seen.selected
    /\ Select(choice)

(* findIndex, counted from one: zero when the selection is no stream of    *)
(* another user.                                                           *)
Index(list, choice) ==
    IF choice \in Range(list) THEN CHOOSE i \in DOMAIN list : list[i] = choice ELSE 0

nextIndex(list, i)     == IF i = Len(list) THEN 1 ELSE i + 1

previousIndex(list, i) == IF i = 1 THEN Len(list) ELSE i - 1

hotkey_h ==
    /\ seen.streams # << >>
    /\ Select(seen.streams[nextIndex(seen.streams, Index(seen.streams, seen.selected))])

(* With no stream of another user selected the index is -2 in the code,    *)
(* and the handler throws before it selects.                               *)
hotkey_l ==
    /\ seen.streams # << >>
    /\ LET i == Index(seen.streams, seen.selected) IN
       IF i = 0 THEN touched' = TRUE /\ UNCHANGED <<stage, controls>>
       ELSE Select(seen.streams[previousIndex(seen.streams, i)])

controlVisible == show \/ pinned

SetMuted(muted) ==
    /\ Shown(seen) # None
    /\ video' = [video EXCEPT !.muted = muted]
    /\ touched' = TRUE
    /\ UNCHANGED <<streams, host, selected, seen, due, wish, controls>>

hotkey_m == SetMuted(~video.muted)

(* The button toggles, and the slider turns the sound on.                  *)
AudioControl ==
    /\ controlVisible
    /\ SetMuted(~video.muted) \/ SetMuted(FALSE)
-----------------------------------------------------------------------------
(* The controls *)

(* The mouse moves, perhaps onto the controls.  Faulty: the timeout that   *)
(* runs is left alone.                                                     *)
MouseMoveOnce(over) ==
    /\ over => controlVisible
    /\ IF timer = 0 THEN show' = TRUE /\ timer' = Period ELSE UNCHANGED <<show, timer>>
    /\ idle' = 0 /\ pinned' = over
    /\ UNCHANGED <<stage, touched>>

(* The mouse moves, perhaps onto the controls (or into the settings that   *)
(* a click on them opens), and the timeout starts again.                   *)
MouseMove(over) ==
    /\ over => controlVisible
    /\ show' = IF timer = 0 THEN TRUE ELSE show
    /\ timer' = Period
    /\ idle' = 0 /\ pinned' = over
    /\ UNCHANGED <<stage, touched>>

(* Time passes; the timeout fires when its period is over.                 *)
Tick ==
    /\ timer > 0
    /\ timer' = timer - 1
    /\ show' = (show /\ timer' > 0)
    /\ idle' = IF idle < Period THEN idle + 1 ELSE idle
    /\ UNCHANGED <<stage, touched, pinned>>
-----------------------------------------------------------------------------
Next ==
    \/ Render \/ Effects \/ Play
    \/ \E s \in SessionIds : onTrack(s) \/ EndShare(s)
    \/ \E screen \in Screens : shareStarts(screen)
    \/ stopShare
    \/ \E choice \in SessionIds \cup {HostStream} : Thumbnail(choice)
    \/ hotkey_h \/ hotkey_l
    \/ hotkey_m \/ AudioControl
    \/ \E over \in BOOLEAN : MouseMove(over)
    \/ Tick

Spec == Init /\ [][Next]_vars
-----------------------------------------------------------------------------
(* Nothing is queued, and no effect is due.                                *)
Settled == ~due /\ seen = now

(* Once React has settled, the stage shows a stream whenever another user  *)
(* presents, never one that ended, and the video has that stream and no    *)
(* other, not an earlier share of the page's own either; once play() has   *)
(* settled, it runs.  Effects that chose by an old rendering are made good.*)
StageIsFilled ==
    Settled =>
        /\ selected # None => Live(now, selected)
        /\ streams # << >> => Shown(now) # None
        /\ video.src = Shown(now)
        /\ video.plays = "no" => Shown(now) = None

(* What the user chose stays on the stage while it is there: no stream     *)
(* that starts or ends and no effect of an older rendering takes it off.   *)
(* A choice made while effects were due is not covered: they choose by     *)
(* what they saw, and come after it.                                       *)
ChoiceStays == wish # None => selected = wish /\ Live(now, wish)

(* The keys h and l lead through the streams and back: from any stream of  *)
(* another user, the last one too, l undoes h and h undoes l.              *)
HotkeysCycle ==
    \A i \in DOMAIN seen.streams :
        /\ Index(seen.streams, seen.streams[i]) = i
        /\ previousIndex(seen.streams, nextIndex(seen.streams, i)) = i
        /\ nextIndex(seen.streams, previousIndex(seen.streams, i)) = i

(* showControl is up for a full period after the mouse last moved, and     *)
(* gone after it, however often it moved before.  (The controls also stay  *)
(* while the mouse is over them or the settings are open: "pinned".)       *)
ControlsFollowTheMouse == show <=> idle < Period
=============================================================================
