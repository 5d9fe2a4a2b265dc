---------------------------- MODULE StageProofs ----------------------------
(***************************************************************************)
(* The stage and its controls, for any number of streams and any period.   *)
(***************************************************************************)
EXTENDS Stage, SequenceTheorems, TLAPS

(* A list of streams has no duplicates.                                    *)
List(list) == list \in Seq(SessionIds) /\ IsInjective(list)

View(view) ==
    /\ List(view.streams)
    /\ view.host \in Screens \cup {None} /\ view.selected \in Selections

(* Without a stream there is no <video>; one that has a stream was asked   *)
(* to play it, and after the effects it has the stream that was rendered.  *)
VideoInv ==
    /\ video \in [src : Sources, muted : BOOLEAN, plays : {"no", "asked", "yes"}]
    /\ Shown(seen) = None => video = Mounted
    /\ video.src # None => video.plays # "no"
    /\ ~due => video.src = Shown(seen)

(* A selection that was rendered dead has been replaced after the effects. *)
Replaced ==
    ~due /\ ~Live(seen, seen.selected) =>
        selected # seen.selected \/ (seen.selected = None /\ seen.streams = << >>)

(* Effects that are due saw the choice of the user, and saw it live.       *)
ChoiceInv ==
    wish # None =>
        /\ selected = wish /\ Live(now, wish)
        /\ due => seen.selected = wish /\ Live(seen, wish)

StageInv == View(now) /\ View(seen) /\ VideoInv /\ Replaced /\ ChoiceInv

(* The timeout and the time since the last move add up.                    *)
ControlsInv ==
    /\ timer \in 0..Period /\ idle = Period - timer
    /\ show \in BOOLEAN /\ (show <=> timer > 0)
-----------------------------------------------------------------------------
(* Lists of streams and what is shown of them *)

(* What can be chosen is a selection, and it shows a stream.               *)
LEMMA LiveSelections ==
    ASSUME NEW view, View(view), NEW choice, Live(view, choice)
    PROVE  choice \in Selections /\ choice # None
<1>1. \A i \in DOMAIN view.streams : view.streams[i] \in SessionIds
  BY DEF View, List
<1> QED BY <1>1, NoneAssumption DEF Live, Range, Selections

(* A selection shows a stream exactly when it is live.                     *)
LEMMA LiveIsShown ==
    ASSUME NEW view, View(view)
    PROVE  /\ Shown(view) \in Sources
           /\ Live(view, view.selected) <=> Shown(view) # None
<1>1. \A i \in DOMAIN view.streams : view.streams[i] \in SessionIds
  BY DEF View, List
<1> QED BY <1>1, NoneAssumption DEF View, Live, Range, Shown, Sources

(* A list that has streams has a first one.                                *)
LEMMA FirstIsLive ==
    ASSUME NEW view, View(view)
    PROVE  /\ First(view) \in Selections
           /\ view.streams # << >> => Live(view, First(view))
           /\ view.streams = << >> => First(view) = None
<1>1. CASE view.streams # << >>
  <2>1. 1 \in DOMAIN view.streams /\ Head(view.streams) = view.streams[1]
    BY <1>1 DEF View, List
  <2>2. Live(view, First(view))
    BY <1>1, <2>1 DEF First, Live, Range
  <2> QED BY <1>1, <2>2, LiveSelections
<1>2. CASE view.streams = << >>
  BY <1>2 DEF First, Selections
<1> QED BY <1>1, <1>2

(* A new stream goes to the end.                                           *)
LEMMA AppendKeeps ==
    ASSUME NEW list, List(list), NEW s \in SessionIds, s \notin Range(list)
    PROVE  List(Append(list, s)) /\ Range(list) \subseteq Range(Append(list, s))
<1>1. Append(list, s) \in Seq(SessionIds) /\ list \in Seq(SessionIds)
  BY DEF List
<1>2. \A i \in DOMAIN list : list[i] # s
  BY DEF Range
<1>3. IsInjective(Append(list, s))
  BY <1>1, <1>2 DEF List, IsInjective
<1>4. \A i \in DOMAIN list : i \in DOMAIN Append(list, s) /\ Append(list, s)[i] = list[i]
  BY <1>1
<1> QED BY <1>1, <1>3, <1>4 DEF List, Range

(* What a list becomes without one of its members.                         *)
LEMMA WithoutOne ==
    ASSUME NEW list \in Seq(SessionIds), NEW i \in 1..Len(list)
    PROVE  /\ RemoveAt(list, i) \in Seq(SessionIds)
           /\ Len(RemoveAt(list, i)) = Len(list) - 1
           /\ \A j \in 1..(Len(list) - 1) :
                 RemoveAt(list, i)[j] = IF j < i THEN list[j] ELSE list[j + 1]
<1> DEFINE front == SubSeq(list, 1, i - 1)
           back  == SubSeq(list, i + 1, Len(list))
<1>1. front \in Seq(SessionIds) /\ Len(front) = i - 1 /\ \A j \in 1..(i - 1) : front[j] = list[j]
  BY SubSeqProperties
<1>2. back \in Seq(SessionIds) /\ Len(back) = Len(list) - i
      /\ \A j \in 1..(Len(list) - i) : back[j] = list[i + j]
  BY SubSeqProperties
<1>3. RemoveAt(list, i) = front \o back
  BY DEF RemoveAt
<1> HIDE DEF front, back
<1>4. front \o back \in Seq(SessionIds) /\ Len(front \o back) = Len(list) - 1
  BY <1>1, <1>2
<1>5. ASSUME NEW j \in 1..(Len(list) - 1)
      PROVE  (front \o back)[j] = IF j < i THEN list[j] ELSE list[j + 1]
  BY <1>1, <1>2
<1> QED BY <1>3, <1>4, <1>5

(* The others close ranks when one ends.                                   *)
LEMMA RemoveKeeps ==
    ASSUME NEW list, List(list), NEW i \in DOMAIN list
    PROVE  List(RemoveAt(list, i)) /\ Range(list) \ {list[i]} \subseteq Range(RemoveAt(list, i))
<1> DEFINE n == Len(list)
           rest == RemoveAt(list, i)
<1>2. n \in Nat /\ i \in 1..n /\ list \in Seq(SessionIds)
  BY DEF List
<1>3. rest \in Seq(SessionIds) /\ Len(rest) = n - 1
  BY <1>2, WithoutOne
<1>4. \A j \in 1..(n - 1) : rest[j] = IF j < i THEN list[j] ELSE list[j + 1]
  BY <1>2, WithoutOne
<1> HIDE DEF rest
<1>5. IsInjective(rest)
  <2> SUFFICES ASSUME NEW a \in 1..(n - 1), NEW b \in 1..(n - 1), rest[a] = rest[b]
               PROVE  a = b
    BY <1>3 DEF IsInjective
  <2> DEFINE old(j) == IF j < i THEN j ELSE j + 1
  <2>1. old(a) \in 1..n /\ old(b) \in 1..n /\ (old(a) = old(b) => a = b)
    BY <1>2
  <2>2. list[old(a)] = list[old(b)]
    BY <1>4
  <2> QED BY <2>1, <2>2, <1>2 DEF List, IsInjective
<1>6. ASSUME NEW j \in 1..n, j # i PROVE list[j] \in Range(rest)
  <2> DEFINE k == IF j < i THEN j ELSE j - 1
  <2>1. k \in 1..(n - 1) /\ (IF k < i THEN k ELSE k + 1) = j
    BY <1>2, <1>6
  <2>2. rest[k] = list[j]
    BY <1>4, <2>1
  <2>3. k \in DOMAIN rest
    BY <1>2, <1>3, <2>1
  <2> QED BY <2>2, <2>3 DEF Range
<1>7. \A x \in Range(list) : \E j \in 1..n : x = list[j]
  BY <1>2 DEF Range
<1> QED BY <1>3, <1>5, <1>6, <1>7 DEF List, rest
-----------------------------------------------------------------------------
(* The steps *)

(* A step that changes only what is queued, and takes no choice of the     *)
(* user away, keeps the invariant.                                         *)
LEMMA QueueKeeps ==
    ASSUME StageInv, UNCHANGED <<selected, seen, due, video>>, View(now)',
           wish' \in {wish, None}, wish' # None => Live(now, wish)'
    PROVE  StageInv'
<1>1. View(seen)' /\ Replaced'
  BY DEF StageInv, View, Replaced, Live
<1>2. VideoInv'
  BY DEF StageInv, VideoInv, Shown, Live
<1>3. ChoiceInv'
  BY DEF StageInv, ChoiceInv, Live
<1> QED BY <1>1, <1>2, <1>3 DEF StageInv

(* Streams that start and end, and the page's own screen.                  *)
LEMMA StreamsKeep ==
    ASSUME StageInv,
           \/ \E s \in SessionIds : onTrack(s) \/ EndShare(s)
           \/ \E screen \in Screens : shareStarts(screen)
           \/ stopShare
    PROVE  StageInv'
<1>1. List(streams) /\ host \in Screens \cup {None} /\ selected \in Selections
  BY DEF StageInv, View, now
<1>2. wish # None => wish \in Range(streams) \/ (wish = HostStream /\ host # None)
  BY DEF StageInv, ChoiceInv, Live, now
<1>3. ASSUME NEW s \in SessionIds, onTrack(s) PROVE StageInv'
  <2>1. UNCHANGED <<host, selected, seen, due, video, wish>> /\ streams' = Append(streams, s)
        /\ s \notin Range(streams)
    BY <1>3 DEF onTrack
  <2>2. List(streams') /\ Range(streams) \subseteq Range(streams')
    BY <1>1, <2>1, AppendKeeps
  <2>3. View(now)' /\ (wish' # None => Live(now, wish)')
    BY <1>1, <1>2, <2>1, <2>2 DEF View, now, Live
  <2> QED BY <2>1, <2>3, QueueKeeps
<1>4. ASSUME NEW s \in SessionIds, EndShare(s) PROVE StageInv'
  <2>1. PICK i \in DOMAIN streams : streams[i] = s /\ streams' = RemoveAt(streams, i)
    BY <1>4 DEF EndShare
  <2>2. UNCHANGED <<host, selected, seen, due, video>> /\ wish' = IF wish = s THEN None ELSE wish
    BY <1>4 DEF EndShare
  <2>3. List(streams') /\ Range(streams) \ {s} \subseteq Range(streams')
    BY <1>1, <2>1, RemoveKeeps
  <2>4. View(now)' /\ (wish' # None => Live(now, wish)')
    BY <1>1, <1>2, <2>2, <2>3 DEF View, now, Live
  <2> QED BY <2>2, <2>4, QueueKeeps
<1>5. ASSUME NEW screen \in Screens, shareStarts(screen) PROVE StageInv'
  <2>1. UNCHANGED <<streams, selected, seen, due, video, wish>> /\ host' = screen /\ screen # None
    BY <1>5, NoneAssumption DEF shareStarts
  <2>2. View(now)' /\ (wish' # None => Live(now, wish)')
    BY <1>1, <1>2, <2>1 DEF View, now, Live
  <2> QED BY <2>1, <2>2, QueueKeeps
<1>6. CASE stopShare
  <2>1. UNCHANGED <<streams, selected, seen, due, video>> /\ host' = None
        /\ wish' = IF wish = HostStream THEN None ELSE wish
    BY <1>6 DEF stopShare
  <2>2. View(now)' /\ (wish' # None => Live(now, wish)')
    BY <1>1, <1>2, <2>1 DEF View, now, Live
  <2> QED BY <2>1, <2>2, QueueKeeps
<1> QED BY <1>3, <1>4, <1>5, <1>6

(* A rendering shows what was queued; what it leaves dead was dead before, *)
(* or its effects follow.                                                  *)
LEMMA RenderKeeps ==
    ASSUME StageInv, Render
    PROVE  StageInv'
<1>1. ~due /\ seen' = now /\ (~due' => seen' = seen)
      /\ video' = (IF Shown(seen') = None THEN Mounted ELSE video)
  BY DEF Render
<1>2. UNCHANGED <<streams, host, selected, wish>> /\ now' = now
  BY DEF Render, now
<1>3. View(now)' /\ View(seen)'
  BY <1>1, <1>2 DEF StageInv, View
<1>4. VideoInv'
  <2>1. VideoInv
    BY DEF StageInv
  <2>2. CASE Shown(seen') = None
    BY <1>1, <2>1, <2>2 DEF VideoInv, Mounted, Sources
  <2>3. CASE Shown(seen') # None
    BY <1>1, <2>1, <2>3 DEF VideoInv
  <2> QED BY <2>2, <2>3
<1>5. Replaced'
  <2> SUFFICES ASSUME ~due', ~Live(seen', seen'.selected)
               PROVE  seen'.selected = None /\ seen'.streams = << >>
    BY DEF Replaced
  <2>1. seen' = seen /\ seen = now /\ selected = seen.selected
    BY <1>1 DEF now
  <2> QED BY <1>1, <2>1 DEF StageInv, Replaced
<1>6. ChoiceInv'
  <2>1. now.selected = selected
    BY DEF now
  <2> QED BY <1>1, <1>2, <2>1 DEF StageInv, ChoiceInv
<1> QED BY <1>3, <1>4, <1>5, <1>6 DEF StageInv

(* The effects replace a selection that they saw dead, and leave one that  *)
(* they saw live.                                                          *)
LEMMA EffectsKeep ==
    ASSUME StageInv, Effects
    PROVE  StageInv'
<1>1. due /\ ~due' /\ UNCHANGED <<streams, host, seen, wish>> /\ PlayShown
      /\ selected' = IF Live(seen, seen.selected) THEN selected ELSE First(seen)
  BY DEF Effects
<1>2. View(seen) /\ View(now) /\ VideoInv
  BY DEF StageInv
<1>3. selected' \in Selections
  BY <1>1, <1>2, FirstIsLive DEF View, now
<1>4. View(now)' /\ View(seen)'
  BY <1>1, <1>2, <1>3 DEF View, now
<1>5. VideoInv'
  <2>1. Shown(seen) \in Sources /\ Shown(seen') = Shown(seen)
    BY <1>1, <1>2, LiveIsShown
  <2>2. CASE Shown(seen) \in {None, video.src}
    BY <1>1, <1>2, <2>1, <2>2 DEF PlayShown, VideoInv, Mounted
  <2>3. CASE Shown(seen) \notin {None, video.src}
    <3>1. video' = [video EXCEPT !.src = Shown(seen), !.plays = "asked"]
      BY <1>1, <2>3 DEF PlayShown
    <3> QED BY <1>1, <1>2, <2>1, <2>3, <3>1 DEF VideoInv
  <2> QED BY <2>2, <2>3
<1>6. Replaced'
  <2> SUFFICES ASSUME ~Live(seen, seen.selected)
               PROVE  First(seen) # seen.selected \/ (seen.selected = None /\ seen.streams = << >>)
    BY <1>1 DEF Replaced
  <2> QED BY <1>2, FirstIsLive
<1>7. ChoiceInv'
  <2> SUFFICES ASSUME wish # None PROVE selected' = wish /\ Live(now', wish)
    BY <1>1 DEF ChoiceInv
  <2>1. selected = wish /\ Live(now, wish) /\ Live(seen, seen.selected)
    BY <1>1 DEF StageInv, ChoiceInv
  <2> QED BY <1>1, <2>1 DEF Live, now
<1> QED BY <1>4, <1>5, <1>6, <1>7 DEF StageInv

(* The user chooses among the streams that were rendered.                  *)
LEMMA SelectKeeps ==
    ASSUME StageInv, NEW choice, Live(seen, choice), Select(choice)
    PROVE  StageInv'
<1>1. UNCHANGED <<streams, host, seen, due, video>> /\ selected' = choice
      /\ wish' = IF ~due /\ Live(now, choice) THEN choice ELSE None
  BY DEF Select
<1>2. View(now)' /\ View(seen)'
  BY <1>1, LiveSelections DEF StageInv, View, now
<1>3. VideoInv'
  BY <1>1 DEF StageInv, VideoInv
<1>4. Replaced'
  BY <1>1 DEF Replaced
<1>5. ChoiceInv'
  BY <1>1 DEF ChoiceInv, Live, now
<1> QED BY <1>2, <1>3, <1>4, <1>5 DEF StageInv

(* What the hotkeys choose was rendered.                                   *)
LEMMA ListedIsLive ==
    ASSUME StageInv, NEW i \in DOMAIN seen.streams
    PROVE  /\ Live(seen, seen.streams[i])
           /\ nextIndex(seen.streams, i) \in DOMAIN seen.streams
           /\ previousIndex(seen.streams, i) \in DOMAIN seen.streams
<1>1. seen.streams \in Seq(SessionIds)
  BY DEF StageInv, View, List
<1> QED BY <1>1 DEF Live, Range, nextIndex, previousIndex

(* The index of a stream is its place in the list.                         *)
LEMMA IndexIn ==
    ASSUME NEW list, List(list), NEW choice
    PROVE  /\ choice \in Range(list) => Index(list, choice) \in DOMAIN list
           /\ choice \notin Range(list) => Index(list, choice) = 0
BY DEF Index, Range, List

(* The hotkeys keep the invariant.                                         *)
LEMMA HotkeysKeep ==
    ASSUME StageInv, hotkey_h \/ hotkey_l
    PROVE  StageInv'
<1> DEFINE i == Index(seen.streams, seen.selected)
<1>1. List(seen.streams) /\ (i = 0 \/ i \in DOMAIN seen.streams)
  BY IndexIn DEF StageInv, View
<1>2. CASE hotkey_h
  <2>1. nextIndex(seen.streams, i) \in DOMAIN seen.streams
    <3>1. CASE i = 0
      <4>1. Len(seen.streams) \in Nat \ {0} /\ DOMAIN seen.streams = 1..Len(seen.streams)
        BY <1>1, <1>2 DEF hotkey_h, List
      <4> QED BY <3>1, <4>1 DEF nextIndex
    <3>2. CASE i \in DOMAIN seen.streams
      BY <3>2, ListedIsLive
    <3> QED BY <1>1, <3>1, <3>2
  <2> HIDE DEF i
  <2>2. Select(seen.streams[nextIndex(seen.streams, i)])
    BY <1>2 DEF hotkey_h, i
  <2> QED BY <2>1, <2>2, ListedIsLive, SelectKeeps
<1>3. CASE hotkey_l /\ i = 0
  BY <1>3 DEF hotkey_l, stage, StageInv, View, now, VideoInv, Replaced, ChoiceInv, Live, Shown
<1>4. CASE hotkey_l /\ i # 0
  <2>1. previousIndex(seen.streams, i) \in DOMAIN seen.streams
    BY <1>1, <1>4, ListedIsLive
  <2>2. Select(seen.streams[previousIndex(seen.streams, i)])
    BY <1>4 DEF hotkey_l
  <2> HIDE DEF i
  <2> QED BY <2>1, <2>2, ListedIsLive, SelectKeeps
<1> QED BY <1>2, <1>3, <1>4

(* The sound of the video is no business of the stage.                     *)
LEMMA SoundKeeps ==
    ASSUME StageInv, Play \/ \E muted \in BOOLEAN : SetMuted(muted)
    PROVE  StageInv'
<1>1. UNCHANGED <<streams, host, selected, seen, due, wish>>
  BY DEF Play, SetMuted
<1>2. VideoInv'
  <2>1. CASE Play
    <3>1. Shown(seen) # None
      BY <2>1 DEF Play, StageInv, VideoInv, Mounted
    <3>2. video' = [video EXCEPT !.plays = "yes", !.muted = video.muted \/ ~touched]
      BY <2>1 DEF Play
    <3> QED BY <1>1, <3>1, <3>2 DEF StageInv, VideoInv
  <2>2. ASSUME NEW muted \in BOOLEAN, SetMuted(muted) PROVE VideoInv'
    BY <1>1, <2>2 DEF SetMuted, StageInv, VideoInv
  <2> QED BY <2>1, <2>2
<1>3. View(now)' /\ View(seen)' /\ Replaced' /\ ChoiceInv'
  BY <1>1 DEF StageInv, View, now, Replaced, ChoiceInv, Live
<1> QED BY <1>2, <1>3 DEF StageInv

(* The invariant of the stage holds in the beginning.                      *)
LEMMA InitStage == Init => StageInv
<1> SUFFICES ASSUME Init PROVE StageInv
  OBVIOUS
<1>1. View(now) /\ seen = now
  BY DEF Init, View, List, now, IsInjective, Selections
<1>2. Shown(seen) = None
  BY <1>1, NoneAssumption DEF Init, Shown, Live, now, Range
<1> QED BY <1>1, <1>2 DEF Init, StageInv, VideoInv, Replaced, ChoiceInv, Mounted, Sources

(* Every step keeps the invariant of the stage.                            *)
LEMMA NextStage == StageInv /\ [Next]_vars => StageInv'
<1> SUFFICES ASSUME StageInv, [Next]_vars PROVE StageInv'
  OBVIOUS
<1>1. CASE (\E s \in SessionIds : onTrack(s) \/ EndShare(s)) \/ stopShare
           \/ (\E screen \in Screens : shareStarts(screen))
  BY <1>1, StreamsKeep
<1>2. CASE Render
  BY <1>2, RenderKeeps
<1>3. CASE Effects
  BY <1>3, EffectsKeep
<1>4. CASE Play
  BY <1>4, SoundKeeps
<1>5. CASE \E choice \in SessionIds \cup {HostStream} : Thumbnail(choice)
  BY <1>5, SelectKeeps DEF Thumbnail
<1>6. CASE hotkey_h \/ hotkey_l
  BY <1>6, HotkeysKeep
<1>7. CASE hotkey_m \/ AudioControl
  <2>1. video.muted \in BOOLEAN
    BY DEF StageInv, VideoInv
  <2>2. \E muted \in BOOLEAN : SetMuted(muted)
    BY <1>7, <2>1 DEF hotkey_m, AudioControl
  <2> QED BY <2>2, SoundKeeps
<1>8. CASE UNCHANGED stage
  BY <1>8 DEF stage, StageInv, View, now, VideoInv, Replaced, ChoiceInv, Live, Shown
<1>9. (\E over \in BOOLEAN : MouseMove(over)) \/ Tick \/ UNCHANGED vars => UNCHANGED stage
  BY DEF MouseMove, Tick, vars, stage
<1> QED BY <1>1, <1>2, <1>3, <1>4, <1>5, <1>6, <1>7, <1>8, <1>9 DEF Next

(* Every step keeps the invariant of the controls.                         *)
LEMMA NextControls == ControlsInv /\ [Next]_vars => ControlsInv'
<1> SUFFICES ASSUME ControlsInv, [Next]_vars PROVE ControlsInv'
  OBVIOUS
<1>1. CASE UNCHANGED controls
  BY <1>1 DEF controls, ControlsInv
<1>2. ASSUME NEW over \in BOOLEAN, MouseMove(over) PROVE ControlsInv'
  <2>1. timer' = Period /\ idle' = 0 /\ show' = TRUE
    BY <1>2 DEF MouseMove, ControlsInv
  <2>2. Period \in 0..Period /\ Period - 0 = Period /\ Period > 0
    BY PeriodAssumption
  <2> QED BY <2>1, <2>2 DEF ControlsInv
<1>3. CASE Tick
  <2>1. timer \in Nat /\ timer > 0 /\ timer' = timer - 1 /\ idle = Period - timer /\ timer <= Period
    BY <1>3, PeriodAssumption DEF Tick, ControlsInv
  <2>2. idle' = Period - timer' /\ timer' \in 0..Period
    BY <1>3, <2>1, PeriodAssumption DEF Tick
  <2>3. show' = (show /\ timer' > 0) /\ show
    BY <1>3, <2>1 DEF Tick, ControlsInv
  <2> QED BY <2>2, <2>3 DEF ControlsInv
<1>4. Tick \/ (\E over \in BOOLEAN : MouseMove(over)) \/ UNCHANGED controls
  <2>1. CASE Render \/ Effects \/ Play \/ stopShare
    BY <2>1 DEF Render, Effects, Play, stopShare
  <2>5. ASSUME NEW s \in SessionIds, onTrack(s) \/ EndShare(s) PROVE UNCHANGED controls
    BY <2>5 DEF onTrack, EndShare
  <2>6. ASSUME NEW screen \in Screens, shareStarts(screen) PROVE UNCHANGED controls
    BY <2>6 DEF shareStarts
  <2>2. CASE hotkey_h \/ hotkey_l \/ hotkey_m \/ AudioControl
    BY <2>2 DEF hotkey_h, hotkey_l, hotkey_m, AudioControl, SetMuted, Select
  <2>3. CASE \E choice \in SessionIds \cup {HostStream} : Thumbnail(choice)
    BY <2>3 DEF Thumbnail, Select
  <2>4. CASE UNCHANGED vars
    BY <2>4 DEF vars, controls
  <2> QED BY <2>1, <2>2, <2>3, <2>4, <2>5, <2>6 DEF Next
<1> QED BY <1>1, <1>2, <1>3, <1>4

(* Once React has settled, the stage shows a stream that is there whenever *)
(* there is one, however late effects ran and whatever they had seen, for  *)
(* any number of streams.                                                  *)
THEOREM StageAlwaysFilled == Spec => []StageIsFilled
<1>1. ASSUME StageInv, Settled
      PROVE  /\ selected # None => Live(now, selected)
             /\ streams # << >> => Shown(now) # None
             /\ video.src = Shown(now)
             /\ video.plays = "no" => Shown(now) = None
  <2>1. ~due /\ seen = now /\ now.selected = selected /\ now.streams = streams
    BY <1>1 DEF Settled, now
  <2>2. video.src = Shown(now) /\ (video.plays = "no" => Shown(now) = None)
    BY <1>1, <2>1 DEF StageInv, VideoInv
  <2>3. Live(now, selected) <=> Shown(now) # None
    BY <1>1, <2>1, LiveIsShown DEF StageInv
  <2>4. ~Live(now, selected) => selected = None /\ streams = << >>
    BY <1>1, <2>1 DEF StageInv, Replaced
  <2> QED BY <2>2, <2>3, <2>4
<1>2. StageInv => StageIsFilled
  BY <1>1 DEF StageIsFilled
<1> QED BY <1>2, InitStage, NextStage, PTL DEF Spec

(* No stream that starts or ends and no effect of an older rendering takes *)
(* off the stage what the user chose while no effect was due.              *)
THEOREM ChoicesStay == Spec => []ChoiceStays
<1>1. StageInv => ChoiceStays
  BY DEF StageInv, ChoiceInv, ChoiceStays
<1> QED BY <1>1, InitStage, NextStage, PTL DEF Spec

(* showControl holds exactly while the mouse moved in the last period, for *)
(* any period.                                                             *)
THEOREM ControlsFollow == Spec => []ControlsFollowTheMouse
<1>1. Init => ControlsInv
  BY PeriodAssumption DEF Init, ControlsInv
<1>2. ControlsInv => ControlsFollowTheMouse
  BY PeriodAssumption DEF ControlsInv, ControlsFollowTheMouse
<1> QED BY <1>1, <1>2, NextControls, PTL DEF Spec

(* The keys h and l undo each other, for any number of streams.            *)
THEOREM HotkeysLeadAround == Spec => []HotkeysCycle
<1>1. ASSUME StageInv PROVE HotkeysCycle
  <2> DEFINE list == seen.streams
  <2> SUFFICES ASSUME NEW i \in DOMAIN list
               PROVE  /\ Index(list, list[i]) = i
                      /\ previousIndex(list, nextIndex(list, i)) = i
                      /\ nextIndex(list, previousIndex(list, i)) = i
    BY DEF HotkeysCycle
  <2>0. list \in Seq(SessionIds) /\ IsInjective(list)
    BY <1>1 DEF StageInv, View, List
  <2> HIDE DEF list
  <2>1. Len(list) \in Nat /\ i \in 1..Len(list)
    BY <2>0
  <2>2. list[i] \in Range(list)
    BY DEF Range
  <2>3. \A j \in DOMAIN list : list[j] = list[i] => j = i
    BY <2>0 DEF IsInjective
  <2>4. Index(list, list[i]) = i
    BY <2>2, <2>3 DEF Index
  <2>5. previousIndex(list, nextIndex(list, i)) = i /\ nextIndex(list, previousIndex(list, i)) = i
    BY <2>1 DEF previousIndex, nextIndex
  <2> QED BY <2>4, <2>5
<1> QED BY <1>1, InitStage, NextStage, PTL DEF Spec
=============================================================================
