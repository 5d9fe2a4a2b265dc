\* Three streams of other users and two of the page's own.
SPECIFICATION Spec
CONSTANTS
    SessionIds = {s1, s2, s3}
    Screens = {h1, h2}
    HostStream = HostStream
    None = None
    Period = 2
INVARIANTS
    StageIsFilled
    ControlsFollowTheMouse
    ChoiceStays
