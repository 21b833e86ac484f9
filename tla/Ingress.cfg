\* Two calls on two provider streams, ended, forgotten and opened again, seen by
\* the consumers of their audio; a third call asks for a place in vain. One
\* stream in depth: retransmissions, conflicts, gaps, a full queue.
CONSTANTS
    c1 = c1  c2 = c2  c3 = c3  s1 = s1  s2 = s2  s3 = s3  p1 = p1  p2 = p2
    pcm = pcm  ulaw = ulaw
    Calls = {c1, c2, c3}
    Streams = {s1, s2, s3}
    Payloads = {p1, p2}
    Duration <- MCDuration
    Formats = {pcm, ulaw}
    SequenceNumbers = {0, 1, 2, 3}
    MaxQueue = 2
    HistoryLimit = 2
    MaxActive = 2
    CompletedLimit = 1
    MaxRefused = 1
CONSTRAINTS MCThirdOnlyAsks MCOneInDepth
SPECIFICATION Spec
INVARIANTS TypeOK AudioTimeline DuplicateWindow ScopeIsolation
PROPERTIES RefusalIsHarmless DeliversEveryStream
CHECK_DEADLOCK FALSE
