-------------------------- MODULE WsKeepaliveProofs --------------------------
(***************************************************************************)
(* What WsKeepalive says of the timers holds for every choice of the       *)
(* intervals and timeouts, of how long a poll, a write or a handler takes, *)
(* and of what the server does.                                            *)
(***************************************************************************)
EXTENDS WsKeepalive, TLAPS

USE DEF Nothing, States, Labels, Frames

\* The constants a step's arithmetic needs.
LEMMA Constants ==
    /\ DefaultPing \in Nat \ {0} /\ DefaultPong \in Nat \ {0} /\ DefaultWait \in Nat \ {0}
    /\ Poll \in Nat /\ Busy \in Nat /\ Answer \in Nat /\ MaxPing \in Nat
    /\ DefaultPing <= MaxPing
    /\ \A i \in Intervals : i \in Nat /\ i <= MaxPing
    /\ \A u \in UserConfigs :
          /\ u.ping \in Nat /\ u.pong \in Nat /\ u.wait \in Nat /\ u.disable \in BOOLEAN
          /\ u.ping <= MaxPing
BY TimersAssumption

\* What is set is never 0 where the default is not.
LEMMA OrType ==
    ASSUME NEW v \in Nat, NEW d \in Nat \ {0}, NEW m \in Nat, v <= m, d <= m
    PROVE  Or(v, d) \in 1 .. m
BY DEF Or

\* Nor is it without a largest value.
LEMMA OrPositive ==
    ASSUME NEW v \in Nat, NEW d \in Nat \ {0}
    PROVE  Or(v, d) \in Nat \ {0}
BY DEF Or

\* The client is made with Timed.
LEMMA InitTimed == Init => Timed
<1> SUFFICES ASSUME Init PROVE Timed
    OBVIOUS
<1>1. PICK u \in UserConfigs :
          /\ ping_interval = Or(u.ping, DefaultPing)
          /\ pong_timeout = IF u.disable THEN 0 ELSE Or(u.pong, DefaultPong)
          /\ wait_timeout = Or(u.wait, DefaultWait)
    BY DEF Init
<1>2. /\ ping_interval \in 1 .. MaxPing
      /\ pong_timeout \in Nat
      /\ wait_timeout \in Nat \ {0}
    BY <1>1, Constants, OrType, OrPositive
<1>3. inbox \in Seq(Frames)
    BY DEF Init
<1>4. TypeOK
    <2>1. now \in Nat /\ due \in Nat /\ now <= due
        BY Constants DEF Init
    <2>2. /\ {ping_tick, pingpong_tick, reconnect_tick} \subseteq 0 .. now
          /\ heard \in 0 .. now
        BY DEF Init
    <2> QED
        BY <1>2, <1>3, <2>1, <2>2 DEF Init, TypeOK
<1>5. Places /\ Apart
    BY DEF Init, Places, Apart
<1>6. Waits
    BY <1>2, Constants DEF Init, Waits
<1>7. Silence
    BY DEF Init, Silence
<1> QED
    BY <1>4, <1>5, <1>6, <1>7 DEF Timed

\* Every step keeps Timed, each of its parts by itself once the types and places
\* are known.
LEMMA NextTimed == Timed /\ [Next]_vars => Timed'
<1> SUFFICES ASSUME Timed, [Next]_vars PROVE Timed'
    OBVIOUS
<1> USE Constants DEF Timed, vars, config, ticks, client, task, server, history
<1>1. CASE BeginConnect
    <2>1. TypeOK'
        BY <1>1 DEF BeginConnect, Goto, Turn, TypeOK, Places
    <2>2. Places'
        BY <1>1 DEF BeginConnect, Goto, Turn, TypeOK, Places
    <2>3. Apart'
        BY <1>1 DEF BeginConnect, Goto, Turn, TypeOK, Places, Apart
    <2>4. Waits'
        BY <1>1 DEF BeginConnect, Goto, Turn, TypeOK, Places, Waits, Longest
    <2>5. Silence'
        BY <1>1 DEF BeginConnect, Goto, Turn, TypeOK, Places, Silence, Pause
    <2> QED
        BY <2>1, <2>2, <2>3, <2>4, <2>5
<1>2. CASE Connected
    <2>1. TypeOK'
        <3>1. /\ now' \in Nat
              /\ due' \in Nat /\ now' <= due'
              /\ sending' \in Nat \cup {Nothing} /\ (sending' = Nothing \/ now' <= sending')
              /\ owed' \in Nat \cup {Nothing} /\ (owed' = Nothing \/ now' <= owed')
            BY <1>2 DEF Connected, Goto, TypeOK, Places
        <3>2. /\ ping_interval' \in 1 .. MaxPing
              /\ pong_timeout' \in Nat /\ wait_timeout' \in Nat \ {0}
              /\ ping_tick' \in 0 .. now'
              /\ heard' \in 0 .. now'
              /\ lastTry' \in 0 .. now' \cup {Nothing}
            BY <1>2 DEF Connected, Goto, TypeOK, Places
        <3>3. pingpong_tick' \in 0 .. now' /\ reconnect_tick' \in 0 .. now'
            BY <1>2 DEF Connected, Goto, TypeOK, Places
        <3>4. /\ pc' \in Labels /\ state' \in States
              /\ close_sent' \in BOOLEAN /\ wait_for_pong_resp' \in BOOLEAN
              /\ read_select' \in BOOLEAN /\ alive' \in BOOLEAN
            BY <1>2 DEF Connected, Goto, TypeOK
        <3>5. inbox' \in Seq(Frames)
            BY <1>2 DEF Connected, Goto, TypeOK
        <3> QED
            BY <3>1, <3>2, <3>3, <3>4, <3>5 DEF TypeOK
    <2>2. Places'
        BY <1>2 DEF Connected, Goto, TypeOK, Places
    <2>3. Apart'
        BY <1>2 DEF Connected, Goto, TypeOK, Places, Apart
    <2>4. Waits'
        BY <1>2 DEF Connected, Goto, TypeOK, Places, Waits, Longest
    <2>5. Silence'
        BY <1>2 DEF Connected, Goto, TypeOK, Places, Silence, Pause
    <2> QED
        BY <2>1, <2>2, <2>3, <2>4, <2>5
<1>3. CASE ConnectFailed
    <2>1. TypeOK'
        BY <1>3 DEF ConnectFailed, Goto, Abort, TypeOK, Places
    <2>2. Places'
        BY <1>3 DEF ConnectFailed, Goto, Abort, TypeOK, Places
    <2>3. Apart'
        BY <1>3 DEF ConnectFailed, Goto, Abort, TypeOK, Places, Apart
    <2>4. Waits'
        BY <1>3 DEF ConnectFailed, Goto, Abort, TypeOK, Places, Waits, Longest
    <2>5. Silence'
        BY <1>3 DEF ConnectFailed, Goto, Abort, TypeOK, Places, Silence, Pause
    <2> QED
        BY <2>1, <2>2, <2>3, <2>4, <2>5
<1>4. CASE SendPing
    <2>1. TypeOK'
        BY <1>4 DEF SendPing, Goto, Turn, TypeOK, Places
    <2>2. Places'
        BY <1>4 DEF SendPing, Goto, Turn, TypeOK, Places
    <2>3. Apart'
        BY <1>4 DEF SendPing, Goto, Turn, TypeOK, Places, Apart
    <2>4. Waits'
        BY <1>4 DEF SendPing, Goto, Turn, TypeOK, Places, Waits, Longest
    <2>5. Silence'
        BY <1>4 DEF SendPing, Goto, Turn, TypeOK, Places, Silence, Pause
    <2> QED
        BY <2>1, <2>2, <2>3, <2>4, <2>5
<1>5. CASE PingSent
    <2>1. TypeOK'
        <3>1. /\ now' \in Nat
              /\ due' \in Nat /\ now' <= due'
              /\ sending' \in Nat \cup {Nothing} /\ (sending' = Nothing \/ now' <= sending')
              /\ owed' \in Nat \cup {Nothing} /\ (owed' = Nothing \/ now' <= owed')
            BY <1>5 DEF PingSent, Goto, TypeOK, Places
        <3>2. /\ ping_interval' \in 1 .. MaxPing
              /\ pong_timeout' \in Nat /\ wait_timeout' \in Nat \ {0}
              /\ ping_tick' \in 0 .. now'
              /\ heard' \in 0 .. now'
              /\ lastTry' \in 0 .. now' \cup {Nothing}
            BY <1>5 DEF PingSent, Goto, TypeOK, Places
        <3>3. pingpong_tick' \in 0 .. now' /\ reconnect_tick' \in 0 .. now'
            BY <1>5 DEF PingSent, Goto, TypeOK, Places
        <3>4. /\ pc' \in Labels /\ state' \in States
              /\ close_sent' \in BOOLEAN /\ wait_for_pong_resp' \in BOOLEAN
              /\ read_select' \in BOOLEAN /\ alive' \in BOOLEAN
            BY <1>5 DEF PingSent, Goto, TypeOK
        <3>5. inbox' \in Seq(Frames)
            BY <1>5 DEF PingSent, Goto, TypeOK
        <3> QED
            BY <3>1, <3>2, <3>3, <3>4, <3>5 DEF TypeOK
    <2>2. Places'
        BY <1>5 DEF PingSent, Goto, TypeOK, Places
    <2>3. Apart'
        BY <1>5 DEF PingSent, Goto, TypeOK, Places, Apart
    <2>4. Waits'
        BY <1>5 DEF PingSent, Goto, TypeOK, Places, Waits, Longest
    <2>5. Silence'
        BY <1>5 DEF PingSent, Goto, TypeOK, Places, Silence, Pause
    <2> QED
        BY <2>1, <2>2, <2>3, <2>4, <2>5
<1>6. CASE NoPing
    <2>1. TypeOK'
        BY <1>6 DEF NoPing, Goto, Turn, TypeOK, Places
    <2>2. Places'
        BY <1>6 DEF NoPing, Goto, Turn, TypeOK, Places
    <2>3. Apart'
        BY <1>6 DEF NoPing, Goto, Turn, TypeOK, Places, Apart
    <2>4. Waits'
        BY <1>6 DEF NoPing, Goto, Turn, TypeOK, Places, Waits, Longest
    <2>5. Silence'
        BY <1>6 DEF NoPing, Goto, Turn, TypeOK, Places, Silence, Pause
    <2> QED
        BY <2>1, <2>2, <2>3, <2>4, <2>5
<1>7. CASE PongTimeout
    <2>1. TypeOK'
        BY <1>7 DEF PongTimeout, Goto, Abort, Overdue, TypeOK, Places
    <2>2. Places'
        BY <1>7 DEF PongTimeout, Goto, Abort, Overdue, TypeOK, Places
    <2>3. Apart'
        BY <1>7 DEF PongTimeout, Goto, Abort, Overdue, TypeOK, Places, Apart
    <2>4. Waits'
        BY <1>7 DEF PongTimeout, Goto, Abort, Overdue, TypeOK, Places, Waits, Longest
    <2>5. Silence'
        BY <1>7 DEF PongTimeout, Goto, Abort, Overdue, TypeOK, Places, Silence, Pause
    <2> QED
        BY <2>1, <2>2, <2>3, <2>4, <2>5
<1>8. CASE PongInTime
    <2>1. TypeOK'
        BY <1>8 DEF PongInTime, Goto, Overdue, TypeOK, Places
    <2>2. Places'
        BY <1>8 DEF PongInTime, Goto, Overdue, TypeOK, Places
    <2>3. Apart'
        BY <1>8 DEF PongInTime, Goto, Overdue, TypeOK, Places, Apart
    <2>4. Waits'
        BY <1>8 DEF PongInTime, Goto, Overdue, TypeOK, Places, Waits, Longest
    <2>5. Silence'
        BY <1>8 DEF PongInTime, Goto, Overdue, TypeOK, Places, Silence, Pause
    <2> QED
        BY <2>1, <2>2, <2>3, <2>4, <2>5
<1>9. CASE SkipRead
    <2>1. TypeOK'
        BY <1>9 DEF SkipRead, Goto, TypeOK, Places
    <2>2. Places'
        BY <1>9 DEF SkipRead, Goto, TypeOK, Places
    <2>3. Apart'
        BY <1>9 DEF SkipRead, Goto, TypeOK, Places, Apart
    <2>4. Waits'
        BY <1>9 DEF SkipRead, Goto, TypeOK, Places, Waits, Longest
    <2>5. Silence'
        BY <1>9 DEF SkipRead, Goto, TypeOK, Places, Silence, Pause
    <2> QED
        BY <2>1, <2>2, <2>3, <2>4, <2>5
<1>10. CASE BeginRead
    <2>1. TypeOK'
        BY <1>10 DEF BeginRead, Goto, TypeOK, Places
    <2>2. Places'
        BY <1>10 DEF BeginRead, Goto, TypeOK, Places
    <2>3. Apart'
        BY <1>10 DEF BeginRead, Goto, TypeOK, Places, Apart
    <2>4. Waits'
        BY <1>10 DEF BeginRead, Goto, TypeOK, Places, Waits, Longest
    <2>5. Silence'
        BY <1>10 DEF BeginRead, Goto, TypeOK, Places, Silence, Pause
    <2> QED
        BY <2>1, <2>2, <2>3, <2>4, <2>5
<1>11. CASE Recv
    <2>1. TypeOK'
        BY <1>11 DEF Recv, Goto, TypeOK, Places
    <2>2. Places'
        BY <1>11 DEF Recv, Goto, TypeOK, Places
    <2>3. Apart'
        BY <1>11 DEF Recv, Goto, TypeOK, Places, Apart
    <2>4. Waits'
        BY <1>11 DEF Recv, Goto, TypeOK, Places, Waits, Longest
    <2>5. Silence'
        BY <1>11 DEF Recv, Goto, TypeOK, Places, Silence, Pause
    <2> QED
        BY <2>1, <2>2, <2>3, <2>4, <2>5
<1>12. CASE RecvFailed
    <2>1. TypeOK'
        BY <1>12 DEF RecvFailed, Goto, Abort, TypeOK, Places
    <2>2. Places'
        BY <1>12 DEF RecvFailed, Goto, Abort, TypeOK, Places
    <2>3. Apart'
        BY <1>12 DEF RecvFailed, Goto, Abort, TypeOK, Places, Apart
    <2>4. Waits'
        BY <1>12 DEF RecvFailed, Goto, Abort, TypeOK, Places, Waits, Longest
    <2>5. Silence'
        BY <1>12 DEF RecvFailed, Goto, Abort, TypeOK, Places, Silence, Pause
    <2> QED
        BY <2>1, <2>2, <2>3, <2>4, <2>5
<1>13. CASE Reconnect
    <2>1. TypeOK'
        BY <1>13 DEF Reconnect, Goto, Turn, WaitIsOver, TypeOK, Places
    <2>2. Places'
        BY <1>13 DEF Reconnect, Goto, Turn, WaitIsOver, TypeOK, Places
    <2>3. Apart'
        BY <1>13 DEF Reconnect, Goto, Turn, WaitIsOver, TypeOK, Places, Apart
    <2>4. Waits'
        BY <1>13 DEF Reconnect, Goto, Turn, WaitIsOver, TypeOK, Places, Waits, Longest
    <2>5. Silence'
        BY <1>13 DEF Reconnect, Goto, Turn, WaitIsOver, TypeOK, Places, Silence, Pause
    <2> QED
        BY <2>1, <2>2, <2>3, <2>4, <2>5
<1>14. CASE KeepWaiting
    <2>1. TypeOK'
        BY <1>14 DEF KeepWaiting, Goto, Turn, WaitIsOver, TypeOK, Places
    <2>2. Places'
        BY <1>14 DEF KeepWaiting, Goto, Turn, WaitIsOver, TypeOK, Places
    <2>3. Apart'
        BY <1>14 DEF KeepWaiting, Goto, Turn, WaitIsOver, TypeOK, Places, Apart
    <2>4. Waits'
        BY <1>14 DEF KeepWaiting, Goto, Turn, WaitIsOver, TypeOK, Places, Waits, Longest
    <2>5. Silence'
        BY <1>14 DEF KeepWaiting, Goto, Turn, WaitIsOver, TypeOK, Places, Silence, Pause
    <2> QED
        BY <2>1, <2>2, <2>3, <2>4, <2>5
<1>15. CASE PollRead
    <2>1. TypeOK'
        BY <1>15 DEF PollRead, Goto, TypeOK, Places
    <2>2. Places'
        BY <1>15 DEF PollRead, Goto, TypeOK, Places
    <2>3. Apart'
        BY <1>15 DEF PollRead, Goto, TypeOK, Places, Apart
    <2>4. Waits'
        BY <1>15 DEF PollRead, Goto, TypeOK, Places, Waits, Longest
    <2>5. Silence'
        BY <1>15 DEF PollRead, Goto, TypeOK, Places, Silence, Pause
    <2> QED
        BY <2>1, <2>2, <2>3, <2>4, <2>5
<1>16. CASE PollFailed
    <2>1. TypeOK'
        <3>1. /\ now' \in Nat
              /\ due' \in Nat /\ now' <= due'
              /\ sending' \in Nat \cup {Nothing} /\ (sending' = Nothing \/ now' <= sending')
              /\ owed' \in Nat \cup {Nothing} /\ (owed' = Nothing \/ now' <= owed')
            BY <1>16 DEF PollFailed, Goto, Abort, TypeOK, Places
        <3>2. /\ ping_interval' \in 1 .. MaxPing
              /\ pong_timeout' \in Nat /\ wait_timeout' \in Nat \ {0}
              /\ ping_tick' \in 0 .. now'
              /\ heard' \in 0 .. now'
              /\ lastTry' \in 0 .. now' \cup {Nothing}
            BY <1>16 DEF PollFailed, Goto, Abort, TypeOK, Places
        <3>3. pingpong_tick' \in 0 .. now' /\ reconnect_tick' \in 0 .. now'
            BY <1>16 DEF PollFailed, Goto, Abort, TypeOK, Places
        <3>4. /\ pc' \in Labels /\ state' \in States
              /\ close_sent' \in BOOLEAN /\ wait_for_pong_resp' \in BOOLEAN
              /\ read_select' \in BOOLEAN /\ alive' \in BOOLEAN
            BY <1>16 DEF PollFailed, Goto, Abort, TypeOK
        <3>5. inbox' \in Seq(Frames)
            BY <1>16 DEF PollFailed, Goto, Abort, TypeOK
        <3> QED
            BY <3>1, <3>2, <3>3, <3>4, <3>5 DEF TypeOK
    <2>2. Places'
        BY <1>16 DEF PollFailed, Goto, Abort, TypeOK, Places
    <2>3. Apart'
        BY <1>16 DEF PollFailed, Goto, Abort, TypeOK, Places, Apart
    <2>4. Waits'
        BY <1>16 DEF PollFailed, Goto, Abort, TypeOK, Places, Waits, Longest
    <2>5. Silence'
        BY <1>16 DEF PollFailed, Goto, Abort, TypeOK, Places, Silence, Pause
    <2> QED
        BY <2>1, <2>2, <2>3, <2>4, <2>5
<1>17. CASE Delay
    <2>1. TypeOK'
        BY <1>17 DEF Delay, Goto, TypeOK, Places
    <2>2. Places'
        BY <1>17 DEF Delay, Goto, TypeOK, Places
    <2>3. Apart'
        BY <1>17 DEF Delay, Goto, TypeOK, Places, Apart
    <2>4. Waits'
        BY <1>17 DEF Delay, Goto, TypeOK, Places, Waits, Longest
    <2>5. Silence'
        BY <1>17 DEF Delay, Goto, TypeOK, Places, Silence, Pause
    <2> QED
        BY <2>1, <2>2, <2>3, <2>4, <2>5
<1>18. CASE SendBegin
    <2>1. TypeOK'
        BY <1>18 DEF SendBegin, TypeOK, Places
    <2>2. Places'
        BY <1>18 DEF SendBegin, TypeOK, Places
    <2>3. Apart'
        BY <1>18 DEF SendBegin, TypeOK, Places, Apart
    <2>4. Waits'
        BY <1>18 DEF SendBegin, TypeOK, Places, Waits, Longest
    <2>5. Silence'
        BY <1>18 DEF SendBegin, TypeOK, Places, Silence, Pause
    <2> QED
        BY <2>1, <2>2, <2>3, <2>4, <2>5
<1>19. CASE SendEnd
    <2>1. TypeOK'
        BY <1>19 DEF SendEnd, TypeOK, Places
    <2>2. Places'
        BY <1>19 DEF SendEnd, TypeOK, Places
    <2>3. Apart'
        BY <1>19 DEF SendEnd, TypeOK, Places, Apart
    <2>4. Waits'
        BY <1>19 DEF SendEnd, TypeOK, Places, Waits, Longest
    <2>5. Silence'
        BY <1>19 DEF SendEnd, TypeOK, Places, Silence, Pause
    <2> QED
        BY <2>1, <2>2, <2>3, <2>4, <2>5
<1>20. CASE SendFailed
    <2>1. TypeOK'
        BY <1>20 DEF SendFailed, Abort, TypeOK, Places
    <2>2. Places'
        BY <1>20 DEF SendFailed, Abort, TypeOK, Places
    <2>3. Apart'
        BY <1>20 DEF SendFailed, Abort, TypeOK, Places, Apart
    <2>4. Waits'
        BY <1>20 DEF SendFailed, Abort, TypeOK, Places, Waits, Longest
    <2>5. Silence'
        BY <1>20 DEF SendFailed, Abort, TypeOK, Places, Silence, Pause
    <2> QED
        BY <2>1, <2>2, <2>3, <2>4, <2>5
<1>21. CASE CloseSent
    <2>1. TypeOK'
        BY <1>21 DEF CloseSent, TypeOK, Places
    <2>2. Places'
        BY <1>21 DEF CloseSent, TypeOK, Places
    <2>3. Apart'
        BY <1>21 DEF CloseSent, TypeOK, Places, Apart
    <2>4. Waits'
        BY <1>21 DEF CloseSent, TypeOK, Places, Waits, Longest
    <2>5. Silence'
        BY <1>21 DEF CloseSent, TypeOK, Places, Silence, Pause
    <2> QED
        BY <2>1, <2>2, <2>3, <2>4, <2>5
<1>22. CASE SetPingInterval
    <2>0. ping_interval' \in 1 .. MaxPing
        BY <1>22, OrType DEF SetPingInterval
    <2>1. TypeOK'
        BY <1>22, <2>0 DEF SetPingInterval, TypeOK, Places
    <2>2. Places'
        BY <1>22 DEF SetPingInterval, TypeOK, Places
    <2>3. Apart'
        BY <1>22 DEF SetPingInterval, TypeOK, Places, Apart
    <2>4. Waits'
        BY <1>22 DEF SetPingInterval, TypeOK, Places, Waits, Longest
    <2>5. Silence'
        BY <1>22 DEF SetPingInterval, TypeOK, Places, Silence, Pause
    <2> QED
        BY <2>1, <2>2, <2>3, <2>4, <2>5
<1>23. CASE PongArrives
    <2>1. TypeOK'
        BY <1>23 DEF PongArrives, TypeOK, Places
    <2>2. Places'
        BY <1>23 DEF PongArrives, TypeOK, Places
    <2>3. Apart'
        BY <1>23 DEF PongArrives, TypeOK, Places, Apart
    <2>4. Waits'
        BY <1>23 DEF PongArrives, TypeOK, Places, Waits, Longest
    <2>5. Silence'
        BY <1>23 DEF PongArrives, TypeOK, Places, Silence, Pause
    <2> QED
        BY <2>1, <2>2, <2>3, <2>4, <2>5
<1>24. CASE DataArrives
    <2>1. TypeOK'
        BY <1>24 DEF DataArrives, TypeOK, Places
    <2>2. Places'
        BY <1>24 DEF DataArrives, TypeOK, Places
    <2>3. Apart'
        BY <1>24 DEF DataArrives, TypeOK, Places, Apart
    <2>4. Waits'
        BY <1>24 DEF DataArrives, TypeOK, Places, Waits, Longest
    <2>5. Silence'
        BY <1>24 DEF DataArrives, TypeOK, Places, Silence, Pause
    <2> QED
        BY <2>1, <2>2, <2>3, <2>4, <2>5
<1>25. CASE Die
    <2>1. TypeOK'
        BY <1>25 DEF Die, TypeOK, Places
    <2>2. Places'
        BY <1>25 DEF Die, TypeOK, Places
    <2>3. Apart'
        BY <1>25 DEF Die, TypeOK, Places, Apart
    <2>4. Waits'
        BY <1>25 DEF Die, TypeOK, Places, Waits, Longest
    <2>5. Silence'
        BY <1>25 DEF Die, TypeOK, Places, Silence, Pause
    <2> QED
        BY <2>1, <2>2, <2>3, <2>4, <2>5
<1>26. CASE Tick
    <2>1. TypeOK'
        BY <1>26 DEF Tick, TypeOK, Places
    <2>2. Places'
        BY <1>26 DEF Tick, TypeOK, Places
    <2>3. Apart'
        BY <1>26 DEF Tick, TypeOK, Places, Apart
    <2>4. Waits'
        BY <1>26 DEF Tick, TypeOK, Places, Waits, Longest
    <2>5. Silence'
        BY <1>26 DEF Tick, TypeOK, Places, Silence, Pause
    <2> QED
        BY <2>1, <2>2, <2>3, <2>4, <2>5
<1>27. CASE UNCHANGED vars
    BY <1>27 DEF TypeOK, Places, Apart, Waits, Longest, Silence, Pause
<1> QED
    BY <1>1, <1>2, <1>3, <1>4, <1>5, <1>6, <1>7, <1>8, <1>9, <1>10, <1>11,
       <1>12, <1>13, <1>14, <1>15, <1>16, <1>17, <1>18, <1>19, <1>20, <1>21,
       <1>22, <1>23, <1>24, <1>25, <1>26, <1>27 DEF Next, Task

\* The time left to a reader shrinks by a round with each frame before the PONG,
\* and there are at most Backlog of these.
LEMMA RoundsFacts ==
    ASSUME NEW k \in 1 .. (Backlog + 1)
    PROVE  /\ Rounds(k) \in Nat
           /\ k > 1 => Rounds(k - 1) = Rounds(k) + 3 * Busy
           /\ (4 + 3 * Backlog) * Busy >= 4 * Busy + Rounds(k)
<1>1. Backlog \in Nat /\ Busy \in Nat
    BY TimersAssumption
<1>2. ASSUME NEW i \in Nat PROVE 3 * Busy * i \in Nat
    BY <1>1
<1>3. Backlog + 1 - k \in Nat /\ k \in Int
    BY <1>1
<1>4. Rounds(k) \in Nat
    BY <1>2, <1>3 DEF Rounds
<1>5. ASSUME k > 1 PROVE Rounds(k - 1) = Rounds(k) + 3 * Busy
    <2>1. Backlog + 1 - (k - 1) = (Backlog + 1 - k) + 1
        BY <1>1
    <2>2. ASSUME NEW i \in Nat PROVE 3 * Busy * (i + 1) = 3 * Busy * i + 3 * Busy
        BY <1>1
    <2> QED
        BY <1>3, <2>1, <2>2 DEF Rounds
<1>6. (4 + 3 * Backlog) * Busy >= 4 * Busy + Rounds(k)
    <2>1. (4 + 3 * Backlog) * Busy = 4 * Busy + 3 * Busy * Backlog
        BY <1>1
    <2>2. ASSUME NEW i \in Nat, NEW j \in Nat
          PROVE  3 * Busy * (i + j) = 3 * Busy * i + 3 * Busy * j
        BY <1>1
    <2>3. Backlog = (Backlog + 1 - k) + (k - 1) /\ k - 1 \in Nat
        BY <1>1
    <2>4. 3 * Busy * Backlog = Rounds(k) + 3 * Busy * (k - 1)
        BY <1>3, <2>2, <2>3 DEF Rounds
    <2>5. 3 * Busy * (k - 1) \in Nat
        BY <1>2, <2>3
    <2> QED
        BY <1>1, <1>4, <2>1, <2>4, <2>5
<1> QED
    BY <1>4, <1>5, <1>6

\* The client is made with Answers.
LEMMA InitAnswers == Init => Answers
BY DEF Init, Answers, Prompt, Queued, Coming

\* Every step keeps Answers: a PONG that is on its way arrives behind Backlog
\* frames at most, and while it waits the task comes one place nearer to it in
\* each round.
LEMMA NextAnswers == Timed /\ Answers /\ [Next]_vars => Answers'
<1> SUFFICES ASSUME Timed, Answers, [Next]_vars PROVE Answers'
    OBVIOUS
<1> USE DEF vars, config, ticks, client, task, server, history
<1>a. TypeOK /\ Places /\ Waits
    BY DEF Timed
<1>b. Prompt /\ Queued /\ Coming
    BY DEF Answers
<1>c. Poll \in Nat /\ Busy \in Nat /\ Answer \in Nat /\ Backlog \in Nat
    BY TimersAssumption
<1>d. \A k \in 1 .. (Backlog + 1) : Rounds(k) \in Nat
    BY RoundsFacts
<1>1. CASE BeginConnect
    <2>1. Prompt'
        BY <1>1, <1>a, <1>b, <1>c DEF BeginConnect, Goto, Turn, TypeOK, Places, Prompt
    <2>2. Queued'
        BY <1>1, <1>a, <1>b, <1>c DEF BeginConnect, Goto, Turn, TypeOK, Queued
    <2>3. Coming'
        BY <1>1, <1>a, <1>b, <1>c, <1>d
           DEF BeginConnect, Goto, Turn, TypeOK, Places, Prompt, Waits, Coming, InTime, By
    <2> QED
        BY <2>1, <2>2, <2>3 DEF Answers
<1>2. CASE Connected
    <2>1. Prompt'
        BY <1>2, <1>a, <1>b, <1>c DEF Connected, Goto, TypeOK, Places, Prompt
    <2>2. Queued'
        BY <1>2, <1>a, <1>b, <1>c DEF Connected, Goto, TypeOK, Queued
    <2>3. Coming'
        BY <1>2, <1>a, <1>b, <1>c, <1>d
           DEF Connected, Goto, TypeOK, Places, Prompt, Waits, Coming, InTime, By
    <2> QED
        BY <2>1, <2>2, <2>3 DEF Answers
<1>3. CASE ConnectFailed
    <2>1. Prompt'
        BY <1>3, <1>a, <1>b, <1>c DEF ConnectFailed, Goto, Abort, TypeOK, Places, Prompt
    <2>2. Queued'
        BY <1>3, <1>a, <1>b, <1>c DEF ConnectFailed, Goto, Abort, TypeOK, Queued
    <2>3. Coming'
        BY <1>3, <1>a, <1>b, <1>c, <1>d
           DEF ConnectFailed, Goto, Abort, TypeOK, Places, Prompt, Waits, Coming, InTime, By
    <2> QED
        BY <2>1, <2>2, <2>3 DEF Answers
<1>4. CASE SendPing
    <2>1. Prompt'
        BY <1>4, <1>a, <1>b, <1>c DEF SendPing, Goto, Turn, TypeOK, Places, Prompt
    <2>2. Queued'
        BY <1>4, <1>a, <1>b, <1>c DEF SendPing, Goto, Turn, TypeOK, Queued
    <2>3. Coming'
        BY <1>4, <1>a, <1>b, <1>c, <1>d
           DEF SendPing, Goto, Turn, TypeOK, Places, Prompt, Waits, Coming, InTime, By
    <2> QED
        BY <2>1, <2>2, <2>3 DEF Answers
<1>5. CASE PingSent
    <2>1. Prompt'
        BY <1>5, <1>a, <1>b, <1>c DEF PingSent, Goto, TypeOK, Places, Prompt
    <2>2. Queued'
        BY <1>5, <1>a, <1>b, <1>c DEF PingSent, Goto, TypeOK, Queued
    <2>3. Coming'
        <3> SUFFICES ASSUME (state = "CONNECTED" /\ alive
                             /\ (wait_for_pong_resp \/ pc = "sent"))'
                     PROVE  (\/ owed # Nothing /\ owed <= By
                             \/ \E k \in DOMAIN inbox :
                                   inbox[k] = "PONG" /\ k <= Backlog + 1 /\ InTime(k))'
            BY DEF Coming
        <3>1. \/ owed # Nothing /\ owed <= By
              \/ \E k \in DOMAIN inbox :
                    inbox[k] = "PONG" /\ k <= Backlog + 1 /\ InTime(k)
            BY <1>5, <1>a, <1>b DEF PingSent, Goto, Places, Coming
        <3>2. CASE owed # Nothing /\ owed <= By
            BY <1>5, <1>a, <1>c, <3>2 DEF PingSent, Goto, TypeOK, By
        <3>3. ASSUME NEW k \in DOMAIN inbox, inbox[k] = "PONG", k <= Backlog + 1, InTime(k)
              PROVE  k \in DOMAIN inbox' /\ inbox'[k] = "PONG" /\ InTime(k)'
            <4>1. k \in 1 .. (Backlog + 1) /\ Rounds(k) \in Nat
                BY <1>a, <1>c, <1>d, <3>3 DEF TypeOK
            <4>2. k \in DOMAIN inbox' /\ inbox'[k] = "PONG"
                BY <1>5, <1>a, <3>3 DEF PingSent, Goto, TypeOK
            <4>3. By' = By /\ By \in Nat
                <5>1. By \in Nat
                    BY <1>a, <1>c DEF TypeOK, By
                <5>2. wait_for_pong_resp' /\ now' = now
                    BY <1>5 DEF PingSent, Goto
                <5>3. CASE wait_for_pong_resp
                    <6>1. pingpong_tick' = pingpong_tick
                        BY <1>5, <5>3 DEF PingSent
                    <6> QED
                        BY <5>1, <5>2, <5>3, <6>1 DEF By
                <5>4. CASE ~wait_for_pong_resp
                    <6>1. pong_timeout # 0
                        BY <1>5, <5>2, <5>4 DEF PingSent
                    <6>2. pingpong_tick' = now
                        BY <1>5, <5>4, <6>1 DEF PingSent
                    <6> QED
                        BY <5>1, <5>2, <5>4, <6>2 DEF By
                <5> QED
                    BY <5>3, <5>4
            <4>4. /\ pc = "sent" /\ pc' = "pong" /\ due' = now /\ now <= due
                  /\ now \in Nat /\ due \in Nat /\ read_select' = read_select
                BY <1>5, <1>a, <1>c DEF PingSent, Goto, TypeOK
            <4>5. InTime(k)'
                BY <1>c, <3>3, <4>1, <4>3, <4>4 DEF InTime
            <4> QED
                BY <4>2, <4>5
        <3> QED
            BY <3>1, <3>2, <3>3
    <2> QED
        BY <2>1, <2>2, <2>3 DEF Answers
<1>6. CASE NoPing
    <2>1. Prompt'
        BY <1>6, <1>a, <1>b, <1>c DEF NoPing, Goto, Turn, TypeOK, Places, Prompt
    <2>2. Queued'
        BY <1>6, <1>a, <1>b, <1>c DEF NoPing, Goto, Turn, TypeOK, Queued
    <2>3. Coming'
        BY <1>6, <1>a, <1>b, <1>c, <1>d
           DEF NoPing, Goto, Turn, TypeOK, Places, Prompt, Waits, Coming, InTime, By
    <2> QED
        BY <2>1, <2>2, <2>3 DEF Answers
<1>7. CASE PongTimeout
    <2>1. Prompt'
        BY <1>7, <1>a, <1>b, <1>c DEF PongTimeout, Goto, Abort, TypeOK, Places, Prompt
    <2>2. Queued'
        BY <1>7, <1>a, <1>b, <1>c DEF PongTimeout, Goto, Abort, TypeOK, Queued
    <2>3. Coming'
        BY <1>7, <1>a, <1>b, <1>c, <1>d
           DEF PongTimeout, Goto, Abort, TypeOK, Places, Prompt, Waits, Coming, InTime, By
    <2> QED
        BY <2>1, <2>2, <2>3 DEF Answers
<1>8. CASE PongInTime
    <2>1. Prompt'
        BY <1>8, <1>a, <1>b, <1>c DEF PongInTime, Goto, TypeOK, Places, Prompt
    <2>2. Queued'
        BY <1>8, <1>a, <1>b, <1>c DEF PongInTime, Goto, TypeOK, Queued
    <2>3. Coming'
        BY <1>8, <1>a, <1>b, <1>c, <1>d
           DEF PongInTime, Goto, TypeOK, Places, Prompt, Waits, Coming, InTime, By
    <2> QED
        BY <2>1, <2>2, <2>3 DEF Answers
<1>9. CASE SkipRead
    <2>1. Prompt'
        BY <1>9, <1>a, <1>b, <1>c DEF SkipRead, Goto, TypeOK, Places, Prompt
    <2>2. Queued'
        BY <1>9, <1>a, <1>b, <1>c DEF SkipRead, Goto, TypeOK, Queued
    <2>3. Coming'
        BY <1>9, <1>a, <1>b, <1>c, <1>d
           DEF SkipRead, Goto, TypeOK, Places, Prompt, Waits, Coming, InTime, By
    <2> QED
        BY <2>1, <2>2, <2>3 DEF Answers
<1>10. CASE BeginRead
    <2>1. Prompt'
        BY <1>10, <1>a, <1>b, <1>c DEF BeginRead, Goto, TypeOK, Places, Prompt
    <2>2. Queued'
        BY <1>10, <1>a, <1>b, <1>c DEF BeginRead, Goto, TypeOK, Queued
    <2>3. Coming'
        <3> SUFFICES ASSUME (state = "CONNECTED" /\ alive
                             /\ (wait_for_pong_resp \/ pc = "sent"))'
                     PROVE  (\/ owed # Nothing /\ owed <= By
                             \/ \E k \in DOMAIN inbox :
                                   inbox[k] = "PONG" /\ k <= Backlog + 1 /\ InTime(k))'
            BY DEF Coming
        <3>1. \/ owed # Nothing /\ owed <= By
              \/ \E k \in DOMAIN inbox :
                    inbox[k] = "PONG" /\ k <= Backlog + 1 /\ InTime(k)
            BY <1>10, <1>b DEF BeginRead, Goto, Coming
        <3>2. CASE owed # Nothing /\ owed <= By
            BY <1>10, <1>a, <1>c, <3>2 DEF BeginRead, Goto, TypeOK, By
        <3>3. ASSUME NEW k \in DOMAIN inbox, inbox[k] = "PONG", k <= Backlog + 1, InTime(k)
              PROVE  k \in DOMAIN inbox' /\ inbox'[k] = "PONG" /\ InTime(k)'
            <4>1. k \in 1 .. (Backlog + 1) /\ Rounds(k) \in Nat
                BY <1>a, <1>c, <1>d, <3>3 DEF TypeOK
            <4>2. k \in DOMAIN inbox' /\ inbox'[k] = "PONG"
                BY <1>10, <1>a, <3>3 DEF BeginRead, Goto, TypeOK
            <4>3. InTime(k)'
                BY <1>10, <1>a, <1>b, <1>c, <3>3, <4>1
                   DEF BeginRead, Goto, TypeOK, Places, Prompt, Waits, InTime, By
            <4> QED
                BY <4>2, <4>3
        <3> QED
            BY <3>1, <3>2, <3>3
    <2> QED
        BY <2>1, <2>2, <2>3 DEF Answers
<1>11. CASE Recv
    <2>1. Prompt'
        BY <1>11, <1>a, <1>b, <1>c DEF Recv, Goto, TypeOK, Places, Prompt
    <2>2. Queued'
        BY <1>11, <1>a, <1>b, <1>c DEF Recv, Goto, TypeOK, Queued
    <2>3. Coming'
        <3> SUFFICES ASSUME (state = "CONNECTED" /\ alive
                             /\ (wait_for_pong_resp \/ pc = "sent"))'
                     PROVE  (\/ owed # Nothing /\ owed <= By
                             \/ \E k \in DOMAIN inbox :
                                   inbox[k] = "PONG" /\ k <= Backlog + 1 /\ InTime(k))'
            BY DEF Coming
        <3>1. \/ owed # Nothing /\ owed <= By
              \/ \E k \in DOMAIN inbox :
                    inbox[k] = "PONG" /\ k <= Backlog + 1 /\ InTime(k)
            BY <1>11, <1>b DEF Recv, Goto, Coming
        <3>2. CASE owed # Nothing /\ owed <= By
            BY <1>11, <1>a, <1>c, <3>2 DEF Recv, Goto, TypeOK, By
        <3>3. ASSUME NEW k \in DOMAIN inbox, inbox[k] = "PONG", k <= Backlog + 1, InTime(k)
              PROVE  \E i \in DOMAIN inbox' :
                        inbox'[i] = "PONG" /\ i <= Backlog + 1 /\ InTime(i)'
            <4>1. k \in 1 .. (Backlog + 1) /\ Rounds(k) \in Nat
                BY <1>a, <1>c, <1>d, <3>3 DEF TypeOK
            <4>2. k # 1
                <5>1. Head(inbox) # "PONG"
                    BY <1>11 DEF Recv, Goto
                <5>2. Head(inbox) = inbox[1]
                    BY <1>11, <1>a DEF Recv, TypeOK
                <5> QED
                    BY <3>3, <5>1, <5>2
            <4>3. k - 1 \in 1 .. (Backlog + 1)
                BY <1>c, <4>1, <4>2
            <4>4. k - 1 \in DOMAIN inbox' /\ inbox'[k - 1] = "PONG"
                BY <1>11, <1>a, <3>3, <4>1, <4>2, <4>3 DEF Recv, Goto, TypeOK
            <4>5. Rounds(k - 1) = Rounds(k) + 3 * Busy
                BY <4>1, <4>2, RoundsFacts
            <4>6. InTime(k - 1)'
                BY <1>11, <1>a, <1>c, <3>3, <4>1, <4>5
                   DEF Recv, Goto, TypeOK, InTime, By
            <4> QED
                BY <1>c, <4>3, <4>4, <4>6
        <3> QED
            BY <3>1, <3>2, <3>3
    <2> QED
        BY <2>1, <2>2, <2>3 DEF Answers
<1>12. CASE RecvFailed
    <2>1. Prompt'
        BY <1>12, <1>a, <1>b, <1>c DEF RecvFailed, Goto, Abort, TypeOK, Places, Prompt
    <2>2. Queued'
        BY <1>12, <1>a, <1>b, <1>c DEF RecvFailed, Goto, Abort, TypeOK, Queued
    <2>3. Coming'
        BY <1>12, <1>a, <1>b, <1>c, <1>d
           DEF RecvFailed, Goto, Abort, TypeOK, Places, Prompt, Waits, Coming, InTime, By
    <2> QED
        BY <2>1, <2>2, <2>3 DEF Answers
<1>13. CASE Reconnect
    <2>1. Prompt'
        BY <1>13, <1>a, <1>b, <1>c DEF Reconnect, Goto, Turn, TypeOK, Places, Prompt
    <2>2. Queued'
        BY <1>13, <1>a, <1>b, <1>c DEF Reconnect, Goto, Turn, TypeOK, Queued
    <2>3. Coming'
        BY <1>13, <1>a, <1>b, <1>c, <1>d
           DEF Reconnect, Goto, Turn, TypeOK, Places, Prompt, Waits, Coming, InTime, By
    <2> QED
        BY <2>1, <2>2, <2>3 DEF Answers
<1>14. CASE KeepWaiting
    <2>1. Prompt'
        BY <1>14, <1>a, <1>b, <1>c DEF KeepWaiting, Goto, Turn, TypeOK, Places, Prompt
    <2>2. Queued'
        BY <1>14, <1>a, <1>b, <1>c DEF KeepWaiting, Goto, Turn, TypeOK, Queued
    <2>3. Coming'
        BY <1>14, <1>a, <1>b, <1>c, <1>d
           DEF KeepWaiting, Goto, Turn, TypeOK, Places, Prompt, Waits, Coming, InTime, By
    <2> QED
        BY <2>1, <2>2, <2>3 DEF Answers
<1>15. CASE PollRead
    <2>1. Prompt'
        BY <1>15, <1>a, <1>b, <1>c DEF PollRead, Goto, TypeOK, Places, Prompt
    <2>2. Queued'
        BY <1>15, <1>a, <1>b, <1>c DEF PollRead, Goto, TypeOK, Queued
    <2>3. Coming'
        <3> SUFFICES ASSUME (state = "CONNECTED" /\ alive
                             /\ (wait_for_pong_resp \/ pc = "sent"))'
                     PROVE  (\/ owed # Nothing /\ owed <= By
                             \/ \E k \in DOMAIN inbox :
                                   inbox[k] = "PONG" /\ k <= Backlog + 1 /\ InTime(k))'
            BY DEF Coming
        <3>1. \/ owed # Nothing /\ owed <= By
              \/ \E k \in DOMAIN inbox :
                    inbox[k] = "PONG" /\ k <= Backlog + 1 /\ InTime(k)
            BY <1>15, <1>b DEF PollRead, Goto, Coming
        <3>2. CASE owed # Nothing /\ owed <= By
            BY <1>15, <1>a, <1>c, <3>2 DEF PollRead, Goto, TypeOK, By
        <3>3. ASSUME NEW k \in DOMAIN inbox, inbox[k] = "PONG", k <= Backlog + 1, InTime(k)
              PROVE  k \in DOMAIN inbox' /\ inbox'[k] = "PONG" /\ InTime(k)'
            <4>1. k \in 1 .. (Backlog + 1) /\ Rounds(k) \in Nat
                BY <1>a, <1>c, <1>d, <3>3 DEF TypeOK
            <4>2. k \in DOMAIN inbox' /\ inbox'[k] = "PONG"
                BY <1>15, <1>a, <3>3 DEF PollRead, Goto, TypeOK
            <4>3. InTime(k)'
                BY <1>15, <1>a, <1>b, <1>c, <3>3, <4>1
                   DEF PollRead, Goto, TypeOK, Places, Prompt, Waits, InTime, By
            <4> QED
                BY <4>2, <4>3
        <3> QED
            BY <3>1, <3>2, <3>3
    <2> QED
        BY <2>1, <2>2, <2>3 DEF Answers
<1>16. CASE PollFailed
    <2>1. Prompt'
        BY <1>16, <1>a, <1>b, <1>c DEF PollFailed, Goto, Abort, TypeOK, Places, Prompt
    <2>2. Queued'
        BY <1>16, <1>a, <1>b, <1>c DEF PollFailed, Goto, Abort, TypeOK, Queued
    <2>3. Coming'
        BY <1>16, <1>a, <1>b, <1>c, <1>d
           DEF PollFailed, Goto, Abort, TypeOK, Places, Prompt, Waits, Coming, InTime, By
    <2> QED
        BY <2>1, <2>2, <2>3 DEF Answers
<1>17. CASE Delay
    <2>1. Prompt'
        BY <1>17, <1>a, <1>b, <1>c DEF Delay, Goto, TypeOK, Places, Prompt
    <2>2. Queued'
        BY <1>17, <1>a, <1>b, <1>c DEF Delay, Goto, TypeOK, Queued
    <2>3. Coming'
        BY <1>17, <1>a, <1>b, <1>c, <1>d
           DEF Delay, Goto, TypeOK, Places, Prompt, Waits, Coming, InTime, By
    <2> QED
        BY <2>1, <2>2, <2>3 DEF Answers
<1>18. CASE SendBegin
    <2>1. Prompt'
        BY <1>18, <1>a, <1>b, <1>c DEF SendBegin, TypeOK, Places, Prompt
    <2>2. Queued'
        BY <1>18, <1>a, <1>b, <1>c DEF SendBegin, TypeOK, Queued
    <2>3. Coming'
        BY <1>18, <1>a, <1>b, <1>c, <1>d
           DEF SendBegin, TypeOK, Places, Prompt, Waits, Coming, InTime, By
    <2> QED
        BY <2>1, <2>2, <2>3 DEF Answers
<1>19. CASE SendEnd
    <2>1. Prompt'
        BY <1>19, <1>a, <1>b, <1>c DEF SendEnd, TypeOK, Places, Prompt
    <2>2. Queued'
        BY <1>19, <1>a, <1>b, <1>c DEF SendEnd, TypeOK, Queued
    <2>3. Coming'
        BY <1>19, <1>a, <1>b, <1>c, <1>d
           DEF SendEnd, TypeOK, Places, Prompt, Waits, Coming, InTime, By
    <2> QED
        BY <2>1, <2>2, <2>3 DEF Answers
<1>20. CASE SendFailed
    <2>1. Prompt'
        BY <1>20, <1>a, <1>b, <1>c DEF SendFailed, Abort, TypeOK, Places, Prompt
    <2>2. Queued'
        BY <1>20, <1>a, <1>b, <1>c DEF SendFailed, Abort, TypeOK, Queued
    <2>3. Coming'
        BY <1>20, <1>a, <1>b, <1>c, <1>d
           DEF SendFailed, Abort, TypeOK, Places, Prompt, Waits, Coming, InTime, By
    <2> QED
        BY <2>1, <2>2, <2>3 DEF Answers
<1>21. CASE CloseSent
    <2>1. Prompt'
        BY <1>21, <1>a, <1>b, <1>c DEF CloseSent, TypeOK, Places, Prompt
    <2>2. Queued'
        BY <1>21, <1>a, <1>b, <1>c DEF CloseSent, TypeOK, Queued
    <2>3. Coming'
        BY <1>21, <1>a, <1>b, <1>c, <1>d
           DEF CloseSent, TypeOK, Places, Prompt, Waits, Coming, InTime, By
    <2> QED
        BY <2>1, <2>2, <2>3 DEF Answers
<1>22. CASE SetPingInterval
    <2>1. Prompt'
        BY <1>22, <1>a, <1>b, <1>c DEF SetPingInterval, TypeOK, Places, Prompt
    <2>2. Queued'
        BY <1>22, <1>a, <1>b, <1>c DEF SetPingInterval, TypeOK, Queued
    <2>3. Coming'
        BY <1>22, <1>a, <1>b, <1>c, <1>d
           DEF SetPingInterval, TypeOK, Places, Prompt, Waits, Coming, InTime, By
    <2> QED
        BY <2>1, <2>2, <2>3 DEF Answers
<1>23. CASE PongArrives
    <2>1. Prompt'
        BY <1>23, <1>a, <1>b, <1>c DEF PongArrives, TypeOK, Places, Prompt
    <2>2. Queued'
        BY <1>23, <1>a, <1>b, <1>c DEF PongArrives, TypeOK, Queued
    <2>3. Coming'
        <3> SUFFICES ASSUME (state = "CONNECTED" /\ alive
                             /\ (wait_for_pong_resp \/ pc = "sent"))'
                     PROVE  (\/ owed # Nothing /\ owed <= By
                             \/ \E k \in DOMAIN inbox :
                                   inbox[k] = "PONG" /\ k <= Backlog + 1 /\ InTime(k))'
            BY DEF Coming
        <3>1. \/ owed # Nothing /\ owed <= By
              \/ \E k \in DOMAIN inbox :
                    inbox[k] = "PONG" /\ k <= Backlog + 1 /\ InTime(k)
            BY <1>23, <1>b DEF PongArrives, Coming
        <3>2. ASSUME owed <= By, NEW k \in 1 .. (Backlog + 1),
                     k \in DOMAIN inbox', inbox'[k] = "PONG"
              PROVE  \E i \in DOMAIN inbox' :
                        inbox'[i] = "PONG" /\ i <= Backlog + 1 /\ InTime(i)'
            <4>1. Rounds(k) \in Nat
                BY <1>d
            <4>2. now <= By /\ By \in Nat /\ now \in Nat /\ due \in Nat /\ now <= due
                BY <1>23, <1>a, <1>c, <3>2 DEF PongArrives, TypeOK, By
            <4>3. /\ By' = By /\ now' = now /\ due' = due /\ pc' = pc
                  /\ read_select' = read_select
                BY <1>23 DEF PongArrives, By
            <4>4. /\ pc \in {"turn", "sent", "recv"} => due <= now + Busy
                  /\ pc \in {"pong", "read"} => due <= now
                BY <1>a, <1>b DEF Prompt, Waits
            <4>5. InTime(k)'
                BY <1>c, <4>1, <4>2, <4>3, <4>4 DEF InTime
            <4> QED
                BY <1>c, <3>2, <4>5
        <3>3. CASE owed <= By /\ Len(inbox) <= Backlog
            <4>1. PICK k \in Nat : k = Len(inbox) + 1
                BY <1>a DEF TypeOK
            <4>2. k \in 1 .. (Backlog + 1)
                BY <1>a, <1>c, <3>3, <4>1 DEF TypeOK
            <4>3. k \in DOMAIN inbox' /\ inbox'[k] = "PONG"
                BY <1>23, <1>a, <4>1 DEF PongArrives, TypeOK
            <4> QED
                BY <3>2, <3>3, <4>2, <4>3
        <3>4. CASE owed <= By /\ Len(inbox) > Backlog
            <4>1. PICK k \in Nat : k = Backlog + 1
                BY <1>c
            <4>2. k \in 1 .. (Backlog + 1) /\ k \in DOMAIN inbox
                BY <1>a, <1>c, <3>4, <4>1 DEF TypeOK
            <4>3. inbox[k] = "PONG"
                <5>1. inbox[k] \in Frames
                    BY <1>a, <4>2 DEF TypeOK
                <5>2. inbox[k] # "DATA"
                    BY <1>b, <1>c, <4>1, <4>2 DEF Queued
                <5> QED
                    BY <5>1, <5>2
            <4>4. k \in DOMAIN inbox' /\ inbox'[k] = "PONG"
                BY <1>23, <1>a, <4>2, <4>3 DEF PongArrives, TypeOK
            <4> QED
                BY <3>2, <3>4, <4>2, <4>4
        <3>5. ASSUME NEW k \in DOMAIN inbox, inbox[k] = "PONG", k <= Backlog + 1, InTime(k)
              PROVE  k \in DOMAIN inbox' /\ inbox'[k] = "PONG" /\ InTime(k)'
            <4>1. k \in DOMAIN inbox' /\ inbox'[k] = "PONG"
                BY <1>23, <1>a, <3>5 DEF PongArrives, TypeOK
            <4>2. InTime(k)'
                BY <1>23, <3>5 DEF PongArrives, InTime, By
            <4> QED
                BY <4>1, <4>2
        <3>6. Len(inbox) \in Nat
            BY <1>a DEF TypeOK
        <3> QED
            BY <1>c, <3>1, <3>3, <3>4, <3>5, <3>6
    <2> QED
        BY <2>1, <2>2, <2>3 DEF Answers
<1>24. CASE DataArrives
    <2>1. Prompt'
        BY <1>24, <1>a, <1>b, <1>c DEF DataArrives, TypeOK, Places, Prompt
    <2>2. Queued'
        BY <1>24, <1>a, <1>b, <1>c DEF DataArrives, TypeOK, Queued
    <2>3. Coming'
        <3> SUFFICES ASSUME (state = "CONNECTED" /\ alive
                             /\ (wait_for_pong_resp \/ pc = "sent"))'
                     PROVE  (\/ owed # Nothing /\ owed <= By
                             \/ \E k \in DOMAIN inbox :
                                   inbox[k] = "PONG" /\ k <= Backlog + 1 /\ InTime(k))'
            BY DEF Coming
        <3>1. \/ owed # Nothing /\ owed <= By
              \/ \E k \in DOMAIN inbox :
                    inbox[k] = "PONG" /\ k <= Backlog + 1 /\ InTime(k)
            BY <1>24, <1>b DEF DataArrives, Coming
        <3>2. CASE owed # Nothing /\ owed <= By
            BY <1>24, <1>a, <1>c, <3>2 DEF DataArrives, TypeOK, By
        <3>3. ASSUME NEW k \in DOMAIN inbox, inbox[k] = "PONG", k <= Backlog + 1, InTime(k)
              PROVE  k \in DOMAIN inbox' /\ inbox'[k] = "PONG" /\ InTime(k)'
            <4>1. k \in 1 .. (Backlog + 1) /\ Rounds(k) \in Nat
                BY <1>a, <1>c, <1>d, <3>3 DEF TypeOK
            <4>2. k \in DOMAIN inbox' /\ inbox'[k] = "PONG"
                BY <1>24, <1>a, <3>3 DEF DataArrives, TypeOK
            <4>3. InTime(k)'
                BY <1>24, <1>a, <1>b, <1>c, <3>3, <4>1
                   DEF DataArrives, TypeOK, Places, Prompt, Waits, InTime, By
            <4> QED
                BY <4>2, <4>3
        <3> QED
            BY <3>1, <3>2, <3>3
    <2> QED
        BY <2>1, <2>2, <2>3 DEF Answers
<1>25. CASE Die
    <2>1. Prompt'
        BY <1>25, <1>a, <1>b, <1>c DEF Die, TypeOK, Places, Prompt
    <2>2. Queued'
        BY <1>25, <1>a, <1>b, <1>c DEF Die, TypeOK, Queued
    <2>3. Coming'
        BY <1>25, <1>a, <1>b, <1>c, <1>d
           DEF Die, TypeOK, Places, Prompt, Waits, Coming, InTime, By
    <2> QED
        BY <2>1, <2>2, <2>3 DEF Answers
<1>26. CASE Tick
    <2>1. Prompt'
        BY <1>26, <1>a, <1>b, <1>c DEF Tick, TypeOK, Places, Prompt
    <2>2. Queued'
        BY <1>26, <1>a, <1>b, <1>c DEF Tick, TypeOK, Queued
    <2>3. Coming'
        <3> SUFFICES ASSUME (state = "CONNECTED" /\ alive
                             /\ (wait_for_pong_resp \/ pc = "sent"))'
                     PROVE  (\/ owed # Nothing /\ owed <= By
                             \/ \E k \in DOMAIN inbox :
                                   inbox[k] = "PONG" /\ k <= Backlog + 1 /\ InTime(k))'
            BY DEF Coming
        <3>1. \/ owed # Nothing /\ owed <= By
              \/ \E k \in DOMAIN inbox :
                    inbox[k] = "PONG" /\ k <= Backlog + 1 /\ InTime(k)
            BY <1>26, <1>b DEF Tick, Coming
        <3>2. CASE owed # Nothing /\ owed <= By
            BY <1>26, <1>a, <1>c, <3>2 DEF Tick, TypeOK, By
        <3>3. ASSUME NEW k \in DOMAIN inbox, inbox[k] = "PONG", k <= Backlog + 1, InTime(k)
              PROVE  k \in DOMAIN inbox' /\ inbox'[k] = "PONG" /\ InTime(k)'
            <4>1. k \in 1 .. (Backlog + 1) /\ Rounds(k) \in Nat
                BY <1>a, <1>c, <1>d, <3>3 DEF TypeOK
            <4>2. k \in DOMAIN inbox' /\ inbox'[k] = "PONG"
                BY <1>26, <1>a, <3>3 DEF Tick, TypeOK
            <4>3. InTime(k)'
                BY <1>26, <1>a, <1>b, <1>c, <3>3, <4>1
                   DEF Tick, TypeOK, Places, Prompt, Waits, InTime, By
            <4> QED
                BY <4>2, <4>3
        <3> QED
            BY <3>1, <3>2, <3>3
    <2> QED
        BY <2>1, <2>2, <2>3 DEF Answers
<1>27. CASE UNCHANGED vars
    <2>1. Prompt'
        BY <1>27, <1>a, <1>b, <1>c DEF TypeOK, Places, Prompt
    <2>2. Queued'
        BY <1>27, <1>a, <1>b, <1>c DEF TypeOK, Queued
    <2>3. Coming'
        BY <1>27, <1>a, <1>b, <1>c, <1>d
           DEF TypeOK, Places, Prompt, Waits, Coming, InTime, By
    <2> QED
        BY <2>1, <2>2, <2>3 DEF Answers
<1> QED
    BY <1>1, <1>2, <1>3, <1>4, <1>5, <1>6, <1>7, <1>8, <1>9, <1>10, <1>11, <1>12, <1>13, <1>14, <1>15, <1>16, <1>17, <1>18, <1>19, <1>20, <1>21, <1>22, <1>23, <1>24, <1>25, <1>26, <1>27 DEF Next, Task

\* The inductive invariant.
THEOREM InvCorrect == Spec => []Inv
<1>1. Init => Inv
    BY InitTimed, InitAnswers DEF Inv
<1>2. Inv /\ [Next]_vars => Inv'
    BY NextTimed, NextAnswers DEF Inv
<1> QED
    BY <1>1, <1>2, PTL DEF Spec

\* A live server is not given up for a PONG that waits behind other frames.
THEOREM LiveCorrect == Spec => []LiveIsKept
<1>1. Inv => LiveIsKept
    <2> SUFFICES ASSUME Inv, pc = "pong", Overdue, wait_for_pong_resp, alive,
                        pong_timeout >= Answer + (4 + 3 * Backlog) * Busy
                 PROVE  FALSE
        BY DEF LiveIsKept
    <2>1. TypeOK /\ Places /\ Coming
        BY DEF Inv, Timed, Answers
    <2>2. Busy \in Nat /\ Answer \in Nat /\ Backlog \in Nat
        BY TimersAssumption
    <2>3. state = "CONNECTED"
        BY <2>1 DEF Places
    <2>4. ASSUME NEW b \in Nat, NEW n \in Nat PROVE (4 + 3 * n) * b \in Nat
        OBVIOUS
    <2>5. CASE owed # Nothing /\ owed <= By
        <3>1. now - pingpong_tick <= Answer
            BY <2>1, <2>2, <2>5 DEF TypeOK, By
        <3>2. (4 + 3 * Backlog) * Busy \in Nat
            BY <2>2, <2>4
        <3> QED
            BY <2>1, <2>2, <3>1, <3>2 DEF TypeOK, Overdue
    <2>6. ASSUME NEW k \in DOMAIN inbox, k <= Backlog + 1, InTime(k)
          PROVE  FALSE
        <3>1. k \in 1 .. (Backlog + 1)
            BY <2>1, <2>2, <2>6 DEF TypeOK
        <3>2. Rounds(k) \in Nat /\ (4 + 3 * Backlog) * Busy >= 4 * Busy + Rounds(k)
            BY <3>1, RoundsFacts
        <3>3. now - pingpong_tick <= Answer + 4 * Busy + Rounds(k)
            BY <2>1, <2>2, <2>6, <3>2 DEF TypeOK, InTime, By
        <3> DEFINE most == (4 + 3 * Backlog) * Busy
        <3>4. most \in Nat /\ most >= 4 * Busy + Rounds(k) /\ pong_timeout >= Answer + most
            BY <2>2, <2>4, <3>2
        <3> HIDE DEF most
        <3> QED
            BY <2>1, <2>2, <3>2, <3>3, <3>4 DEF TypeOK, Overdue
    <2> QED
        BY <2>1, <2>3, <2>5, <2>6 DEF Coming
<1> QED
    BY <1>1, InvCorrect, PTL

\* The ticks lie in the past, an interval is positive: TypeOK of every instance.
THEOREM TypeCorrect == Spec => []TypeOK
<1>1. Inv => TypeOK
    BY DEF Inv, Timed
<1> QED
    BY <1>1, InvCorrect, PTL

\* A connection that has gone silent is given up within the interval, the
\* timeout and two rounds of the task's loop.
THEOREM SilenceCorrect == Spec => []SilenceIsNoticed
<1>1. Inv => SilenceIsNoticed
    <2> SUFFICES ASSUME Inv, state = "CONNECTED", pong_timeout # 0, ~close_sent
                 PROVE  now - heard <= Pause + pong_timeout + 2 * (Poll + 2 * Busy)
        BY DEF SilenceIsNoticed, Pause
    <2>1. pc \in {"turn", "sent", "pong", "read", "recv", "poll"}
        BY DEF Inv, Timed, TypeOK, Places
    <2>2. now <= due /\ now \in Nat /\ heard \in Nat /\ due \in Nat /\ pong_timeout \in Nat
        BY DEF Inv, Timed, TypeOK
    <2> QED
        BY <2>1, <2>2, Constants DEF Inv, Timed, Silence, Pause
<1> QED
    BY <1>1, InvCorrect, PTL

\* A wait for the next attempt comes to its end, whoever began it and whenever.
THEOREM WaitCorrect == Spec => []WaitIsBounded
<1>1. Inv => WaitIsBounded
    <2> SUFFICES ASSUME Inv, state = "WAIT_TIMEOUT"
                 PROVE  now - reconnect_tick <= Longest + Busy
        BY DEF WaitIsBounded, Longest
    <2>1. pc \in {"turn", "poll", "delay"}
        BY DEF Inv, Timed, TypeOK, Places
    <2>2. now <= due /\ now \in Nat /\ reconnect_tick \in Nat /\ due \in Nat
          /\ wait_timeout \in Nat
        BY DEF Inv, Timed, TypeOK
    <2> QED
        BY <2>1, <2>2, Constants DEF Inv, Timed, Waits, Longest
<1> QED
    BY <1>1, InvCorrect, PTL

\* Attempts to connect are more than the reconnect timeout apart.
THEOREM ApartCorrect == Spec => AttemptsAreApart
<1>1. Inv /\ [Next]_vars
      => [ lastTry' # lastTry /\ lastTry # Nothing
           => lastTry' - lastTry > wait_timeout ]_vars
    <2> SUFFICES ASSUME Inv, [Next]_vars, lastTry' # lastTry, lastTry # Nothing
                 PROVE  lastTry' - lastTry > wait_timeout
        OBVIOUS
    <2>1. BeginConnect
        BY DEF Next, Task, vars, history, Connected, ConnectFailed, SendPing, PingSent,
               NoPing, PongTimeout, PongInTime, SkipRead, BeginRead, Recv, RecvFailed,
               Reconnect, KeepWaiting, PollRead, PollFailed, Delay, SendBegin, SendEnd,
               SendFailed, CloseSent, SetPingInterval, PongArrives, DataArrives, Die, Tick
    <2> QED
        BY <2>1 DEF BeginConnect, Turn, Inv, Timed, TypeOK, Apart
<1> QED
    BY <1>1, InvCorrect, PTL DEF Spec, AttemptsAreApart
=============================================================================
