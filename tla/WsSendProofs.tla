---------------------------- MODULE WsSendProofs ----------------------------
(***************************************************************************)
(* What WsEvents and WsSend say of events, of the error buffer and of the  *)
(* messages on the wire holds for any threads that send whole messages and *)
(* messages in parts, of any lengths, over any number of connections.      *)
(***************************************************************************)
EXTENDS WsSend, TLAPS, WellFoundedInduction, SequenceTheorems

Users == Senders \cup Partials

\* The steps a thread may have before it.
Reports == {"post", "run", "handle", "error", "free", "malloc", "print", "abort",
            "lost"}
Steps(th) ==
    Reports \cup
        IF th = Task THEN {"turn", "connect", "unlock", "poll"}
        ELSE IF th \in Senders THEN {"lock", "copy", "raw", "unlock"}
        ELSE {"copy", "raw", "return"}

\* What it does last.
Ends(th) ==
    IF th = Task THEN {"turn"} ELSE IF th \in Senders THEN {"lock", "unlock"} ELSE {"return"}

\* Steps that only stand first.
Firsts == {"handle", "error", "free", "malloc", "print", "copy", "raw", "lost"}

\* The order of a thread's steps.
Ordered(th, t) ==
    /\ t \in Seq(Steps(th))
    /\ \A i \in 1 .. Len(t) :
          /\ t[i] \in Firsts => i = 1
          /\ t[i] \in Ends(th) <=> i = Len(t)
          /\ t[i] = "post" => i < Len(t) /\ t[i + 1] = "run"
          /\ t[i] = "run" => i = 1 \/ t[i - 1] = "post"
          /\ t[i] = "connect" => i < Len(t) /\ t[i + 1] = "unlock"
          /\ t[i] \in {"copy", "raw"} => Len(t) = 2
          /\ t[i] = "lock" => Len(t) = 1
          /\ \A k \in 1 .. Len(t) : t[i] = "unlock" /\ t[k] = "unlock" => i = k

Has(th, step) == \E i \in 1 .. Len(todo[th]) : todo[th][i] = step
Loops(s)      == At(s, "copy") \/ At(s, "raw")

Message ==
    {m \in [no : Nat, len : Nat, widx : Nat, opcode : {"NONE", "TEXT", "FIN"},
            fin : BOOLEAN, ok : BOOLEAN, ret : {-1, 0}] : m.ret = 0 => m.len > 0}
Piece   == [of : Users, no : Nat, from : Nat, to : Nat]
Arrived == [of : Users, no : Nat, len : Nat]

Values ==
    /\ queue \in {<<>>} \cup {<<th>> : th \in Threads}
    /\ state \in {"INIT", "CONNECTED", "WAIT_TIMEOUT"}
    /\ lock \in {<<>>} \cup {<<th>> : th \in Threads}
    /\ open \in BOOLEAN
    /\ conn \in Nat
    /\ msg \in [Users -> Message]
    /\ tx_buffer \in Piece \cup {Nothing}
    /\ parts \in Seq(Piece)
    /\ garbled \in BOOLEAN
    /\ done \subseteq Arrived
    /\ users \subseteq Threads

Types ==
    /\ limits \in Limits
    /\ DOMAIN todo = Threads /\ \A th \in Threads : Ordered(th, todo[th])
    /\ todo[Task] # <<>>
    /\ Values

\* Events: a thread that is to run the loop has posted.
Events == RunsItsOwn

\* The error buffer, as long as no two threads report errors at once.
Errors ==
    /\ errormsg_size \in Nat /\ needed_size \in [Threads -> Nat]
    /\ DOMAIN data_ptr = Threads /\ met \in BOOLEAN
    /\ \A th \in Threads : data_ptr[th] # 0 =>
          \E step \in {"post", "run", "handle"} : At(th, step)
    /\ ~met =>
          /\ \A th, other \in Threads : InError(th) /\ InError(other) => th = other
          /\ (\A th \in Threads : ~At(th, "malloc")) =>
                /\ errormsg_buffer \in allocated \cup {0}
                /\ errormsg_size > 0 => errormsg_buffer \in allocated
          /\ \A th \in Threads : /\ data_ptr[th] \in allocated \cup {0}
                                 /\ At(th, "print") => errormsg_buffer \in allocated
                                                       /\ needed_size[th] <= errormsg_size

\* Who has the lock gives it back, and nobody else does.
Locked == \A th \in Threads : Has(th, "unlock") <=> lock = <<th>>

\* A message as it is sent.
Sent(s) ==
    /\ msg[s].widx <= msg[s].len
    /\ Loops(s) => msg[s].ok
    /\ s \in Senders /\ todo[s] # <<>> => msg[s].fin
    /\ s \in Senders /\ At(s, "lock") => msg[s].opcode = "TEXT" /\ msg[s].widx = 0
    /\ s \in Senders /\ msg[s].ok /\ Has(s, "unlock") /\ ~At(s, "copy") => s \in users
    /\ s \in Senders /\ msg[s].ok /\ Has(s, "unlock") /\ ~Loops(s) =>
          msg[s].widx = msg[s].len
    /\ s \in Partials /\ ~Loops(s) /\ msg[s].ok =>
          msg[s].opcode = "NONE" /\ msg[s].widx = msg[s].len
    /\ s \in Partials /\ Loops(s) => msg[s].no > 0
    /\ At(s, "raw") => s \in users /\ tx_buffer # Nothing
    /\ s \in Partials /\ todo[s] # <<>> /\ ~At(s, "copy") => s \in users

Sending == \A s \in Users : Sent(s)

\* The fragment of s that is in the buffer.
Copied(s) ==
    tx_buffer = [of |-> s, no |-> msg[s].no, from |-> msg[s].widx,
                 to |-> msg[s].widx + Frame(s).length]

\* The server has got the message of s up to widx.
Chain(s) ==
    /\ \A i \in 1 .. Len(parts) :
          /\ parts[i].of = s /\ parts[i].no = msg[s].no
          /\ parts[i].from = IF i = 1 THEN 0 ELSE parts[i - 1].to
    /\ parts # <<>> => parts[Len(parts)].to = msg[s].widx
    /\ parts = <<>> => msg[s].widx = 0
    /\ parts = <<>> <=> msg[s].opcode = "TEXT"

\* While only whole messages are sent.
Whole ==
    users \cap Partials = {} =>
    /\ ~garbled
    /\ open /\ parts # <<>> =>
          \E s \in Senders : lock = <<s>> /\ (Loops(s) \/ Has(s, "abort"))
    /\ \A s \in Senders : /\ open /\ Loops(s) => Chain(s)
                          /\ At(s, "raw") => Copied(s)

\* While p alone sends, and begun its message on this connection.
Alone ==
    \A p \in Partials : users \subseteq {p} =>
    /\ ~garbled
    /\ open /\ users = {} => parts = <<>>
    /\ open /\ (Loops(p) \/ Underway(p)) => Chain(p)
    /\ open /\ ~Loops(p) /\ ~Underway(p) /\ ~Has(p, "abort") => parts = <<>>
    /\ At(p, "raw") => Copied(p)

\* Nothing of the message of s is out yet.
Fresh(s) ==
    /\ \A d \in done : d.of = s => d.no < msg[s].no
    /\ \A i \in 1 .. Len(parts) : parts[i].of = s => parts[i].no < msg[s].no
    /\ tx_buffer.of = s => tx_buffer.no < msg[s].no

Mine(s) == {d \in done : d.of = s /\ d.no = msg[s].no}

\* Numbers of messages are those that have begun.
Counted ==
    /\ \A d \in done : d.no <= msg[d.of].no
    /\ \A i \in 1 .. Len(parts) : parts[i].no <= msg[parts[i].of].no
    /\ tx_buffer.of \in Users => tx_buffer.no <= msg[tx_buffer.of].no

\* What has arrived of the message a sender is at ...
ArrivedWhole(s) ==
    /\ At(s, "lock") \/ (lock = <<s>> /\ s \notin users) => Fresh(s)
    /\ lock = <<s>> /\ users \cap Partials = {} =>
          Mine(s) = IF msg[s].ok /\ ~Loops(s)
                    THEN {[of |-> s, no |-> msg[s].no, len |-> msg[s].len]} ELSE {}

\* ... and of a message in parts.
ArrivedInParts(p) ==
    users \subseteq {p} /\ (todo[p] # <<>> \/ Underway(p)) =>
       Mine(p) = IF msg[p].ok /\ msg[p].fin /\ ~Loops(p)
                 THEN {[of |-> p, no |-> msg[p].no, len |-> msg[p].len]} ELSE {}

Arrivals ==
    /\ Counted
    /\ \A s \in Senders : ArrivedWhole(s)
    /\ \A p \in Partials : ArrivedInParts(p)

\* The inductive invariant.
SendInv == Types /\ Events /\ Errors /\ Locked /\ Sending /\ Whole /\ Alone /\ Arrivals

-----------------------------------------------------------------------------
(* Sequences of steps.                                                     *)

\* A call's steps in front of those that are left.
LEMMA Splice ==
    ASSUME NEW S, NEW t \in Seq(S), t # <<>>, NEW call \in Seq(S)
    PROVE  /\ call \o Tail(t) \in Seq(S)
           /\ Len(call \o Tail(t)) = Len(call) + Len(t) - 1
           /\ \A i \in 1 .. Len(call) : (call \o Tail(t))[i] = call[i]
           /\ \A i \in Len(call) + 1 .. Len(call) + Len(t) - 1 :
                 (call \o Tail(t))[i] = t[i - Len(call) + 1]
<1>1. /\ Tail(t) \in Seq(S) /\ Len(Tail(t)) = Len(t) - 1 /\ Len(t) \in Nat /\ Len(t) > 0
      /\ \A i \in 1 .. Len(t) - 1 : Tail(t)[i] = t[i + 1]
    BY HeadTailProperties, EmptySeq, LenProperties
<1>2. Len(call) \in Nat
    BY LenProperties
<1>3. /\ call \o Tail(t) \in Seq(S)
      /\ Len(call \o Tail(t)) = Len(call) + Len(Tail(t))
      /\ \A i \in 1 .. Len(call) + Len(Tail(t)) :
            (call \o Tail(t))[i] = IF i <= Len(call) THEN call[i] ELSE Tail(t)[i - Len(call)]
    BY <1>1, ConcatProperties
<1>4. ASSUME NEW i \in Len(call) + 1 .. Len(call) + Len(t) - 1
      PROVE  (call \o Tail(t))[i] = t[i - Len(call) + 1]
    <2>1. i - Len(call) \in 1 .. Len(t) - 1 /\ ~(i <= Len(call)) /\ i \in 1 .. Len(call) + Len(Tail(t))
        BY <1>1, <1>2
    <2>2. (call \o Tail(t))[i] = Tail(t)[i - Len(call)]
        BY <2>1, <1>3
    <2> QED
        BY <2>1, <2>2, <1>1
<1>5. ASSUME NEW i \in 1 .. Len(call)
      PROVE  (call \o Tail(t))[i] = call[i]
    <2>1. i <= Len(call) /\ i \in 1 .. Len(call) + Len(Tail(t))
        BY <1>1, <1>2
    <2> QED
        BY <2>1, <1>3
<1> QED
    BY <1>1, <1>3, <1>4, <1>5

\* What a call may put in front of a thread's steps.
Calls ==
    { <<>>, <<"handle">>, <<"free">>, <<"malloc">>, <<"print">>, <<"copy">>, <<"raw">>,
      <<"lost">>, Dispatch, <<"error", "abort">> }

LEMMA CallsAre ==
    ASSUME NEW call \in Calls, NEW th
    PROVE  /\ call \in Seq(Reports \cup {"copy", "raw"})
           /\ Len(call) \in {0, 1, 2}
           /\ Len(call) = 0 => call = <<>>
           /\ Len(call) = 1 => /\ call = <<call[1]>>
                               /\ call[1] \in {"handle", "free", "malloc", "print", "lost", "copy", "raw"}
           /\ Len(call) = 2 => \/ call[1] = "post" /\ call[2] = "run"
                               \/ call[1] = "error" /\ call[2] = "abort"
<1>1. CASE call = <<>>
    BY <1>1
<1>2. ASSUME NEW x \in {"handle", "free", "malloc", "print", "lost", "copy", "raw"}, call = <<x>>
      PROVE  /\ call \in Seq(Reports \cup {"copy", "raw"})
             /\ Len(call) = 1 /\ call[1] = x /\ call = <<call[1]>>
    <2>1. x \in Reports \cup {"copy", "raw"}
        BY DEF Reports
    <2> QED
        BY <2>1, <1>2
<1>3. CASE call = Dispatch
    BY <1>3 DEF Dispatch, Reports
<1>4. CASE call = <<"error", "abort">>
    BY <1>4 DEF Reports
<1>5. \/ call = <<>> \/ call = Dispatch \/ call = <<"error", "abort">>
      \/ \E x \in {"handle", "free", "malloc", "print", "lost", "copy", "raw"} : call = <<x>>
    BY DEF Calls
<1> QED
    BY <1>1, <1>2, <1>3, <1>4, <1>5

LEMMA OrderedKept ==
    ASSUME NEW th, NEW t, Ordered(th, t), t # <<>>, t[1] \notin Ends(th),
           NEW call \in Calls, t[1] = "post" => Len(call) = 0,
           Len(call) = 1 /\ call[1] \in {"copy", "raw"} => t[1] \in {"copy", "raw"}
    PROVE  Ordered(th, call \o Tail(t))
<1> DEFINE u == call \o Tail(t)
<1>1. t \in Seq(Steps(th)) /\ Len(t) \in Nat /\ Len(t) > 0
    BY EmptySeq, LenProperties DEF Ordered
<1>2. call \in Seq(Steps(th))
    <2>1. call \in Seq(Reports \cup {"copy", "raw"}) /\ Len(call) \in Nat
        BY CallsAre, LenProperties
    <2>2. ASSUME NEW i \in 1 .. Len(call)
          PROVE  call[i] \in Steps(th)
        <3>1. call[i] \in Reports \cup {"copy", "raw"}
            BY <2>1, <2>2, ElementOfSeq
        <3>2. CASE call[i] \in {"copy", "raw"}
            <4>1. Len(call) = 1 /\ i = 1
                BY <3>2, CallsAre, <2>2
            <4>2. t[1] \in {"copy", "raw"} /\ t[1] \in Steps(th)
                BY <4>1, <3>2, <1>1, ElementOfSeq
            <4>3. "copy" \in Steps(th) /\ "raw" \in Steps(th)
                BY <4>2 DEF Steps, Reports
            <4> QED
                BY <4>3, <3>2
        <3> QED
            BY <3>1, <3>2 DEF Steps
    <2> QED
        BY <2>1, <2>2, SeqDef
<1>3. /\ u \in Seq(Steps(th))
      /\ Len(u) = Len(call) + Len(t) - 1
      /\ \A i \in 1 .. Len(call) : u[i] = call[i]
      /\ \A i \in Len(call) + 1 .. Len(call) + Len(t) - 1 : u[i] = t[i - Len(call) + 1]
    BY <1>1, <1>2, Splice
<1>4. /\ Len(call) \in {0, 1, 2}
      /\ Len(call) = 1 => call[1] \in {"handle", "free", "malloc", "print", "lost", "copy", "raw"}
      /\ Len(call) = 2 => \/ call[1] = "post" /\ call[2] = "run"
                          \/ call[1] = "error" /\ call[2] = "abort"
    BY CallsAre
<1>5. Len(t) > 1
    <2>1. 1 \in 1 .. Len(t)
        BY <1>1
    <2>2. t[1] \in Ends(th) <=> 1 = Len(t)
        BY <2>1 DEF Ordered
    <2>3. Len(t) # 1
        BY <2>2
    <2>4. \A n \in Nat : n > 0 /\ n # 1 => n > 1
        OBVIOUS
    <2> QED
        BY <2>3, <2>4, <1>1
<1> HIDE DEF u
<1>6. /\ Ends(th) \subseteq {"turn", "lock", "unlock", "return"}
      /\ "run" \notin Firsts /\ "abort" \notin Firsts /\ "post" \notin Firsts
    BY DEF Ends, Firsts
<1>7. ASSUME NEW i \in 1 .. Len(u)
      PROVE  /\ u[i] \in Firsts => i = 1
             /\ u[i] \in Ends(th) <=> i = Len(u)
             /\ u[i] = "post" => i < Len(u) /\ u[i + 1] = "run"
             /\ u[i] = "run" => i = 1 \/ u[i - 1] = "post"
             /\ u[i] = "connect" => i < Len(u) /\ u[i + 1] = "unlock"
             /\ u[i] \in {"copy", "raw"} => Len(u) = 2
             /\ u[i] = "lock" => Len(u) = 1
    <2>1. CASE i <= Len(call)
        <3>1. i \in 1 .. Len(call) /\ u[i] = call[i]
            BY <2>1, <1>3, <1>4
        <3>2. i < Len(u)
            BY <3>1, <1>5, <1>3, <1>4, <1>1
        <3>3. CASE Len(call) = 1
            <4>1. i = 1 /\ u[i] = call[1]
                BY <3>1, <3>3
            <4>2. u[i] \in {"copy", "raw"} => Len(t) = 2
                <5>1. u[i] \in {"copy", "raw"} => t[1] \in {"copy", "raw"}
                    BY <4>1, <3>3
                <5> QED
                    BY <5>1, <1>1 DEF Ordered
            <4> QED
                BY <4>1, <4>2, <3>2, <1>4, <1>3, <3>3, <1>6, <1>1
        <3>4. CASE Len(call) = 2
            <4>1. u[1] = call[1] /\ u[2] = call[2] /\ i \in {1, 2}
                BY <3>4, <1>3, <3>1
            <4> QED
                BY <4>1, <3>2, <1>4, <3>4, <1>6
        <3> QED
            BY <3>3, <3>4, <3>1, <1>4
    <2>2. CASE ~(i <= Len(call))
        <3> DEFINE j == i - Len(call) + 1
        <3>1. i \in Len(call) + 1 .. Len(call) + Len(t) - 1 /\ j \in 2 .. Len(t) /\ j \in 1 .. Len(t)
            BY <2>2, <1>3, <1>4, <1>1
        <3>2. u[i] = t[j]
            BY <3>1, <1>3
        <3>3. /\ t[j] \in Firsts => j = 1
              /\ t[j] \in Ends(th) <=> j = Len(t)
              /\ t[j] = "post" => j < Len(t) /\ t[j + 1] = "run"
              /\ t[j] = "run" => j = 1 \/ t[j - 1] = "post"
              /\ t[j] = "connect" => j < Len(t) /\ t[j + 1] = "unlock"
              /\ t[j] \in {"copy", "raw"} => Len(t) = 2
              /\ t[j] = "lock" => Len(t) = 1
            BY <3>1 DEF Ordered
        <3>4. ASSUME j < Len(t)
              PROVE  i < Len(u) /\ u[i + 1] = t[j + 1]
            <4>1. i + 1 \in Len(call) + 1 .. Len(call) + Len(t) - 1 /\ (i + 1) - Len(call) + 1 = j + 1
                BY <3>4, <3>1, <1>4, <1>1
            <4> QED
                BY <4>1, <1>3
        <3>5. t[j] = "run" => i = 1 \/ u[i - 1] = "post"
            <4> SUFFICES ASSUME t[j] = "run", i # 1
                         PROVE  u[i - 1] = "post"
                OBVIOUS
            <4>1. t[j - 1] = "post"
                BY <3>3, <3>1
            <4>2. CASE i - 1 \in Len(call) + 1 .. Len(call) + Len(t) - 1
                <5>1. (i - 1) - Len(call) + 1 = j - 1
                    BY <1>4
                <5> QED
                    BY <4>1, <4>2, <5>1, <1>3
            <4>3. CASE i - 1 \notin Len(call) + 1 .. Len(call) + Len(t) - 1
                <5>1. j = 2
                    BY <4>3, <3>1, <1>4, <1>1
                <5>2. t[1] = "post"
                    BY <5>1, <4>1
                <5>3. Len(call) = 0
                    BY <5>2
                <5> QED
                    BY <5>1, <5>3, <3>1
            <4> QED
                BY <4>2, <4>3
        <3>6. i = Len(u) <=> j = Len(t)
            BY <1>3, <1>4, <1>1
        <3>7. ~(t[j] \in Firsts) /\ t[j] # "lock" /\ ~(t[j] \in {"copy", "raw"})
            BY <3>3, <3>1, <1>5 DEF Firsts
        <3> HIDE DEF j
        <3> QED
            BY <3>2, <3>3, <3>4, <3>5, <3>6, <3>7
    <2> QED
        BY <2>1, <2>2
<1>8. ASSUME NEW i \in 1 .. Len(u), NEW k \in 1 .. Len(u), u[i] = "unlock", u[k] = "unlock"
      PROVE  i = k
    <2>1. ASSUME NEW n \in 1 .. Len(u), u[n] = "unlock"
          PROVE  n - Len(call) + 1 \in 1 .. Len(t) /\ t[n - Len(call) + 1] = "unlock"
        <3>1. ~(n <= Len(call))
            <4> SUFFICES ASSUME n <= Len(call)
                         PROVE  FALSE
                OBVIOUS
            <4>1. n \in 1 .. Len(call) /\ u[n] = call[n]
                BY <1>3, <1>4
            <4>2. call[n] # "unlock"
                BY <4>1, <1>4
            <4> QED
                BY <4>1, <4>2, <2>1
        <3>2. n \in Len(call) + 1 .. Len(call) + Len(t) - 1 /\ n - Len(call) + 1 \in 1 .. Len(t)
            BY <3>1, <1>3, <1>4, <1>1
        <3> QED
            BY <3>2, <1>3, <2>1
    <2>2. i - Len(call) + 1 = k - Len(call) + 1
        BY <2>1, <1>8 DEF Ordered
    <2> QED
        BY <2>2, <1>4, <1>1
<1>9. Ordered(th, u)
    BY <1>3, <1>7, <1>8 DEF Ordered
<1> QED
    BY <1>9 DEF u

\* A thread's steps change, those of the others stay.
LEMMA Changed ==
    ASSUME Types, NEW th \in Threads, NEW t, Ordered(th, t), todo' = [todo EXCEPT ![th] = t]
    PROVE  /\ DOMAIN todo' = Threads /\ todo'[th] = t
           /\ \A other \in Threads : other # th => todo'[other] = todo[other]
           /\ \A other \in Threads : Ordered(other, todo'[other])
<1>1. DOMAIN todo = Threads /\ \A other \in Threads : Ordered(other, todo[other])
    BY DEF Types
<1> QED
    BY <1>1

\* The steps of a thread that does its last one are those of the call.
LEMMA LastStep ==
    ASSUME Types, NEW th \in Threads, NEW step \in Ends(th), NEW call, NEW S, call \in Seq(S),
           Do(th, step, call)
    PROVE  /\ todo[th] # <<>> /\ Head(todo[th]) = step
           /\ Len(todo[th]) = 1 /\ todo[th][1] = step
           /\ todo' = [todo EXCEPT ![th] = call]
<1> DEFINE t == todo[th]
<1>1. Ordered(th, t)
    BY DEF Types
<1>2. t # <<>> /\ Head(t) = step /\ todo' = [todo EXCEPT ![th] = call \o Tail(t)]
    BY DEF Do, At
<1>3. t \in Seq(Steps(th)) /\ Len(t) \in Nat /\ Len(t) > 0
    BY <1>1, <1>2, EmptySeq, LenProperties DEF Ordered
<1>4. t[1] = step /\ 1 \in 1 .. Len(t)
    BY <1>2, <1>3, HeadTailProperties
<1>5. Len(t) = 1
    <2> HIDE DEF t
    <2>1. t[1] \in Ends(th) <=> 1 = Len(t)
        BY <1>1, <1>4 DEF Ordered
    <2>2. t[1] \in Ends(th)
        BY <1>4
    <2>3. 1 = Len(t)
        BY <2>1, <2>2, Zenon
    <2> QED
        BY <2>3
<1>6. Tail(t) = <<>>
    <2>1. t \in Seq(Steps(th)) /\ t # <<>>
        BY <1>2, <1>3
    <2> HIDE DEF t
    <2>2. Tail(t) \in Seq(Steps(th)) /\ Len(Tail(t)) = Len(t) - 1
        BY <2>1, HeadTailProperties
    <2>3. Len(Tail(t)) = 0
        BY <2>2, <1>5
    <2> QED
        BY <2>2, <2>3, EmptySeq
<1>7. call \o <<>> = call
    BY ConcatEmptySeq
<1> QED
    BY <1>2, <1>4, <1>5, <1>6, <1>7

\* A step that is not the last puts a call's steps in front.
LEMMA Effect ==
    ASSUME Types, NEW th \in Threads, NEW step, step \notin Ends(th),
           NEW call \in Calls, Do(th, step, call), step = "post" => Len(call) = 0,
           Len(call) = 1 /\ call[1] \in {"copy", "raw"} => step \in {"copy", "raw"}
    PROVE  /\ DOMAIN todo' = Threads
           /\ \A other \in Threads : Ordered(other, todo'[other])
           /\ \A other \in Threads : other # th => todo'[other] = todo[other]
           /\ todo[th] # <<>> /\ Head(todo[th]) = step
           /\ todo'[th] # <<>>
           /\ Len(call) > 0 => Head(todo'[th]) = call[1]
           /\ Len(call) = 0 => /\ Head(todo'[th]) \notin Firsts
                               /\ Head(todo'[th]) # "lock"
                               /\ Head(todo'[th]) = "run" <=> step = "post"
           /\ Has(th, "unlock")' <=> Has(th, "unlock") /\ step # "unlock"
           /\ Has(th, "abort")' => Has(th, "abort") \/ (Len(call) > 0 /\ call[1] = "error")
           /\ Has(th, "abort") /\ step # "abort" => Has(th, "abort")'
           /\ Len(call) > 0 /\ call[1] = "error" => Has(th, "abort")'
<1> DEFINE t == todo[th]
           u == call \o Tail(t)
<1>1. Ordered(th, t) /\ DOMAIN todo = Threads
    BY DEF Types
<1>2. t # <<>> /\ Head(t) = step /\ todo' = [todo EXCEPT ![th] = u]
    BY DEF Do, At
<1>3. t \in Seq(Steps(th)) /\ Len(t) \in Nat /\ Len(t) > 0
    BY <1>1, <1>2, EmptySeq, LenProperties DEF Ordered
<1>4. t[1] = step /\ 1 \in 1 .. Len(t)
    BY <1>2, <1>3, HeadTailProperties
<1>5. Ordered(th, u)
    BY <1>1, <1>2, <1>4, OrderedKept
<1>6. /\ DOMAIN todo' = Threads /\ todo'[th] = u
      /\ \A other \in Threads : other # th => todo'[other] = todo[other]
      /\ \A other \in Threads : Ordered(other, todo'[other])
    BY <1>2, <1>5, Changed
<1>7. /\ call \in Seq(Reports \cup {"copy", "raw"})
      /\ Len(call) \in {0, 1, 2}
      /\ Len(call) = 1 => call[1] \in {"handle", "free", "malloc", "print", "lost", "copy", "raw"}
      /\ Len(call) = 2 => \/ call[1] = "post" /\ call[2] = "run"
                          \/ call[1] = "error" /\ call[2] = "abort"
    BY CallsAre
<1>8. Len(t) > 1
    <2>1. Len(t) # 1
        BY <1>1, <1>4 DEF Ordered
    <2>2. \A n \in Nat : n > 0 /\ n # 1 => n > 1
        OBVIOUS
    <2> QED
        BY <2>1, <2>2, <1>3
<1>9. /\ Len(u) = Len(call) + Len(t) - 1
      /\ \A i \in 1 .. Len(call) : u[i] = call[i]
      /\ \A i \in Len(call) + 1 .. Len(call) + Len(t) - 1 : u[i] = t[i - Len(call) + 1]
    <2> DEFINE S == Steps(th) \cup (Reports \cup {"copy", "raw"})
    <2>1. t \in Seq(S) /\ call \in Seq(S)
        <3> HIDE DEF t
        <3> QED
            BY <1>3, <1>7, SeqMonotonic
    <2> HIDE DEF S, t
    <2> QED
        BY <2>1, <1>2, Splice
<1> HIDE DEF t, u
<1>10. u \in Seq(Steps(th)) /\ u # <<>> /\ Head(u) = u[1] /\ Len(u) > 0
    <2>1. Len(u) > 0 /\ u \in Seq(Steps(th))
        BY <1>9, <1>8, <1>7, <1>3, <1>5 DEF Ordered
    <2> QED
        BY <2>1, HeadTailProperties, EmptySeq
<1>11. Len(call) > 0 => Head(u) = call[1]
    BY <1>10, <1>9, <1>7
<1>12. Len(call) = 0 => Head(u) = t[2]
    <2> SUFFICES ASSUME Len(call) = 0
                 PROVE  u[1] = t[2]
        BY <1>10
    <2>1. 1 \in Len(call) + 1 .. Len(call) + Len(t) - 1
        BY <1>8, <1>3
    <2>2. u[1] = t[1 - Len(call) + 1]
        BY <2>1, <1>9
    <2> QED
        BY <2>2
<1>13. /\ t[2] \notin Firsts
       /\ t[2] # "lock"
       /\ t[2] = "run" <=> step = "post"
    <2>1. 2 \in 1 .. Len(t) /\ 1 < Len(t) /\ 2 - 1 = 1 /\ 1 + 1 = 2
        BY <1>8, <1>3
    <2>2. t[2] \notin Firsts
        BY <2>1, <1>1 DEF Ordered
    <2>3. t[2] = "run" => t[1] = "post"
        BY <2>1, <1>1 DEF Ordered
    <2>4. t[1] = "post" => t[2] = "run"
        BY <2>1, <1>4, <1>1 DEF Ordered
    <2>5. t[2] = "lock" => Len(t) = 1
        BY <2>1, <1>1 DEF Ordered
    <2>6. t[2] # "lock"
        <3>1. Len(t) # 1
            <4>1. \A n \in Nat : n > 1 => n # 1
                OBVIOUS
            <4> QED
                BY <4>1, <1>8, <1>3
        <3> QED
            BY <2>5, <3>1
    <2> QED
        BY <2>2, <2>3, <2>4, <2>6, <1>4
<1>14. ASSUME NEW x, x # step, NEW i \in 1 .. Len(t), t[i] = x
       PROVE  \E j \in 1 .. Len(u) : u[j] = x
    <2>1. i # 1
        BY <1>14, <1>4
    <2>2. i - 1 + Len(call) \in Len(call) + 1 .. Len(call) + Len(t) - 1
        BY <2>1, <1>3, <1>7
    <2>3. u[i - 1 + Len(call)] = t[(i - 1 + Len(call)) - Len(call) + 1]
        BY <2>2, <1>9
    <2>4. (i - 1 + Len(call)) - Len(call) + 1 = i /\ i - 1 + Len(call) \in 1 .. Len(u)
        BY <2>2, <1>9, <1>3, <1>7
    <2> QED
        BY <2>3, <2>4, <1>14
<1>15. ASSUME NEW j \in 1 .. Len(u)
       PROVE  \/ j \in 1 .. Len(call) /\ u[j] = call[j]
              \/ \E i \in 2 .. Len(t) : u[j] = t[i]
    <2>1. CASE j <= Len(call)
        BY <2>1, <1>7, <1>9
    <2>2. CASE ~(j <= Len(call))
        <3>1. j \in Len(call) + 1 .. Len(call) + Len(t) - 1 /\ j - Len(call) + 1 \in 2 .. Len(t)
            BY <2>2, <1>9, <1>3, <1>7
        <3> QED
            BY <3>1, <1>9
    <2> QED
        BY <2>1, <2>2
<1>15a. ASSUME NEW j \in 1 .. Len(call)
       PROVE  /\ call[j] # "unlock"
              /\ call[j] = "abort" => Len(call) > 0 /\ call[1] = "error"
    <2>1. CASE Len(call) = 1
        <3>1. j = 1
            BY <2>1
        <3> QED
            BY <3>1, <2>1, <1>7
    <2>2. CASE Len(call) = 2
        <3>1. j = 1 \/ j = 2
            BY <2>2
        <3> QED
            BY <3>1, <2>2, <1>7
    <2> QED
        BY <2>1, <2>2, <1>7
<1>16. (\E j \in 1 .. Len(u) : u[j] = "unlock") <=> (\E i \in 1 .. Len(t) : t[i] = "unlock") /\ step # "unlock"
    <2>1. ASSUME NEW j \in 1 .. Len(u), u[j] = "unlock"
          PROVE  (\E i \in 1 .. Len(t) : t[i] = "unlock") /\ step # "unlock"
        <3>1. PICK i \in 2 .. Len(t) : t[i] = "unlock"
            <4>1. ASSUME j \in 1 .. Len(call), u[j] = call[j]
                  PROVE  FALSE
                BY <4>1, <2>1, <1>15a
            <4> QED
                BY <4>1, <1>15, <2>1
        <3>2. i \in 1 .. Len(t) /\ i # 1
            BY <1>3
        <3>3. t[1] # "unlock"
            BY <3>1, <3>2, <1>4, <1>1 DEF Ordered
        <3> QED
            BY <3>1, <3>2, <3>3, <1>4
    <2> QED
        BY <2>1, <1>14
<1>17. (\E j \in 1 .. Len(u) : u[j] = "abort")
        => (\E i \in 1 .. Len(t) : t[i] = "abort") \/ (Len(call) > 0 /\ call[1] = "error")
    <2>1. ASSUME NEW j \in 1 .. Len(u), u[j] = "abort"
          PROVE  (\E i \in 1 .. Len(t) : t[i] = "abort") \/ (Len(call) > 0 /\ call[1] = "error")
        <3>1. ASSUME j \in 1 .. Len(call), u[j] = call[j]
              PROVE  Len(call) > 0 /\ call[1] = "error"
            BY <3>1, <2>1, <1>15a
        <3>2. \A i \in 2 .. Len(t) : i \in 1 .. Len(t)
            BY <1>3
        <3> QED
            BY <3>1, <3>2, <1>15, <2>1
    <2> QED
        BY <2>1
<1>18. Len(call) > 0 /\ call[1] = "error" => \E j \in 1 .. Len(u) : u[j] = "abort"
    <2> SUFFICES ASSUME Len(call) > 0, call[1] = "error"
                 PROVE  \E j \in 1 .. Len(u) : u[j] = "abort"
        OBVIOUS
    <2>1. Len(call) = 2 /\ call[2] = "abort"
        BY <1>7
    <2>2. 2 \in 1 .. Len(call) /\ 2 \in 1 .. Len(u)
        BY <2>1, <1>8, <1>9, <1>3
    <2> QED
        BY <2>1, <2>2, <1>9
<1>19. (\E i \in 1 .. Len(t) : t[i] = "abort") /\ step # "abort" => \E j \in 1 .. Len(u) : u[j] = "abort"
    BY <1>14
<1>20. /\ Has(th, "unlock") <=> \E i \in 1 .. Len(t) : t[i] = "unlock"
       /\ Has(th, "abort") <=> \E i \in 1 .. Len(t) : t[i] = "abort"
       /\ Has(th, "unlock")' <=> \E i \in 1 .. Len(u) : u[i] = "unlock"
       /\ Has(th, "abort")' <=> \E i \in 1 .. Len(u) : u[i] = "abort"
    <2>1. todo'[th] = u /\ todo[th] = t
        BY <1>6 DEF t
    <2> QED
        BY <2>1 DEF Has
<1>21. todo[th] = t
    BY DEF t
<1>22. /\ DOMAIN todo' = Threads
       /\ \A other \in Threads : Ordered(other, todo'[other])
       /\ \A other \in Threads : other # th => todo'[other] = todo[other]
       /\ todo[th] # <<>> /\ Head(todo[th]) = step
       /\ todo'[th] # <<>>
    BY <1>2, <1>6, <1>10, <1>21
<1>23. /\ Len(call) > 0 => Head(todo'[th]) = call[1]
       /\ Len(call) = 0 => /\ Head(todo'[th]) \notin Firsts
                           /\ Head(todo'[th]) # "lock"
                           /\ Head(todo'[th]) = "run" <=> step = "post"
    BY <1>6, <1>11, <1>12, <1>13
<1> QED
    BY <1>22, <1>23, <1>16, <1>17, <1>18, <1>19, <1>20

\* What a thread's next step says of the others it has before it.
LEMMA Shape ==
    ASSUME Types, NEW th \in Threads
    PROVE  /\ todo[th] = <<>> => th # Task /\ ~Has(th, "unlock") /\ ~Has(th, "abort")
           /\ Loops(th) => th \in Users /\ ~Has(th, "abort")
           /\ At(th, "lock") => th \in Senders /\ ~Has(th, "unlock") /\ ~Has(th, "abort")
           /\ At(th, "turn") => th = Task /\ ~Has(th, "unlock") /\ ~Has(th, "abort")
           /\ At(th, "return") => th \in Partials /\ ~Has(th, "abort")
           /\ At(th, "connect") => th = Task /\ Has(th, "unlock")
           /\ At(th, "poll") => th = Task
           /\ At(th, "unlock") => Has(th, "unlock")
           /\ At(th, "abort") => Has(th, "abort")
           /\ Has(th, "unlock") => th \notin Partials
           /\ At(th, "unlock") /\ th \in Senders => ~Has(th, "abort")
           /\ th \in Senders /\ todo[th] # <<>> /\ ~At(th, "lock") => Has(th, "unlock")
<1> DEFINE t == todo[th]
<1>1. Ordered(th, t) /\ (th = Task => t # <<>>)
    BY DEF Types
<1>2. /\ th \in Senders => th # Task /\ th \notin Partials
      /\ th \in Partials => th # Task /\ th \notin Senders
      /\ th = Task \/ th \in Senders \/ th \in Partials
    BY SendAssumption
<1>3. todo[th] = t
    BY DEF t
<1> HIDE DEF t
<1>4. t \in Seq(Steps(th)) /\ Len(t) \in Nat /\ (\A i \in 1 .. Len(t) : t[i] \in Steps(th))
    BY <1>1, LenProperties, ElementOfSeq DEF Ordered
<1>5. CASE t = <<>>
    <2>1. Len(t) = 0
        BY <1>5, <1>4, EmptySeq
    <2> QED
        BY <2>1, <1>1, <1>3, <1>5 DEF Has, At, Loops
<1>6. CASE t # <<>>
    <2>1. Len(t) > 0 /\ 1 \in 1 .. Len(t) /\ Len(t) \in 1 .. Len(t)
        BY <1>4, <1>6, EmptySeq
    <2>2. Head(t) = t[1]
        BY <1>4, <1>6, HeadTailProperties
    <2>3. \A step : At(th, step) <=> t[1] = step
        BY <2>2, <1>3, <1>6 DEF At
    <2>4. \A step : Has(th, step) <=> \E i \in 1 .. Len(t) : t[i] = step
        BY <1>3 DEF Has
    <2>5. t[1] \in {"turn", "connect", "poll"} => th = Task
        BY <1>4, <2>1 DEF Steps, Reports
    <2>6. t[1] \in {"copy", "raw"} => th # Task
        BY <1>4, <2>1 DEF Steps, Reports
    <2>7. t[1] = "lock" => th \in Senders
        BY <1>4, <2>1 DEF Steps, Reports
    <2>8. t[1] = "return" => th \in Partials
        BY <1>2, <1>4, <2>1 DEF Steps, Reports
    <2>9. \A i \in 1 .. Len(t) : t[i] = "unlock" => th \notin Partials
        BY <1>2, <1>4 DEF Steps, Reports
    <2>10. t[Len(t)] \in Ends(th)
        BY <1>1, <2>1 DEF Ordered
    <2>11. t[1] \in {"copy", "raw"} => ~Has(th, "abort")
        <3> SUFFICES ASSUME t[1] \in {"copy", "raw"}, NEW i \in 1 .. Len(t), t[i] = "abort"
                     PROVE  FALSE
            BY <2>4
        <3>1. Len(t) = 2
            BY <1>1, <2>1 DEF Ordered
        <3>2. i = 2
            BY <3>1
        <3>3. "abort" \notin Ends(th)
            BY DEF Ends
        <3> QED
            BY <3>1, <3>2, <3>3, <2>10
    <2>12. ASSUME t[1] \in Ends(th)
           PROVE  ~Has(th, "abort") /\ (t[1] # "unlock" => ~Has(th, "unlock"))
        <3>1. Len(t) = 1
            <4>1. t[1] \in Ends(th) <=> 1 = Len(t)
                BY <1>1, <2>1 DEF Ordered
            <4>2. 1 = Len(t)
                BY <4>1, <2>12, Zenon
            <4> QED
                BY <4>2
        <3>2. "abort" \notin Ends(th)
            BY DEF Ends
        <3>3. \A i \in 1 .. Len(t) : i = 1
            BY <3>1
        <3> QED
            BY <3>2, <3>3, <2>4, <2>12
    <2>13. /\ t[1] = "lock" => t[1] \in Ends(th)
           /\ t[1] = "turn" => t[1] \in Ends(th)
           /\ t[1] = "return" => t[1] \in Ends(th)
           /\ t[1] = "unlock" /\ th \in Senders => t[1] \in Ends(th)
        BY <2>5, <2>7, <2>8, <1>2 DEF Ends
    <2>14. t[1] = "connect" => Has(th, "unlock")
        <3> SUFFICES ASSUME t[1] = "connect"
                     PROVE  Has(th, "unlock")
            OBVIOUS
        <3>1. 1 < Len(t) /\ t[1 + 1] = "unlock"
            BY <1>1, <2>1 DEF Ordered
        <3>2. 1 + 1 \in 1 .. Len(t)
            BY <3>1, <1>4
        <3> QED
            BY <3>1, <3>2, <2>4
    <2>15. th \in Senders /\ t[1] # "lock" => Has(th, "unlock")
        <3> SUFFICES ASSUME th \in Senders, t[1] # "lock"
                     PROVE  Has(th, "unlock")
            OBVIOUS
        <3>1. t[Len(t)] \in {"lock", "unlock"}
            BY <2>10, <1>2 DEF Ends
        <3>2. t[Len(t)] # "lock"
            <4>1. t[Len(t)] = "lock" => Len(t) = 1
                BY <1>1, <2>1 DEF Ordered
            <4> QED
                BY <4>1
        <3> QED
            BY <3>1, <3>2, <2>1, <2>4
    <2>16. /\ t[1] = "unlock" => Has(th, "unlock")
           /\ t[1] = "abort" => Has(th, "abort")
           /\ Has(th, "unlock") => th \notin Partials
        BY <2>1, <2>4, <2>9
    <2>17. t[1] \in {"copy", "raw"} => th \in Users
        BY <2>6, <1>2 DEF Users
    <2> QED
        BY <2>3, <2>5, <2>7, <2>8, <2>11, <2>12, <2>13, <2>14, <2>15, <2>16, <2>17, <1>3, <1>6
        DEF Loops
<1> QED
    BY <1>5, <1>6

-----------------------------------------------------------------------------
(* What each action does to the steps of the threads.                      *)

\* A thread is as far as it was with its message and with the lock; and does
\* not come to an abort, or leave it.
Nearly(s) ==
    /\ At(s, "copy")' <=> At(s, "copy")
    /\ At(s, "raw")' <=> At(s, "raw")
    /\ At(s, "lock")' <=> At(s, "lock")
    /\ Has(s, "unlock")' <=> Has(s, "unlock")
    /\ (todo[s] = <<>>)' <=> todo[s] = <<>>

As(s) == Nearly(s) /\ (Has(s, "abort")' <=> Has(s, "abort"))

\* Only its steps change, and they stay in order.
Kept(th) ==
    /\ (DOMAIN todo = Threads)'
    /\ \A other \in Threads : Ordered(other, todo[other])'
    /\ (todo[Task] # <<>>)'
    /\ \A other \in Threads : other # th => (todo[other])' = todo[other]

\* It is no nearer to running the loop, or to the error buffer.
Off(th) ==
    /\ \A step \in {"post", "run", "handle", "free", "malloc", "print"} : ~At(th, step)
    /\ \A step \in {"run", "handle", "free", "malloc", "print"} : ~At(th, step)'

LEMMA KeptOthers ==
    ASSUME NEW th, Kept(th), NEW other \in Threads, other # th
    PROVE  /\ As(other)
           /\ \A step : At(other, step)' <=> At(other, step)
           /\ Loops(other)' <=> Loops(other)
<1>1. (todo[other])' = todo[other]
    BY DEF Kept
<1>2. todo'[other] = todo[other]
    BY <1>1
<1> QED
    BY <1>2 DEF As, Nearly, At, Has, Loops

\* The calls one by one.
LEMMA EachCall ==
    /\ <<>> \in Calls /\ Len(<<>>) = 0
    /\ <<"handle">> \in Calls /\ Len(<<"handle">>) = 1 /\ <<"handle">>[1] = "handle"
    /\ <<"free">> \in Calls /\ Len(<<"free">>) = 1 /\ <<"free">>[1] = "free"
    /\ <<"malloc">> \in Calls /\ Len(<<"malloc">>) = 1 /\ <<"malloc">>[1] = "malloc"
    /\ <<"print">> \in Calls /\ Len(<<"print">>) = 1 /\ <<"print">>[1] = "print"
    /\ <<"copy">> \in Calls /\ Len(<<"copy">>) = 1 /\ <<"copy">>[1] = "copy"
    /\ <<"raw">> \in Calls /\ Len(<<"raw">>) = 1 /\ <<"raw">>[1] = "raw"
    /\ <<"lost">> \in Calls /\ Len(<<"lost">>) = 1 /\ <<"lost">>[1] = "lost"
    /\ Dispatch \in Calls /\ Len(Dispatch) = 2 /\ Dispatch[1] = "post"
    /\ <<"error", "abort">> \in Calls /\ Len(<<"error", "abort">>) = 2
    /\ <<"error", "abort">>[1] = "error"
BY DEF Calls, Dispatch

\* A step in the middle, with nothing of a message, the lock or an abort.
LEMMA Inner ==
    ASSUME Types, NEW th \in Threads, NEW step, step \notin Ends(th),
           NEW call \in Calls, Do(th, step, call), step = "post" => Len(call) = 0,
           Len(call) = 1 => call[1] \in {"handle", "free", "malloc", "print", "lost"}
    PROVE  /\ Kept(th) /\ At(th, step)
           /\ step \notin {"copy", "raw", "lock"} =>
                 /\ At(th, "copy")' <=> At(th, "copy")
                 /\ At(th, "raw")' <=> At(th, "raw")
                 /\ At(th, "lock")' <=> At(th, "lock")
           /\ ~At(th, "copy")' /\ ~At(th, "raw")' /\ ~At(th, "lock")'
           /\ Has(th, "unlock")' <=> Has(th, "unlock") /\ step # "unlock"
           /\ step # "abort" /\ (Len(call) > 0 => call[1] # "error") =>
                 (Has(th, "abort")' <=> Has(th, "abort"))
           /\ Len(call) > 0 => \A x : At(th, x)' <=> x = call[1]
           /\ Len(call) > 0 /\ call[1] = "error" => Has(th, "abort")'
           /\ Len(call) = 0 => /\ \A x \in Firsts : ~At(th, x)'
                               /\ At(th, "run")' <=> step = "post"
           /\ todo[th] # <<>> /\ (todo[th] # <<>>)'
<1>1. /\ DOMAIN todo' = Threads
      /\ \A other \in Threads : Ordered(other, todo'[other])
      /\ \A other \in Threads : other # th => todo'[other] = todo[other]
      /\ todo[th] # <<>> /\ Head(todo[th]) = step
      /\ todo'[th] # <<>>
      /\ Len(call) > 0 => Head(todo'[th]) = call[1]
      /\ Len(call) = 0 => /\ Head(todo'[th]) \notin Firsts
                          /\ Head(todo'[th]) # "lock"
                          /\ Head(todo'[th]) = "run" <=> step = "post"
      /\ Has(th, "unlock")' <=> Has(th, "unlock") /\ step # "unlock"
      /\ Has(th, "abort")' => Has(th, "abort") \/ (Len(call) > 0 /\ call[1] = "error")
      /\ Has(th, "abort") /\ step # "abort" => Has(th, "abort")'
      /\ Len(call) > 0 /\ call[1] = "error" => Has(th, "abort")'
    BY Effect
<1>2. Kept(th)
    <2>1. todo'[Task] # <<>>
        BY <1>1, SendAssumption DEF Types
    <2> QED
        BY <1>1, <2>1 DEF Kept
<1>3. \A x : At(th, x)' <=> Head(todo'[th]) = x
    BY <1>1 DEF At
<1>4. \A x : At(th, x) <=> step = x
    BY <1>1 DEF At
<1>5. /\ Len(call) = 0 \/ Len(call) > 0
      /\ Len(call) > 0 => call[1] \in {"handle", "free", "malloc", "print", "lost", "post", "error"}
    BY CallsAre
<1>6. Head(todo'[th]) # "copy" /\ Head(todo'[th]) # "raw" /\ Head(todo'[th]) # "lock"
    <2>1. Head(todo'[th]) # "copy" /\ Head(todo'[th]) # "raw"
        BY <1>1, <1>5 DEF Firsts
    <2>2. Head(todo'[th]) # "lock"
        BY <1>1, <1>5
    <2> QED
        BY <2>1, <2>2
<1> QED
    BY <1>1, <1>2, <1>3, <1>4, <1>5, <1>6

\* A step of a report.
LEMMA InnerAs ==
    ASSUME Types, NEW th \in Threads, NEW step, step \notin Ends(th),
           step \notin {"copy", "raw", "lock", "unlock", "abort"},
           NEW call \in Calls, Do(th, step, call), step = "post" => Len(call) = 0,
           Len(call) = 1 => call[1] \in {"handle", "free", "malloc", "print"},
           Len(call) > 0 => call[1] # "error"
    PROVE  /\ Kept(th) /\ As(th) /\ At(th, step)
           /\ Len(call) > 0 => \A x : At(th, x)' <=> x = call[1]
           /\ Len(call) = 0 => /\ \A x \in Firsts : ~At(th, x)'
                               /\ At(th, "run")' <=> step = "post"
<1>1. /\ Kept(th) /\ At(th, step)
      /\ step \notin {"copy", "raw", "lock"} =>
            /\ At(th, "copy")' <=> At(th, "copy")
            /\ At(th, "raw")' <=> At(th, "raw")
            /\ At(th, "lock")' <=> At(th, "lock")
      /\ Has(th, "unlock")' <=> Has(th, "unlock") /\ step # "unlock"
      /\ step # "abort" /\ (Len(call) > 0 => call[1] # "error") =>
            (Has(th, "abort")' <=> Has(th, "abort"))
      /\ Len(call) > 0 => \A x : At(th, x)' <=> x = call[1]
      /\ Len(call) = 0 => /\ \A x \in Firsts : ~At(th, x)'
                          /\ At(th, "run")' <=> step = "post"
      /\ todo[th] # <<>> /\ (todo[th] # <<>>)'
    BY Inner
<1>2. (todo[th] = <<>>)' <=> todo[th] = <<>>
    BY <1>1
<1>3. As(th)
    BY <1>1, <1>2 DEF As, Nearly
<1> QED
    BY <1>1, <1>3

\* The steps of a report, one by one.
LEMMA ReportTodo ==
    ASSUME Types, NEW th \in Threads
    PROVE  /\ Post(th) => Kept(th) /\ As(th) /\ At(th, "post") /\ At(th, "run")'
                          /\ \A x \in Firsts : ~At(th, x)'
           /\ RunTake(th) => Kept(th) /\ As(th) /\ At(th, "run")
                             /\ \A x : At(th, x)' <=> x = "handle"
           /\ RunNothing(th) => Kept(th) /\ As(th) /\ At(th, "run") /\ ~At(th, "run")'
                                /\ \A x \in Firsts : ~At(th, x)'
           /\ Handle(th) => Kept(th) /\ As(th) /\ At(th, "handle") /\ ~At(th, "run")'
                            /\ \A x \in Firsts : ~At(th, x)'
           /\ Error(th) => Kept(th) /\ As(th) /\ At(th, "error")
                           /\ \E n \in limits.sizes :
                                 /\ needed_size' = [needed_size EXCEPT ![th] = n]
                                 /\ \/ n > errormsg_size /\ \A x : At(th, x)' <=> x = "free"
                                    \/ ~(n > errormsg_size) /\ \A x : At(th, x)' <=> x = "print"
           /\ ErrorFree(th) => Kept(th) /\ As(th) /\ At(th, "free")
                               /\ \A x : At(th, x)' <=> x = "malloc"
           /\ ErrorMalloc(th) => Kept(th) /\ As(th) /\ At(th, "malloc")
                                 /\ \A x : At(th, x)' <=> x = "print"
           /\ ErrorMallocFailed(th) => Kept(th) /\ As(th) /\ At(th, "malloc") /\ ~At(th, "run")'
                                       /\ \A x \in Firsts : ~At(th, x)'
           /\ ErrorPrint(th) => Kept(th) /\ As(th) /\ At(th, "print")
                                /\ \A x : At(th, x)' <=> x = "post"
<1>1. \A x \in {"post", "run", "handle", "error", "free", "malloc", "print"} :
         x \notin Ends(th) /\ x \notin {"copy", "raw", "lock", "unlock", "abort"}
    BY DEF Ends
<1>2. ASSUME NEW step \in {"post", "run", "handle", "malloc"}, Do(th, step, <<>>)
      PROVE  /\ Kept(th) /\ As(th) /\ At(th, step)
             /\ \A x \in Firsts : ~At(th, x)'
             /\ At(th, "run")' <=> step = "post"
    <2> DEFINE call == <<>>
    <2>1. call \in Calls /\ Len(call) = 0
        BY EachCall
    <2>2. Do(th, step, call)
        BY <1>2
    <2> HIDE DEF call
    <2> QED
        BY <1>1, <2>1, <2>2, InnerAs
<1>3. ASSUME NEW step \in {"run", "handle", "error", "free", "malloc", "print"}, NEW call \in Calls,
             Do(th, step, call), Len(call) > 0,
             call[1] \in {"handle", "free", "malloc", "print", "post"}
      PROVE  Kept(th) /\ As(th) /\ At(th, step) /\ \A x : At(th, x)' <=> x = call[1]
    <2>1. Len(call) = 1 => call[1] \in {"handle", "free", "malloc", "print"}
        BY <1>3, CallsAre
    <2> QED
        BY <1>1, <1>3, <2>1, InnerAs
<1>4. ASSUME Post(th)
      PROVE  Kept(th) /\ As(th) /\ At(th, "post") /\ At(th, "run")' /\ \A x \in Firsts : ~At(th, x)'
    <2>1. Do(th, "post", <<>>)
        BY <1>4 DEF Post
    <2> QED
        BY <2>1, <1>2
<1>5. ASSUME RunTake(th)
      PROVE  Kept(th) /\ As(th) /\ At(th, "run") /\ \A x : At(th, x)' <=> x = "handle"
    <2> DEFINE call == <<"handle">>
    <2>1. call \in Calls /\ Len(call) > 0 /\ call[1] = "handle"
        BY EachCall
    <2>2. Do(th, "run", call)
        BY <1>5 DEF RunTake
    <2> HIDE DEF call
    <2> QED
        BY <2>1, <2>2, <1>3
<1>6. ASSUME RunNothing(th)
      PROVE  Kept(th) /\ As(th) /\ At(th, "run") /\ ~At(th, "run")' /\ \A x \in Firsts : ~At(th, x)'
    <2>1. Do(th, "run", <<>>)
        BY <1>6 DEF RunNothing
    <2> QED
        BY <2>1, <1>2
<1>7. ASSUME Handle(th)
      PROVE  Kept(th) /\ As(th) /\ At(th, "handle") /\ ~At(th, "run")' /\ \A x \in Firsts : ~At(th, x)'
    <2>1. Do(th, "handle", <<>>)
        BY <1>7 DEF Handle
    <2> QED
        BY <2>1, <1>2
<1>8. ASSUME Error(th)
      PROVE  /\ Kept(th) /\ As(th) /\ At(th, "error")
             /\ \E n \in limits.sizes :
                   /\ needed_size' = [needed_size EXCEPT ![th] = n]
                   /\ \/ n > errormsg_size /\ \A x : At(th, x)' <=> x = "free"
                      \/ ~(n > errormsg_size) /\ \A x : At(th, x)' <=> x = "print"
    <2>1. PICK n \in limits.sizes :
             /\ Do(th, "error", IF n > errormsg_size THEN <<"free">> ELSE <<"print">>)
             /\ needed_size' = [needed_size EXCEPT ![th] = n]
        BY <1>8 DEF Error
    <2>2. CASE n > errormsg_size
        <3> DEFINE call == <<"free">>
        <3>1. call \in Calls /\ Len(call) > 0 /\ call[1] = "free"
            BY EachCall
        <3>2. Do(th, "error", call)
            BY <2>1, <2>2
        <3> HIDE DEF call
        <3> QED
            BY <3>1, <3>2, <1>3, <2>1, <2>2
    <2>3. CASE ~(n > errormsg_size)
        <3> DEFINE call == <<"print">>
        <3>1. call \in Calls /\ Len(call) > 0 /\ call[1] = "print"
            BY EachCall
        <3>2. Do(th, "error", call)
            BY <2>1, <2>3
        <3> HIDE DEF call
        <3> QED
            BY <3>1, <3>2, <1>3, <2>1, <2>3
    <2> QED
        BY <2>2, <2>3
<1>9. ASSUME ErrorFree(th)
      PROVE  Kept(th) /\ As(th) /\ At(th, "free") /\ \A x : At(th, x)' <=> x = "malloc"
    <2> DEFINE call == <<"malloc">>
    <2>1. call \in Calls /\ Len(call) > 0 /\ call[1] = "malloc"
        BY EachCall
    <2>2. Do(th, "free", call)
        BY <1>9 DEF ErrorFree
    <2> HIDE DEF call
    <2> QED
        BY <2>1, <2>2, <1>3
<1>10. ASSUME ErrorMalloc(th)
      PROVE  Kept(th) /\ As(th) /\ At(th, "malloc") /\ \A x : At(th, x)' <=> x = "print"
    <2> DEFINE call == <<"print">>
    <2>1. call \in Calls /\ Len(call) > 0 /\ call[1] = "print"
        BY EachCall
    <2>2. Do(th, "malloc", call)
        BY <1>10 DEF ErrorMalloc
    <2> HIDE DEF call
    <2> QED
        BY <2>1, <2>2, <1>3
<1>11. ASSUME ErrorMallocFailed(th)
      PROVE  Kept(th) /\ As(th) /\ At(th, "malloc") /\ ~At(th, "run")' /\ \A x \in Firsts : ~At(th, x)'
    <2>1. Do(th, "malloc", <<>>)
        BY <1>11 DEF ErrorMallocFailed
    <2> QED
        BY <2>1, <1>2
<1>12. ASSUME ErrorPrint(th)
      PROVE  Kept(th) /\ As(th) /\ At(th, "print") /\ \A x : At(th, x)' <=> x = "post"
    <2> DEFINE call == Dispatch
    <2>1. call \in Calls /\ Len(call) > 0 /\ call[1] = "post"
        BY EachCall
    <2>2. Do(th, "print", call)
        BY <1>12 DEF ErrorPrint
    <2> HIDE DEF call
    <2> QED
        BY <2>1, <2>2, <1>3
<1> QED
    BY <1>4, <1>5, <1>6, <1>7, <1>8, <1>9, <1>10, <1>11, <1>12

\* A step that is no report.
LEMMA InnerOff ==
    ASSUME Types, NEW th \in Threads, NEW step \in {"abort", "lost", "connect", "poll", "raw", "unlock"},
           step \notin Ends(th), NEW call \in Calls, Do(th, step, call),
           Len(call) > 0 => call[1] \in {"post", "error", "lost"}
    PROVE  /\ Kept(th) /\ Off(th) /\ At(th, step)
           /\ ~At(th, "copy")' /\ ~At(th, "raw")' /\ ~At(th, "lock")'
           /\ Has(th, "unlock")' <=> Has(th, "unlock") /\ step # "unlock"
           /\ step # "abort" /\ (Len(call) > 0 => call[1] # "error") =>
                 (Has(th, "abort")' <=> Has(th, "abort"))
           /\ Len(call) > 0 /\ call[1] = "error" => Has(th, "abort")'
           /\ todo[th] # <<>> /\ (todo[th] # <<>>)'
<1>1. Len(call) = 1 => call[1] \in {"handle", "free", "malloc", "print", "lost"}
    BY CallsAre
<1>2. /\ Kept(th) /\ At(th, step)
      /\ ~At(th, "copy")' /\ ~At(th, "raw")' /\ ~At(th, "lock")'
      /\ Has(th, "unlock")' <=> Has(th, "unlock") /\ step # "unlock"
      /\ step # "abort" /\ (Len(call) > 0 => call[1] # "error") =>
            (Has(th, "abort")' <=> Has(th, "abort"))
      /\ Len(call) > 0 => \A x : At(th, x)' <=> x = call[1]
      /\ Len(call) > 0 /\ call[1] = "error" => Has(th, "abort")'
      /\ Len(call) = 0 => /\ \A x \in Firsts : ~At(th, x)'
                          /\ At(th, "run")' <=> step = "post"
      /\ todo[th] # <<>> /\ (todo[th] # <<>>)'
    BY <1>1, Inner
<1>3. Len(call) = 0 \/ Len(call) > 0
    BY CallsAre
<1>4. Off(th)
    <2>1. \A x \in {"post", "run", "handle", "free", "malloc", "print"} : ~At(th, x)
        BY <1>2 DEF At
    <2>2. \A x \in {"run", "handle", "free", "malloc", "print"} : ~At(th, x)'
        BY <1>2, <1>3 DEF Firsts
    <2> QED
        BY <2>1, <2>2 DEF Off
<1> QED
    BY <1>2, <1>4

LEMMA AbortTodo ==
    ASSUME Types, NEW th \in Threads, Abort(th)
    PROVE  Kept(th) /\ Off(th) /\ Nearly(th)
<1> DEFINE call == <<"lost">>
<1>1. call \in Calls /\ Len(call) > 0 /\ call[1] = "lost"
    BY EachCall
<1>2. Do(th, "abort", call) /\ "abort" \notin Ends(th)
    BY DEF Abort, Ends
<1> HIDE DEF call
<1>3. /\ Kept(th) /\ Off(th) /\ At(th, "abort")
      /\ ~At(th, "copy")' /\ ~At(th, "raw")' /\ ~At(th, "lock")'
      /\ Has(th, "unlock")' <=> Has(th, "unlock") /\ "abort" # "unlock"
      /\ todo[th] # <<>> /\ (todo[th] # <<>>)'
    BY <1>1, <1>2, InnerOff
<1>4. ~At(th, "copy") /\ ~At(th, "raw") /\ ~At(th, "lock")
    BY <1>3 DEF At
<1> QED
    BY <1>3, <1>4 DEF Nearly

LEMMA LostTodo ==
    ASSUME Types, NEW th \in Threads, Lost(th)
    PROVE  Kept(th) /\ Off(th) /\ As(th)
<1> DEFINE call == Dispatch
<1>1. call \in Calls /\ Len(call) > 0 /\ call[1] = "post"
    BY EachCall
<1>2. Do(th, "lost", call) /\ "lost" \notin Ends(th)
    BY DEF Lost, Ends
<1> HIDE DEF call
<1>3. /\ Kept(th) /\ Off(th) /\ At(th, "lost")
      /\ ~At(th, "copy")' /\ ~At(th, "raw")' /\ ~At(th, "lock")'
      /\ Has(th, "unlock")' <=> Has(th, "unlock") /\ "lost" # "unlock"
      /\ todo[th] # <<>> /\ (todo[th] # <<>>)'
      /\ Has(th, "abort")' <=> Has(th, "abort")
    BY <1>1, <1>2, InnerOff
<1>4. ~At(th, "copy") /\ ~At(th, "raw") /\ ~At(th, "lock")
    BY <1>3 DEF At
<1> QED
    BY <1>3, <1>4 DEF As, Nearly

LEMMA Joined ==
    ASSUME NEW S, NEW a \in Seq(S), NEW b \in Seq(S), NEW c \in Seq(S),
           Len(c) = Len(a) + Len(b),
           \A i \in 1 .. Len(a) : c[i] = a[i],
           \A i \in 1 .. Len(b) : c[Len(a) + i] = b[i]
    PROVE  a \o b = c
<1>1. Len(a) \in Nat /\ Len(b) \in Nat
    BY LenProperties
<1>2. /\ a \o b \in Seq(S) /\ Len(a \o b) = Len(a) + Len(b)
      /\ \A i \in 1 .. Len(a) + Len(b) :
            (a \o b)[i] = IF i <= Len(a) THEN a[i] ELSE b[i - Len(a)]
    BY ConcatProperties
<1>3. ASSUME NEW i \in 1 .. Len(a \o b)
      PROVE  (a \o b)[i] = c[i]
    <2>1. CASE i <= Len(a)
        BY <2>1, <1>1, <1>2
    <2>2. CASE ~(i <= Len(a))
        <3>1. i - Len(a) \in 1 .. Len(b) /\ Len(a) + (i - Len(a)) = i
            BY <2>2, <1>1, <1>2
        <3>2. c[Len(a) + (i - Len(a))] = b[i - Len(a)]
            BY <3>1
        <3>3. (a \o b)[i] = b[i - Len(a)]
            BY <2>2, <1>2
        <3> QED
            BY <3>1, <3>2, <3>3
    <2> QED
        BY <2>1, <2>2
<1> QED
    BY <1>2, <1>3, SeqEqual

\* The steps of the task that it starts a turn with.
LEMMA TurnSteps ==
    \A a, b, c :
        (\/ /\ a = Dispatch /\ b = <<"connect", "unlock", "turn">>
            /\ c = <<"post", "run", "connect", "unlock", "turn">>
         \/ /\ a = <<>> /\ b = <<"unlock", "poll", "turn">>
            /\ c = <<"unlock", "poll", "turn">>
         \/ /\ a = Dispatch /\ b = <<"unlock", "poll", "turn">>
            /\ c = <<"post", "run", "unlock", "poll", "turn">>
         \/ /\ a = <<"error", "abort">> /\ b = <<"unlock", "poll", "turn">>
            /\ c = <<"error", "abort", "unlock", "poll", "turn">>)
        => a \o b = c
<1>1. ASSUME NEW a, NEW b, NEW c,
             /\ a = Dispatch /\ b = <<"connect", "unlock", "turn">>
             /\ c = <<"post", "run", "connect", "unlock", "turn">>
      PROVE  a \o b = c
    <2>1. a \in Seq(Reports \cup {"connect", "unlock", "poll", "turn"})
        BY <1>1 DEF Dispatch, Reports
    <2>2. /\ b \in Seq(Reports \cup {"connect", "unlock", "poll", "turn"})
          /\ c \in Seq(Reports \cup {"connect", "unlock", "poll", "turn"})
        BY <1>1 DEF Reports
    <2>3. Len(a) = 2 /\ Len(b) = 3 /\ Len(c) = 5
        BY <1>1 DEF Dispatch
    <2>4. c[1] = a[1] /\ c[2] = a[2] /\ c[3] = b[1] /\ c[4] = b[2] /\ c[5] = b[3]
        BY <1>1 DEF Dispatch
    <2>5. \A i \in 1 .. Len(a) : c[i] = a[i]
        BY <2>3, <2>4
    <2>6. \A i \in 1 .. Len(b) : c[Len(a) + i] = b[i]
        <3>1. \A i \in 1 .. Len(b) : i = 1 \/ i = 2 \/ i = 3
            BY <2>3
        <3>2. Len(a) + 1 = 3 /\ Len(a) + 2 = 4 /\ Len(a) + 3 = 5
            BY <2>3
        <3> QED
            BY <3>1, <3>2, <2>4
    <2>7. Len(c) = Len(a) + Len(b)
        BY <2>3
    <2> QED
        BY <2>1, <2>2, <2>5, <2>6, <2>7, Joined
<1>2. ASSUME NEW a, NEW b, NEW c,
             /\ a = <<>> /\ b = <<"unlock", "poll", "turn">>
             /\ c = <<"unlock", "poll", "turn">>
      PROVE  a \o b = c
    <2>1. b \in Seq(Reports \cup {"connect", "unlock", "poll", "turn"})
        BY <1>2 DEF Reports
    <2>2. <<>> \o b = b
        BY <2>1, ConcatEmptySeq
    <2> QED
        BY <2>2, <1>2, Zenon
<1>3. ASSUME NEW a, NEW b, NEW c,
             /\ a = Dispatch /\ b = <<"unlock", "poll", "turn">>
             /\ c = <<"post", "run", "unlock", "poll", "turn">>
      PROVE  a \o b = c
    <2>1. a \in Seq(Reports \cup {"connect", "unlock", "poll", "turn"})
        BY <1>3 DEF Dispatch, Reports
    <2>2. /\ b \in Seq(Reports \cup {"connect", "unlock", "poll", "turn"})
          /\ c \in Seq(Reports \cup {"connect", "unlock", "poll", "turn"})
        BY <1>3 DEF Reports
    <2>3. Len(a) = 2 /\ Len(b) = 3 /\ Len(c) = 5
        BY <1>3 DEF Dispatch
    <2>4. c[1] = a[1] /\ c[2] = a[2] /\ c[3] = b[1] /\ c[4] = b[2] /\ c[5] = b[3]
        BY <1>3 DEF Dispatch
    <2>5. \A i \in 1 .. Len(a) : c[i] = a[i]
        BY <2>3, <2>4
    <2>6. \A i \in 1 .. Len(b) : c[Len(a) + i] = b[i]
        <3>1. \A i \in 1 .. Len(b) : i = 1 \/ i = 2 \/ i = 3
            BY <2>3
        <3>2. Len(a) + 1 = 3 /\ Len(a) + 2 = 4 /\ Len(a) + 3 = 5
            BY <2>3
        <3> QED
            BY <3>1, <3>2, <2>4
    <2>7. Len(c) = Len(a) + Len(b)
        BY <2>3
    <2> QED
        BY <2>1, <2>2, <2>5, <2>6, <2>7, Joined
<1>4. ASSUME NEW a, NEW b, NEW c,
             /\ a = <<"error", "abort">> /\ b = <<"unlock", "poll", "turn">>
             /\ c = <<"error", "abort", "unlock", "poll", "turn">>
      PROVE  a \o b = c
    <2>1. a \in Seq(Reports \cup {"connect", "unlock", "poll", "turn"})
        BY <1>4 DEF Dispatch, Reports
    <2>2. /\ b \in Seq(Reports \cup {"connect", "unlock", "poll", "turn"})
          /\ c \in Seq(Reports \cup {"connect", "unlock", "poll", "turn"})
        BY <1>4 DEF Reports
    <2>3. Len(a) = 2 /\ Len(b) = 3 /\ Len(c) = 5
        BY <1>4 DEF Dispatch
    <2>4. c[1] = a[1] /\ c[2] = a[2] /\ c[3] = b[1] /\ c[4] = b[2] /\ c[5] = b[3]
        BY <1>4 DEF Dispatch
    <2>5. \A i \in 1 .. Len(a) : c[i] = a[i]
        BY <2>3, <2>4
    <2>6. \A i \in 1 .. Len(b) : c[Len(a) + i] = b[i]
        <3>1. \A i \in 1 .. Len(b) : i = 1 \/ i = 2 \/ i = 3
            BY <2>3
        <3>2. Len(a) + 1 = 3 /\ Len(a) + 2 = 4 /\ Len(a) + 3 = 5
            BY <2>3
        <3> QED
            BY <3>1, <3>2, <2>4
    <2>7. Len(c) = Len(a) + Len(b)
        BY <2>3
    <2> QED
        BY <2>1, <2>2, <2>5, <2>6, <2>7, Joined
<1> QED
    BY <1>1, <1>2, <1>3, <1>4

LEMMA OrderedTurns ==
    /\ Ordered(Task, <<"post", "run", "connect", "unlock", "turn">>)
    /\ Ordered(Task, <<"unlock", "poll", "turn">>)
    /\ Ordered(Task, <<"post", "run", "unlock", "poll", "turn">>)
    /\ Ordered(Task, <<"error", "abort", "unlock", "poll", "turn">>)
    /\ Ordered(Task, <<"unlock", "turn">>)
    /\ Ordered(Task, <<"turn">>)
BY DEF Ordered, Steps, Ends, Firsts, Reports

LEMMA OrderedSends ==
    /\ \A s \in Senders : /\ Ordered(s, <<"lock">>)
                          /\ Ordered(s, <<"copy", "unlock">>)
                          /\ Ordered(s, <<"unlock">>)
                          /\ Ordered(s, <<>>)
    /\ \A p \in Partials : /\ Ordered(p, <<"copy", "return">>)
                           /\ Ordered(p, <<>>)
<1>1. ASSUME NEW s \in Senders
      PROVE  /\ Ordered(s, <<"lock">>)
             /\ Ordered(s, <<"copy", "unlock">>)
             /\ Ordered(s, <<"unlock">>)
             /\ Ordered(s, <<>>)
    <2>1. /\ Steps(s) = Reports \cup {"lock", "copy", "raw", "unlock"}
          /\ Ends(s) = {"lock", "unlock"}
        BY SendAssumption DEF Steps, Ends
    <2>2. Ordered(s, <<"lock">>)
        BY <2>1 DEF Ordered, Firsts
    <2>3. Ordered(s, <<"copy", "unlock">>)
        BY <2>1 DEF Ordered, Firsts
    <2>4. Ordered(s, <<"unlock">>)
        BY <2>1 DEF Ordered, Firsts
    <2>5. Ordered(s, <<>>)
        BY EmptySeq DEF Ordered
    <2> QED
        BY <2>2, <2>3, <2>4, <2>5
<1>2. ASSUME NEW p \in Partials
      PROVE  /\ Ordered(p, <<"copy", "return">>)
             /\ Ordered(p, <<>>)
    <2>1. /\ Steps(p) = Reports \cup {"copy", "raw", "return"}
          /\ Ends(p) = {"return"}
        BY SendAssumption DEF Steps, Ends
    <2>2. Ordered(p, <<"copy", "return">>)
        BY <2>1 DEF Ordered, Firsts
    <2>3. Ordered(p, <<>>)
        BY EmptySeq DEF Ordered
    <2> QED
        BY <2>2, <2>3
<1> QED
    BY <1>1, <1>2

\* As Changed, for what is kept.
LEMMA NewSteps ==
    ASSUME Types, NEW th \in Threads, NEW t, Ordered(th, t), th = Task => t # <<>>,
           todo' = [todo EXCEPT ![th] = t]
    PROVE  Kept(th) /\ todo'[th] = t
<1>1. /\ DOMAIN todo' = Threads /\ todo'[th] = t
      /\ \A other \in Threads : other # th => todo'[other] = todo[other]
      /\ \A other \in Threads : Ordered(other, todo'[other])
    BY Changed
<1>2. todo'[Task] # <<>>
    BY <1>1, SendAssumption DEF Types
<1> QED
    BY <1>1, <1>2 DEF Kept

LEMMA TurnTodo ==
    ASSUME Types, TurnInit \/ TurnConnected \/ TurnWait
    PROVE  Kept(Task) /\ Off(Task) /\ At(Task, "turn") /\ Has(Task, "unlock")'
<1> DEFINE Turns == { <<"post", "run", "connect", "unlock", "turn">>,
                      <<"unlock", "poll", "turn">>,
                      <<"post", "run", "unlock", "poll", "turn">>,
                      <<"error", "abort", "unlock", "poll", "turn">>,
                      <<"unlock", "turn">> }
<1>1. ASSUME NEW t \in Turns
      PROVE  /\ Ordered(Task, t) /\ t \in Seq(Steps(Task)) /\ t # <<>>
             /\ Head(t) \in {"post", "unlock", "error"}
             /\ \E i \in 1 .. Len(t) : t[i] = "unlock"
    <2>1. Ordered(Task, t)
        BY OrderedTurns
    <2>2. t # <<>> /\ Head(t) \in {"post", "unlock", "error"}
        OBVIOUS
    <2>3. \E i \in 1 .. Len(t) : t[i] = "unlock"
        OBVIOUS
    <2> QED
        BY <2>1, <2>2, <2>3 DEF Ordered
<1>2. \E t \in Turns : Do(Task, "turn", t)
    <2>1. CASE TurnInit
        <3> DEFINE a == Dispatch
                   b == <<"connect", "unlock", "turn">>
                   c == <<"post", "run", "connect", "unlock", "turn">>
        <3>1. a \o b = c
            <4> HIDE DEF a, b, c
            <4> QED
                BY TurnSteps DEF a, b, c
        <3>2. Do(Task, "turn", a \o b)
            BY <2>1 DEF TurnInit
        <3>3. c \in Turns
            OBVIOUS
        <3> HIDE DEF a, b, c, Turns
        <3> QED
            BY <3>1, <3>2, <3>3
    <2>2. CASE TurnWait
        <3>1. Do(Task, "turn", <<"unlock", "turn">>)
            BY <2>2 DEF TurnWait
        <3> QED
            BY <3>1
    <2>3. CASE TurnConnected
        <3> DEFINE b == <<"unlock", "poll", "turn">>
        <3>1. PICK call \in {<<>>, Dispatch, <<"error", "abort">>} : Do(Task, "turn", call \o b)
            BY <2>3 DEF TurnConnected
        <3>2. \E c \in Turns : call \o b = c
            <4>1. CASE call = <<>>
                <5> DEFINE c == <<"unlock", "poll", "turn">>
                <5>1. call \o b = c
                    BY <4>1, TurnSteps, Zenon
                <5> QED
                    BY <5>1
            <4>2. CASE call = Dispatch
                <5> DEFINE c == <<"post", "run", "unlock", "poll", "turn">>
                <5>1. call \o b = c
                    BY <4>2, TurnSteps, Zenon
                <5> QED
                    BY <5>1
            <4>3. CASE call = <<"error", "abort">>
                <5> DEFINE c == <<"error", "abort", "unlock", "poll", "turn">>
                <5>1. call \o b = c
                    BY <4>3, TurnSteps, Zenon
                <5> QED
                    BY <5>1
            <4> QED
                BY <4>1, <4>2, <4>3
        <3> HIDE DEF b, Turns
        <3> QED
            BY <3>1, <3>2
    <2> QED
        BY <2>1, <2>2, <2>3
<1> HIDE DEF Turns
<1>3. PICK t \in Turns : Do(Task, "turn", t)
    BY <1>2
<1>4. Task \in Threads /\ "turn" \in Ends(Task)
    BY SendAssumption DEF Ends
<1>5. todo[Task] # <<>> /\ Head(todo[Task]) = "turn" /\ todo' = [todo EXCEPT ![Task] = t]
    BY <1>1, <1>3, <1>4, LastStep
<1>6. Kept(Task) /\ todo'[Task] = t
    BY <1>1, <1>4, <1>5, NewSteps
<1>7. Off(Task)
    <2>1. \A x : At(Task, x) <=> x = "turn"
        BY <1>5 DEF At
    <2>2. \A x : At(Task, x)' <=> x = Head(t)
        BY <1>1, <1>6 DEF At
    <2> QED
        BY <1>1, <2>1, <2>2 DEF Off
<1>8. Has(Task, "unlock")'
    BY <1>1, <1>6 DEF Has
<1> QED
    BY <1>5, <1>6, <1>7, <1>8 DEF At

\* The task in a turn.
LEMMA InTurnTodo ==
    ASSUME Types, Connected \/ ConnectFailed \/ Poll \/ PollFailed
    PROVE  /\ Kept(Task) /\ Off(Task)
           /\ Has(Task, "unlock")' <=> Has(Task, "unlock")
           /\ Connected => At(Task, "connect")
<1>1. Task \in Threads /\ "connect" \notin Ends(Task) /\ "poll" \notin Ends(Task)
    BY SendAssumption DEF Ends
<1>2. ASSUME NEW step \in {"connect", "poll"}, NEW call \in Calls, Do(Task, step, call),
             Len(call) > 0 => call[1] \in {"post", "error"}
      PROVE  /\ Kept(Task) /\ Off(Task) /\ At(Task, step)
             /\ Has(Task, "unlock")' <=> Has(Task, "unlock")
    <2>1. step # "unlock" /\ step \notin Ends(Task) /\ step \in {"abort", "connect", "poll", "raw", "unlock"}
        BY <1>1
    <2> QED
        BY <1>1, <1>2, <2>1, InnerOff
<1>3. ASSUME Connected
      PROVE  /\ Kept(Task) /\ Off(Task) /\ At(Task, "connect")
             /\ Has(Task, "unlock")' <=> Has(Task, "unlock")
    <2> DEFINE call == Dispatch
    <2>1. call \in Calls /\ (Len(call) > 0 => call[1] \in {"post", "error"})
        BY EachCall
    <2>2. Do(Task, "connect", call)
        BY <1>3 DEF Connected
    <2> HIDE DEF call
    <2> QED
        BY <2>1, <2>2, <1>2
<1>4. ASSUME ConnectFailed
      PROVE  /\ Kept(Task) /\ Off(Task) /\ At(Task, "connect")
             /\ Has(Task, "unlock")' <=> Has(Task, "unlock")
    <2> DEFINE call == <<"error", "abort">>
    <2>1. call \in Calls /\ (Len(call) > 0 => call[1] \in {"post", "error"})
        BY EachCall
    <2>2. Do(Task, "connect", call)
        BY <1>4 DEF ConnectFailed
    <2> HIDE DEF call
    <2> QED
        BY <2>1, <2>2, <1>2
<1>5. ASSUME Poll
      PROVE  /\ Kept(Task) /\ Off(Task) /\ At(Task, "poll")
             /\ Has(Task, "unlock")' <=> Has(Task, "unlock")
    <2> DEFINE call == <<>>
    <2>1. call \in Calls /\ (Len(call) > 0 => call[1] \in {"post", "error"})
        BY EachCall
    <2>2. Do(Task, "poll", call)
        BY <1>5 DEF Poll
    <2> HIDE DEF call
    <2> QED
        BY <2>1, <2>2, <1>2
<1>6. ASSUME PollFailed
      PROVE  /\ Kept(Task) /\ Off(Task) /\ At(Task, "poll")
             /\ Has(Task, "unlock")' <=> Has(Task, "unlock")
    <2> DEFINE call == <<"error", "abort">>
    <2>1. call \in Calls /\ (Len(call) > 0 => call[1] \in {"post", "error"})
        BY EachCall
    <2>2. Do(Task, "poll", call)
        BY <1>6 DEF PollFailed
    <2> HIDE DEF call
    <2> QED
        BY <2>1, <2>2, <1>2
<1>7. Connected => At(Task, "connect")
    BY <1>3
<1> QED
    BY <1>3, <1>4, <1>5, <1>6, <1>7

LEMMA UnlockTodo ==
    ASSUME Types, NEW th \in Threads, Unlock(th)
    PROVE  /\ Kept(th) /\ Off(th) /\ At(th, "unlock") /\ ~Has(th, "unlock")' /\ th \notin Partials
           /\ ~Loops(th) /\ ~Loops(th)' /\ ~At(th, "copy")' /\ ~At(th, "raw")' /\ ~At(th, "lock")'
           /\ th # Task => (todo[th] = <<>>)'
<1>1. Do(th, "unlock", <<>>) /\ At(th, "unlock")
    BY DEF Unlock, Do
<1>2. th \notin Partials
    BY <1>1, Shape
<1>3. ~Loops(th)
    BY <1>1 DEF At, Loops
<1>4. CASE th = Task
    <2> DEFINE call == <<>>
    <2>1. call \in Calls /\ Len(call) = 0
        BY EachCall
    <2>2. Do(th, "unlock", call) /\ "unlock" \notin Ends(th)
        BY <1>1, <1>4 DEF Ends
    <2> HIDE DEF call
    <2>3. /\ Kept(th) /\ Off(th)
          /\ ~At(th, "copy")' /\ ~At(th, "raw")' /\ ~At(th, "lock")'
          /\ Has(th, "unlock")' <=> Has(th, "unlock") /\ "unlock" # "unlock"
        BY <2>1, <2>2, InnerOff
    <2> QED
        BY <1>1, <1>2, <1>3, <1>4, <2>3 DEF Loops
<1>5. CASE th # Task
    <2>1. th \in Senders /\ "unlock" \in Ends(th) /\ Ordered(th, <<>>) /\ <<>> \in Seq(Steps(th))
        BY <1>2, <1>5, SendAssumption, OrderedSends, EmptySeq DEF Ends
    <2>2. todo' = [todo EXCEPT ![th] = <<>>] /\ Head(todo[th]) = "unlock"
        BY <1>1, <2>1, LastStep
    <2>3. Kept(th) /\ todo'[th] = <<>>
        BY <1>5, <2>1, <2>2, NewSteps
    <2>4. ~Has(th, "unlock")'
        BY <2>3, EmptySeq DEF Has
    <2>5. \A x : ~At(th, x)'
        BY <2>3 DEF At
    <2>6. \A x : At(th, x) => x = "unlock"
        BY <2>2 DEF At
    <2>7. Off(th)
        BY <2>5, <2>6 DEF Off
    <2> QED
        BY <1>1, <1>2, <1>3, <2>3, <2>4, <2>5, <2>7 DEF Loops
<1> QED
    BY <1>4, <1>5

LEMMA CopyTodo ==
    ASSUME Types, NEW s \in Users, Copy(s)
    PROVE  /\ Kept(s) /\ Off(s) /\ At(s, "copy") /\ ~At(s, "raw")
           /\ ~At(s, "copy")' /\ At(s, "raw")' /\ ~At(s, "lock")' /\ (todo[s] # <<>>)'
           /\ Has(s, "unlock")' <=> Has(s, "unlock")
           /\ ~Has(s, "abort") /\ ~Has(s, "abort")'
<1> DEFINE call == <<"raw">>
<1>1. call \in Calls /\ Len(call) = 1 /\ call[1] = "raw"
    BY EachCall
<1>2. Do(s, "copy", call) /\ s \in Threads
    BY SendAssumption DEF Copy, Users
<1>3. "copy" \notin Ends(s)
    BY DEF Ends
<1> HIDE DEF call
<1>4. /\ (DOMAIN todo = Threads)'
      /\ \A other \in Threads : Ordered(other, todo'[other])
      /\ \A other \in Threads : other # s => todo'[other] = todo[other]
      /\ todo[s] # <<>> /\ Head(todo[s]) = "copy"
      /\ todo'[s] # <<>> /\ Head(todo'[s]) = "raw"
      /\ Has(s, "unlock")' <=> Has(s, "unlock")
      /\ Has(s, "abort")' => Has(s, "abort")
    BY <1>1, <1>2, <1>3, Effect
<1>5. \A x : (At(s, x) <=> x = "copy") /\ (At(s, x)' <=> x = "raw")
    BY <1>4 DEF At
<1>6. Kept(s)
    <2>1. todo'[Task] # <<>>
        BY <1>4, SendAssumption DEF Types
    <2> QED
        BY <1>4, <2>1 DEF Kept
<1>7. Off(s)
    BY <1>5 DEF Off
<1>8. ~Has(s, "abort")
    BY <1>2, <1>5, Shape DEF Loops
<1> QED
    BY <1>4, <1>5, <1>6, <1>7, <1>8

\* The loop goes on or ends.
LEMMA RawTodo ==
    ASSUME Types, NEW s \in Users, NEW more \in BOOLEAN,
           Do(s, "raw", IF more THEN <<"copy">> ELSE <<>>)
    PROVE  /\ Kept(s) /\ Off(s) /\ At(s, "raw") /\ ~At(s, "copy")
           /\ At(s, "copy")' <=> more
           /\ ~At(s, "raw")' /\ ~At(s, "lock")' /\ (todo[s] # <<>>)'
           /\ Has(s, "unlock")' <=> Has(s, "unlock")
           /\ ~Has(s, "abort") /\ ~Has(s, "abort")'
<1>1. s \in Threads
    BY SendAssumption DEF Users
<1>2. "raw" \notin Ends(s)
    BY DEF Ends
<1>3. At(s, "raw") /\ \A x : At(s, x) <=> x = "raw"
    BY DEF Do, At
<1>4. ~Has(s, "abort")
    BY <1>1, <1>3, Shape DEF Loops
<1>5. CASE more
    <2> DEFINE call == <<"copy">>
    <2>1. call \in Calls /\ Len(call) = 1 /\ call[1] = "copy"
        BY EachCall
    <2>2. Do(s, "raw", call)
        BY <1>5
    <2> HIDE DEF call
    <2>3. /\ (DOMAIN todo = Threads)'
          /\ \A other \in Threads : Ordered(other, todo'[other])
          /\ \A other \in Threads : other # s => todo'[other] = todo[other]
          /\ todo'[s] # <<>> /\ Head(todo'[s]) = "copy"
          /\ Has(s, "unlock")' <=> Has(s, "unlock")
          /\ Has(s, "abort")' => Has(s, "abort")
        BY <1>1, <1>2, <2>1, <2>2, Effect
    <2>4. \A x : At(s, x)' <=> x = "copy"
        BY <2>3 DEF At
    <2>5. Kept(s)
        <3>1. todo'[Task] # <<>>
            BY <2>3, SendAssumption DEF Types
        <3> QED
            BY <2>3, <3>1 DEF Kept
    <2>6. Off(s)
        BY <1>3, <2>4 DEF Off
    <2> QED
        BY <1>3, <1>4, <1>5, <2>3, <2>4, <2>5, <2>6
<1>6. CASE ~more
    <2> DEFINE call == <<>>
    <2>1. call \in Calls /\ Len(call) = 0
        BY EachCall
    <2>2. Do(s, "raw", call)
        BY <1>6
    <2> HIDE DEF call
    <2>3. /\ Kept(s) /\ Off(s) /\ At(s, "raw")
          /\ ~At(s, "copy")' /\ ~At(s, "raw")' /\ ~At(s, "lock")'
          /\ Has(s, "unlock")' <=> Has(s, "unlock") /\ "raw" # "unlock"
          /\ Has(s, "abort")' <=> Has(s, "abort")
          /\ (todo[s] # <<>>)'
        BY <1>1, <1>2, <2>1, <2>2, InnerOff
    <2> QED
        BY <1>3, <1>4, <1>6, <2>3
<1> QED
    BY <1>5, <1>6

LEMMA RawFailedTodo ==
    ASSUME Types, NEW s \in Users, RawFailed(s)
    PROVE  /\ Kept(s) /\ Off(s) /\ At(s, "raw") /\ ~At(s, "copy")
           /\ ~At(s, "copy")' /\ ~At(s, "raw")' /\ ~At(s, "lock")' /\ (todo[s] # <<>>)'
           /\ Has(s, "unlock")' <=> Has(s, "unlock")
           /\ ~Has(s, "abort") /\ Has(s, "abort")'
<1> DEFINE call == <<"error", "abort">>
<1>1. call \in Calls /\ Len(call) = 2 /\ call[1] = "error"
    BY EachCall
<1>2. Do(s, "raw", call) /\ s \in Threads
    BY SendAssumption DEF RawFailed, Users
<1>3. "raw" \notin Ends(s)
    BY DEF Ends
<1> HIDE DEF call
<1>4. /\ Kept(s) /\ Off(s) /\ At(s, "raw")
      /\ ~At(s, "copy")' /\ ~At(s, "raw")' /\ ~At(s, "lock")'
      /\ Has(s, "unlock")' <=> Has(s, "unlock") /\ "raw" # "unlock"
      /\ Has(s, "abort")'
      /\ (todo[s] # <<>>)'
    BY <1>1, <1>2, <1>3, InnerOff
<1>5. ~At(s, "copy") /\ ~Has(s, "abort")
    BY <1>2, <1>4, Shape DEF At, Loops
<1> QED
    BY <1>4, <1>5

\* A sender or a partial sender at its first step or its last.
LEMMA EdgeTodo ==
    ASSUME Types, NEW s \in Users, NEW t, Ordered(s, t), todo' = [todo EXCEPT ![s] = t],
           \/ todo[s] = <<>>
           \/ todo[s] # <<>> /\ Head(todo[s]) \in {"lock", "return"},
           \/ t = <<>>
           \/ t # <<>> /\ Head(t) \in {"lock", "copy", "unlock"}
    PROVE  /\ Kept(s) /\ Off(s) /\ todo'[s] = t /\ ~Loops(s)
           /\ ~At(s, "raw")'
           /\ \A x : At(s, x)' <=> t # <<>> /\ Head(t) = x
           /\ \A x : Has(s, x)' <=> \E i \in 1 .. Len(t) : t[i] = x
           /\ (todo[s] = <<>>)' <=> t = <<>>
<1>1. s \in Threads /\ s # Task
    BY SendAssumption DEF Users
<1>2. Kept(s) /\ todo'[s] = t
    BY <1>1, NewSteps
<1>3. /\ \A x : At(s, x)' <=> t # <<>> /\ Head(t) = x
      /\ \A x : Has(s, x)' <=> \E i \in 1 .. Len(t) : t[i] = x
      /\ (todo[s] = <<>>)' <=> t = <<>>
    BY <1>2 DEF At, Has
<1>4. \A x : At(s, x) => x \in {"lock", "return"}
    BY DEF At
<1>5. Off(s) /\ ~Loops(s) /\ ~At(s, "raw")'
    BY <1>3, <1>4 DEF Off, Loops
<1> QED
    BY <1>2, <1>3, <1>5

\* The sequences they begin with.
LEMMA EdgeSteps ==
    ASSUME Types, NEW s \in Users,
           \/ todo[s] = <<>>
           \/ todo[s] # <<>> /\ Head(todo[s]) \in {"lock", "return"}
    PROVE
    /\ s \in Senders /\ todo' = [todo EXCEPT ![s] = <<"lock">>] =>
          /\ Kept(s) /\ Off(s) /\ ~Loops(s) /\ ~At(s, "raw")' /\ ~Has(s, "abort")'
          /\ ~At(s, "copy")' /\ At(s, "lock")' /\ ~Has(s, "unlock")' /\ (todo[s] # <<>>)'
    /\ s \in Senders /\ todo' = [todo EXCEPT ![s] = <<"copy", "unlock">>] =>
          /\ Kept(s) /\ Off(s) /\ ~Loops(s) /\ ~At(s, "raw")' /\ ~Has(s, "abort")'
          /\ At(s, "copy")' /\ ~At(s, "lock")' /\ Has(s, "unlock")' /\ (todo[s] # <<>>)'
    /\ s \in Senders /\ todo' = [todo EXCEPT ![s] = <<"unlock">>] =>
          /\ Kept(s) /\ Off(s) /\ ~Loops(s) /\ ~At(s, "raw")' /\ ~Has(s, "abort")'
          /\ ~At(s, "copy")' /\ ~At(s, "lock")' /\ Has(s, "unlock")' /\ (todo[s] # <<>>)'
    /\ s \in Partials /\ todo' = [todo EXCEPT ![s] = <<"copy", "return">>] =>
          /\ Kept(s) /\ Off(s) /\ ~Loops(s) /\ ~At(s, "raw")' /\ ~Has(s, "abort")'
          /\ At(s, "copy")' /\ ~At(s, "lock")' /\ ~Has(s, "unlock")' /\ (todo[s] # <<>>)'
    /\ todo' = [todo EXCEPT ![s] = <<>>] =>
          /\ Kept(s) /\ Off(s) /\ ~Loops(s) /\ ~At(s, "raw")' /\ ~Has(s, "abort")'
          /\ ~At(s, "copy")' /\ ~At(s, "lock")' /\ ~Has(s, "unlock")' /\ (todo[s] = <<>>)'
<1>1. ASSUME s \in Senders, todo' = [todo EXCEPT ![s] = <<"lock">>]
      PROVE  /\ Kept(s) /\ Off(s) /\ ~Loops(s) /\ ~At(s, "raw")' /\ ~Has(s, "abort")'
             /\ ~At(s, "copy")' /\ At(s, "lock")' /\ ~Has(s, "unlock")' /\ (todo[s] # <<>>)'
    <2> DEFINE t == <<"lock">>
    <2>1. Ordered(s, t)
        BY <1>1, OrderedSends, SendAssumption DEF Users
    <2>2. /\ t # <<>> /\ Head(t) = "lock"
          /\ ~\E i \in 1 .. Len(t) : t[i] = "unlock"
          /\ ~\E i \in 1 .. Len(t) : t[i] = "abort"
        OBVIOUS
    <2>3. todo' = [todo EXCEPT ![s] = t]
        BY <1>1
    <2> HIDE DEF t
    <2>4. /\ Kept(s) /\ Off(s) /\ todo'[s] = t /\ ~Loops(s)
          /\ ~At(s, "raw")'
          /\ \A x : At(s, x)' <=> t # <<>> /\ Head(t) = x
          /\ \A x : Has(s, x)' <=> \E i \in 1 .. Len(t) : t[i] = x
          /\ (todo[s] = <<>>)' <=> t = <<>>
        BY <2>1, <2>2, <2>3, EdgeTodo
    <2> QED
        BY <2>2, <2>4
<1>2. ASSUME s \in Senders, todo' = [todo EXCEPT ![s] = <<"copy", "unlock">>]
      PROVE  /\ Kept(s) /\ Off(s) /\ ~Loops(s) /\ ~At(s, "raw")' /\ ~Has(s, "abort")'
             /\ At(s, "copy")' /\ ~At(s, "lock")' /\ Has(s, "unlock")' /\ (todo[s] # <<>>)'
    <2> DEFINE t == <<"copy", "unlock">>
    <2>1. Ordered(s, t)
        BY <1>2, OrderedSends, SendAssumption DEF Users
    <2>2. /\ t # <<>> /\ Head(t) = "copy"
          /\ \E i \in 1 .. Len(t) : t[i] = "unlock"
          /\ ~\E i \in 1 .. Len(t) : t[i] = "abort"
        OBVIOUS
    <2>3. todo' = [todo EXCEPT ![s] = t]
        BY <1>2
    <2> HIDE DEF t
    <2>4. /\ Kept(s) /\ Off(s) /\ todo'[s] = t /\ ~Loops(s)
          /\ ~At(s, "raw")'
          /\ \A x : At(s, x)' <=> t # <<>> /\ Head(t) = x
          /\ \A x : Has(s, x)' <=> \E i \in 1 .. Len(t) : t[i] = x
          /\ (todo[s] = <<>>)' <=> t = <<>>
        BY <2>1, <2>2, <2>3, EdgeTodo
    <2> QED
        BY <2>2, <2>4
<1>3. ASSUME s \in Senders, todo' = [todo EXCEPT ![s] = <<"unlock">>]
      PROVE  /\ Kept(s) /\ Off(s) /\ ~Loops(s) /\ ~At(s, "raw")' /\ ~Has(s, "abort")'
             /\ ~At(s, "copy")' /\ ~At(s, "lock")' /\ Has(s, "unlock")' /\ (todo[s] # <<>>)'
    <2> DEFINE t == <<"unlock">>
    <2>1. Ordered(s, t)
        BY <1>3, OrderedSends, SendAssumption DEF Users
    <2>2. /\ t # <<>> /\ Head(t) = "unlock"
          /\ \E i \in 1 .. Len(t) : t[i] = "unlock"
          /\ ~\E i \in 1 .. Len(t) : t[i] = "abort"
        OBVIOUS
    <2>3. todo' = [todo EXCEPT ![s] = t]
        BY <1>3
    <2> HIDE DEF t
    <2>4. /\ Kept(s) /\ Off(s) /\ todo'[s] = t /\ ~Loops(s)
          /\ ~At(s, "raw")'
          /\ \A x : At(s, x)' <=> t # <<>> /\ Head(t) = x
          /\ \A x : Has(s, x)' <=> \E i \in 1 .. Len(t) : t[i] = x
          /\ (todo[s] = <<>>)' <=> t = <<>>
        BY <2>1, <2>2, <2>3, EdgeTodo
    <2> QED
        BY <2>2, <2>4
<1>4. ASSUME s \in Partials, todo' = [todo EXCEPT ![s] = <<"copy", "return">>]
      PROVE  /\ Kept(s) /\ Off(s) /\ ~Loops(s) /\ ~At(s, "raw")' /\ ~Has(s, "abort")'
             /\ At(s, "copy")' /\ ~At(s, "lock")' /\ ~Has(s, "unlock")' /\ (todo[s] # <<>>)'
    <2> DEFINE t == <<"copy", "return">>
    <2>1. Ordered(s, t)
        BY <1>4, OrderedSends, SendAssumption DEF Users
    <2>2. /\ t # <<>> /\ Head(t) = "copy"
          /\ ~\E i \in 1 .. Len(t) : t[i] = "unlock"
          /\ ~\E i \in 1 .. Len(t) : t[i] = "abort"
        OBVIOUS
    <2>3. todo' = [todo EXCEPT ![s] = t]
        BY <1>4
    <2> HIDE DEF t
    <2>4. /\ Kept(s) /\ Off(s) /\ todo'[s] = t /\ ~Loops(s)
          /\ ~At(s, "raw")'
          /\ \A x : At(s, x)' <=> t # <<>> /\ Head(t) = x
          /\ \A x : Has(s, x)' <=> \E i \in 1 .. Len(t) : t[i] = x
          /\ (todo[s] = <<>>)' <=> t = <<>>
        BY <2>1, <2>2, <2>3, EdgeTodo
    <2> QED
        BY <2>2, <2>4
<1>5. ASSUME todo' = [todo EXCEPT ![s] = <<>>]
      PROVE  /\ Kept(s) /\ Off(s) /\ ~Loops(s) /\ ~At(s, "raw")' /\ ~Has(s, "abort")'
             /\ ~At(s, "copy")' /\ ~At(s, "lock")' /\ ~Has(s, "unlock")' /\ (todo[s] = <<>>)'
    <2> DEFINE t == <<>>
    <2>1. Ordered(s, t)
        BY <1>5, OrderedSends, SendAssumption DEF Users
    <2>2. t = <<>> /\ \A x : ~\E i \in 1 .. Len(t) : t[i] = x
        BY EmptySeq
    <2>3. todo' = [todo EXCEPT ![s] = t]
        BY <1>5
    <2> HIDE DEF t
    <2>4. /\ Kept(s) /\ Off(s) /\ todo'[s] = t /\ ~Loops(s)
          /\ ~At(s, "raw")'
          /\ \A x : At(s, x)' <=> t # <<>> /\ Head(t) = x
          /\ \A x : Has(s, x)' <=> \E i \in 1 .. Len(t) : t[i] = x
          /\ (todo[s] = <<>>)' <=> t = <<>>
        BY <2>1, <2>2, <2>3, EdgeTodo
    <2> QED
        BY <2>2, <2>4
<1> QED
    BY <1>1, <1>2, <1>3, <1>4, <1>5

\* What a sender or a partial sender begins, and how it ends.
LEMMA SendTodo ==
    ASSUME Types, NEW s \in Users
    PROVE
    /\ SendCall(s) =>
          /\ Kept(s) /\ Off(s) /\ s \in Senders /\ ~Loops(s) /\ todo[s] = <<>> /\ ~At(s, "raw")' /\ ~Has(s, "abort")'
          /\ ~At(s, "copy")' /\ At(s, "lock")' /\ ~Has(s, "unlock")' /\ (todo[s] # <<>>)'
    /\ SendLock(s) =>
          /\ Kept(s) /\ Off(s) /\ s \in Senders /\ ~Loops(s) /\ At(s, "lock") /\ ~At(s, "raw")' /\ ~Has(s, "abort")'
          /\ At(s, "copy")' <=> state = "CONNECTED"
          /\ ~At(s, "lock")' /\ Has(s, "unlock")' /\ (todo[s] # <<>>)'
    /\ SendLockTimeout(s) =>
          /\ Kept(s) /\ Off(s) /\ s \in Senders /\ ~Loops(s) /\ At(s, "lock") /\ ~At(s, "raw")' /\ ~Has(s, "abort")'
          /\ ~At(s, "copy")' /\ ~At(s, "lock")' /\ ~Has(s, "unlock")' /\ (todo[s] = <<>>)'
    /\ PartialText(s) =>
          /\ Kept(s) /\ Off(s) /\ s \in Partials /\ ~Loops(s) /\ todo[s] = <<>> /\ ~At(s, "raw")' /\ ~Has(s, "abort")'
          /\ At(s, "copy")' /\ ~At(s, "lock")' /\ ~Has(s, "unlock")' /\ (todo[s] # <<>>)'
    /\ PartialCont(s) =>
          /\ Kept(s) /\ Off(s) /\ s \in Partials /\ ~Loops(s) /\ todo[s] = <<>> /\ ~At(s, "raw")' /\ ~Has(s, "abort")'
          /\ ~At(s, "lock")' /\ ~Has(s, "unlock")'
          /\ At(s, "copy")' <=> (todo[s] # <<>>)'
    /\ PartialFin(s) =>
          /\ Kept(s) /\ Off(s) /\ s \in Partials /\ ~Loops(s) /\ todo[s] = <<>> /\ ~At(s, "raw")' /\ ~Has(s, "abort")'
          /\ At(s, "copy")' /\ ~At(s, "lock")' /\ ~Has(s, "unlock")' /\ (todo[s] # <<>>)'
    /\ Return(s) =>
          /\ Kept(s) /\ Off(s) /\ s \in Partials /\ ~Loops(s) /\ At(s, "return") /\ ~At(s, "raw")' /\ ~Has(s, "abort")'
          /\ ~At(s, "copy")' /\ ~At(s, "lock")' /\ ~Has(s, "unlock")' /\ (todo[s] = <<>>)'
<1>1. s \in Threads /\ s # Task
    BY SendAssumption DEF Users
<1>2. ASSUME SendCall(s)
      PROVE  /\ Kept(s) /\ Off(s) /\ s \in Senders /\ ~Loops(s) /\ todo[s] = <<>> /\ ~At(s, "raw")' /\ ~Has(s, "abort")'
             /\ ~At(s, "copy")' /\ At(s, "lock")' /\ ~Has(s, "unlock")' /\ (todo[s] # <<>>)'
    <2>1. s \in Senders /\ todo[s] = <<>> /\ todo' = [todo EXCEPT ![s] = <<"lock">>]
        BY <1>2 DEF SendCall
    <2> QED
        BY <2>1, EdgeSteps
<1>3. ASSUME SendLock(s)
      PROVE  /\ Kept(s) /\ Off(s) /\ s \in Senders /\ ~Loops(s) /\ At(s, "lock") /\ ~At(s, "raw")' /\ ~Has(s, "abort")'
             /\ At(s, "copy")' <=> state = "CONNECTED"
             /\ ~At(s, "lock")' /\ Has(s, "unlock")' /\ (todo[s] # <<>>)'
    <2>1. At(s, "lock") /\ s \in Senders
        BY <1>3, <1>1, Shape DEF SendLock, Do
    <2>2. "lock" \in Ends(s) /\ <<"copy", "unlock">> \in Seq(Steps(s)) /\ <<"unlock">> \in Seq(Steps(s))
        BY <2>1, SendAssumption DEF Ends, Steps
    <2>3. CASE state = "CONNECTED"
        <3>1. Do(s, "lock", <<"copy", "unlock">>)
            BY <1>3, <2>3 DEF SendLock
        <3>2. todo' = [todo EXCEPT ![s] = <<"copy", "unlock">>] /\ todo[s] # <<>> /\ Head(todo[s]) = "lock"
            BY <1>1, <2>1, <2>2, <3>1, LastStep
        <3> QED
            BY <2>1, <2>3, <3>2, EdgeSteps
    <2>4. CASE state # "CONNECTED"
        <3>1. Do(s, "lock", <<"unlock">>)
            BY <1>3, <2>4 DEF SendLock
        <3>2. todo' = [todo EXCEPT ![s] = <<"unlock">>] /\ todo[s] # <<>> /\ Head(todo[s]) = "lock"
            BY <1>1, <2>1, <2>2, <3>1, LastStep
        <3> QED
            BY <2>1, <2>4, <3>2, EdgeSteps
    <2> QED
        BY <2>3, <2>4
<1>4. ASSUME SendLockTimeout(s)
      PROVE  /\ Kept(s) /\ Off(s) /\ s \in Senders /\ ~Loops(s) /\ At(s, "lock") /\ ~At(s, "raw")' /\ ~Has(s, "abort")'
             /\ ~At(s, "copy")' /\ ~At(s, "lock")' /\ ~Has(s, "unlock")' /\ (todo[s] = <<>>)'
    <2>1. At(s, "lock") /\ s \in Senders
        BY <1>4, <1>1, Shape DEF SendLockTimeout, Do
    <2>2. "lock" \in Ends(s) /\ <<>> \in Seq(Steps(s))
        BY <2>1, SendAssumption, EmptySeq DEF Ends
    <2>3. Do(s, "lock", <<>>)
        BY <1>4 DEF SendLockTimeout
    <2>4. todo' = [todo EXCEPT ![s] = <<>>] /\ todo[s] # <<>> /\ Head(todo[s]) = "lock"
        BY <1>1, <2>2, <2>3, LastStep
    <2> QED
        BY <2>1, <2>4, EdgeSteps
<1>5. ASSUME PartialText(s)
      PROVE  /\ Kept(s) /\ Off(s) /\ s \in Partials /\ ~Loops(s) /\ todo[s] = <<>> /\ ~At(s, "raw")' /\ ~Has(s, "abort")'
             /\ At(s, "copy")' /\ ~At(s, "lock")' /\ ~Has(s, "unlock")' /\ (todo[s] # <<>>)'
    <2>1. s \in Partials /\ todo[s] = <<>> /\ todo' = [todo EXCEPT ![s] = <<"copy", "return">>]
        BY <1>5 DEF PartialText
    <2> QED
        BY <2>1, EdgeSteps
<1>6. ASSUME PartialCont(s)
      PROVE  /\ Kept(s) /\ Off(s) /\ s \in Partials /\ ~Loops(s) /\ todo[s] = <<>> /\ ~At(s, "raw")' /\ ~Has(s, "abort")'
             /\ ~At(s, "lock")' /\ ~Has(s, "unlock")'
             /\ At(s, "copy")' <=> (todo[s] # <<>>)'
    <2>1. /\ s \in Partials /\ todo[s] = <<>>
          /\ \/ todo' = [todo EXCEPT ![s] = <<"copy", "return">>]
             \/ todo' = [todo EXCEPT ![s] = <<>>]
        BY <1>6 DEF PartialCont
    <2> QED
        BY <2>1, EdgeSteps
<1>7. ASSUME PartialFin(s)
      PROVE  /\ Kept(s) /\ Off(s) /\ s \in Partials /\ ~Loops(s) /\ todo[s] = <<>> /\ ~At(s, "raw")' /\ ~Has(s, "abort")'
             /\ At(s, "copy")' /\ ~At(s, "lock")' /\ ~Has(s, "unlock")' /\ (todo[s] # <<>>)'
    <2>1. s \in Partials /\ todo[s] = <<>> /\ todo' = [todo EXCEPT ![s] = <<"copy", "return">>]
        BY <1>7 DEF PartialFin
    <2> QED
        BY <2>1, EdgeSteps
<1>8. ASSUME Return(s)
      PROVE  /\ Kept(s) /\ Off(s) /\ s \in Partials /\ ~Loops(s) /\ At(s, "return") /\ ~At(s, "raw")' /\ ~Has(s, "abort")'
             /\ ~At(s, "copy")' /\ ~At(s, "lock")' /\ ~Has(s, "unlock")' /\ (todo[s] = <<>>)'
    <2>1. At(s, "return") /\ s \in Partials
        BY <1>8, <1>1, Shape DEF Return, Do
    <2>2. "return" \in Ends(s) /\ <<>> \in Seq(Steps(s))
        BY <2>1, SendAssumption, EmptySeq DEF Ends
    <2>3. Do(s, "return", <<>>)
        BY <1>8 DEF Return
    <2>4. todo' = [todo EXCEPT ![s] = <<>>] /\ todo[s] # <<>> /\ Head(todo[s]) = "return"
        BY <1>1, <2>2, <2>3, LastStep
    <2> QED
        BY <2>1, <2>4, EdgeSteps
<1> QED
    BY <1>2, <1>3, <1>4, <1>5, <1>6, <1>7, <1>8

-----------------------------------------------------------------------------
(* What the server gets.                                                   *)

\* The fragments of the message it is in, with the one that arrives.
Now == Append(parts, tx_buffer)

LEMMA NowFacts ==
    ASSUME parts \in Seq(Piece), tx_buffer \in Piece
    PROVE  /\ Now \in Seq(Piece) /\ Now # <<>>
           /\ Len(parts) \in Nat /\ Len(Now) = Len(parts) + 1
           /\ 1 \in 1 .. Len(Now) /\ Len(Now) \in 1 .. Len(Now)
           /\ \A i \in 1 .. Len(parts) : Now[i] = parts[i]
           /\ Now[Len(Now)] = tx_buffer
           /\ \A i \in 1 .. Len(Now) : i \in 1 .. Len(parts) \/ i = Len(Now)
           /\ \A i \in 1 .. Len(Now) : Now[i] \in Piece
           /\ DOMAIN Now = 1 .. Len(Now)
<1>1. Len(parts) \in Nat
    BY LenProperties
<1>2. /\ Now \in Seq(Piece) /\ Len(Now) = Len(parts) + 1
      /\ \A i \in 1 .. Len(parts) : Now[i] = parts[i]
      /\ Now[Len(parts) + 1] = tx_buffer
    BY AppendProperties DEF Now
<1>3. Now # <<>>
    BY AppendProperties DEF Now
<1>4. DOMAIN Now = 1 .. Len(Now) /\ \A i \in 1 .. Len(Now) : Now[i] \in Piece
    BY <1>2, LenProperties, ElementOfSeq
<1> HIDE DEF Now
<1> QED
    BY <1>1, <1>2, <1>3, <1>4

\* The message that has arrived when the fragment is the last one.
Complete == [of |-> Now[1].of, no |-> Now[1].no, len |-> Now[Len(Now)].to]

\* The fragment goes on with a message, and ends it only when that is whole.
Legal(f) ==
    /\ f.starts = (parts = <<>>)
    /\ f.fin => \A i \in DOMAIN Now :
                   /\ Now[i].of = Now[1].of /\ Now[i].no = Now[1].no
                   /\ Now[i].from = IF i = 1 THEN 0 ELSE Now[i - 1].to

LEMMA ArriveFacts ==
    ASSUME NEW f, Arrive(f)
    PROVE  /\ parts' = <<>> \/ parts' = Now
           /\ done' = done \/ done' = done \cup {Complete}
           /\ garbled' = TRUE \/ garbled' = garbled
           /\ garbled' = TRUE /\ ~garbled => ~Legal(f)
           /\ garbled' = garbled \/ ~Legal(f)
           /\ ~garbled /\ Legal(f) => /\ garbled' = garbled
                                      /\ parts' = IF f.fin THEN <<>> ELSE Now
                                      /\ done' = IF f.fin THEN done \cup {Complete} ELSE done
<1> DEFINE whole == \A i \in DOMAIN Now :
                       /\ Now[i].of = Now[1].of /\ Now[i].no = Now[1].no
                       /\ Now[i].from = (IF i = 1 THEN 0 ELSE Now[i - 1].to)
           bad == garbled \/ f.starts # (parts = <<>>) \/ (f.fin /\ ~whole)
<1>1. IF bad THEN garbled' = TRUE /\ parts' = <<>> /\ done' = done
      ELSE /\ garbled' = garbled
           /\ parts' = IF f.fin THEN <<>> ELSE Now
           /\ done' = IF f.fin THEN done \cup {Complete} ELSE done
    BY DEF Arrive, Now, Complete
<1>2. bad <=> garbled \/ ~Legal(f)
    BY DEF Legal
<1> HIDE DEF bad
<1> QED
    BY <1>1, <1>2

-----------------------------------------------------------------------------
(* Every step keeps the invariant, part by part.                           *)

LEMMA FrameLength ==
    ASSUME Types, NEW s \in Users, msg[s].widx <= msg[s].len
    PROVE  /\ msg[s] \in Message /\ Frame(s).length \in Nat
           /\ msg[s].no \in Nat /\ msg[s].len \in Nat /\ msg[s].widx \in Nat
           /\ Frame(s).fin <=> msg[s].fin /\ msg[s].len - msg[s].widx <= buffer_size
           /\ Frame(s).starts <=> msg[s].opcode = "TEXT"
           /\ msg[s].widx + Frame(s).length <= msg[s].len
           /\ Frame(s).length # 0 => msg[s].len > 0
           /\ msg[s].widx + Frame(s).length < msg[s].len
                 <=> ~(msg[s].len - msg[s].widx <= buffer_size)
<1>1. msg[s] \in Message
    BY DEF Types, Values
<1>2. msg[s].no \in Nat /\ msg[s].len \in Nat /\ msg[s].widx \in Nat /\ msg[s].fin \in BOOLEAN
    BY <1>1 DEF Message
<1>3. buffer_size \in Nat
    BY SendAssumption
<1> DEFINE m == msg[s]
           need == IF m.len - m.widx > buffer_size THEN buffer_size ELSE m.len - m.widx
<1>4. /\ Frame(s).length = need /\ Frame(s).starts = (m.opcode = "TEXT")
      /\ Frame(s).fin = (m.fin /\ m.len - m.widx <= buffer_size)
    BY DEF Frame
<1> HIDE DEF m
<1>5. /\ need \in Nat /\ m.widx + need <= m.len /\ (need # 0 => m.len > 0)
      /\ m.widx + need < m.len <=> ~(m.len - m.widx <= buffer_size)
    <2>1. m.len \in Nat /\ m.widx \in Nat /\ m.widx <= m.len
        BY <1>2 DEF m
    <2> QED
        BY <2>1, <1>3
<1> HIDE DEF need
<1>6. m = msg[s]
    BY DEF m
<1> QED
    BY <1>1, <1>2, <1>4, <1>5, <1>6

LEMMA KeptTypes ==
    ASSUME Types, NEW th, Kept(th), limits' = limits, Values'
    PROVE  Types'
BY DEF Types, Kept

\* The lock is free when a sender is to take it and may.
LEMMA LockFree ==
    ASSUME Types, Locked, NEW s \in Threads, At(s, "lock"), Free(lock, s)
    PROVE  lock = <<>>
<1>1. lock # <<s>>
    BY Shape DEF Locked
<1>2. \A th \in Threads : lock = <<th>> => Head(lock) = th
    OBVIOUS
<1> QED
    BY <1>1, <1>2 DEF Types, Values, Free

LEMMA TypesKept ==
    ASSUME SendInv, Step, limits' = limits
    PROVE  Types'
<1> USE DEF SendInv
<1>1. ASSUME NEW th \in Threads, Report(th), UNCHANGED <<client, msg, server, users>>
      PROVE  Types'
    <2>1. Kept(th)
        BY <1>1, ReportTodo DEF Report
    <2>2. queue' \in {<<>>} \cup {<<t>> : t \in Threads}
        <3>1. CASE RunTake(th)
            <4>1. PICK t \in Threads : queue = <<t>>
                BY <3>1 DEF RunTake, Types, Values
            <4>2. queue' = <<>>
                BY <3>1, <4>1 DEF RunTake
            <4> QED
                BY <4>2
        <3>2. CASE queue' = queue
            BY <3>2 DEF Types, Values
        <3>3. CASE queue' = <<th>>
            BY <3>3
        <3> QED
            BY <1>1, <3>1, <3>2, <3>3
            DEF Report, Post, RunNothing, Handle, Error, ErrorFree, ErrorMalloc, ErrorMallocFailed,
                ErrorPrint, errors
    <2>3. Values'
        BY <1>1, <2>2 DEF Types, Values, client, server
    <2> QED
        BY <2>1, <2>3, KeptTypes
<1>2. ASSUME NEW th \in Threads, Abort(th)
      PROVE  Types'
    <2>1. Kept(th)
        BY <1>2, AbortTodo
    <2>2. Values'
        BY <1>2 DEF Abort, Types, Values, server
    <2> QED
        BY <2>1, <2>2, KeptTypes
<1>lost. ASSUME NEW th \in Threads, Lost(th)
      PROVE  Types'
    <2>1. Kept(th)
        BY <1>lost, LostTodo
    <2>2. Values'
        BY <1>lost DEF Lost, Types, Values, server
    <2> QED
        BY <2>1, <2>2, KeptTypes
<1>3. ASSUME NEW th \in Threads, Unlock(th)
      PROVE  Types'
    <2>1. Kept(th) /\ At(th, "unlock")
        BY <1>3, UnlockTodo
    <2>2. lock = <<th>>
        BY <2>1, Shape DEF Locked
    <2>3. lock' = <<>>
        BY <1>3, <2>2 DEF Unlock
    <2>4. Values'
        BY <1>3, <2>3 DEF Unlock, Types, Values, server
    <2> QED
        BY <2>1, <2>4, KeptTypes
<1>4. ASSUME NEW s \in Users, Copy(s)
      PROVE  Types'
    <2>1. Kept(s)
        BY <1>4, CopyTodo
    <2>2. msg[s] \in Message /\ Frame(s).length \in Nat
        BY <1>4, FrameLength DEF Sending, Sent
    <2>3. tx_buffer' \in Piece
        BY <1>4, <2>2 DEF Copy, Piece, Message
    <2>4. Values'
        BY <1>4, <2>3, SendAssumption DEF Copy, Types, Values, server, Users
    <2> QED
        BY <2>1, <2>4, KeptTypes
<1>5. ASSUME NEW s \in Users, Raw(s)
      PROVE  Types'
    <2> DEFINE m == [msg[s] EXCEPT !.widx = @ + Frame(s).length, !.opcode = "NONE"]
    <2>1. Do(s, "raw", IF More(m) THEN <<"copy">> ELSE <<>>) /\ msg' = [msg EXCEPT ![s] = m]
        BY <1>5 DEF Raw
    <2>2. msg[s] \in Message /\ Frame(s).length \in Nat
        BY FrameLength DEF Sending, Sent
    <2>3. m \in Message
        <3> DEFINE w == msg[s].widx + Frame(s).length
        <3>1. w \in Nat
            BY <2>2 DEF Message
        <3>2. m = [msg[s] EXCEPT !.widx = w, !.opcode = "NONE"]
            OBVIOUS
        <3> HIDE DEF w, m
        <3> QED
            BY <2>2, <3>1, <3>2 DEF Message
    <2> HIDE DEF m
    <2>4. More(m) \in BOOLEAN
        BY DEF More
    <2>5. Kept(s) /\ At(s, "raw")
        BY <2>1, <2>4, RawTodo
    <2>6. tx_buffer \in Piece /\ parts \in Seq(Piece)
        BY <2>5 DEF Sending, Sent, Types, Values
    <2>7. Arrive(Frame(s))
        BY <1>5 DEF Raw
    <2>8. parts' \in Seq(Piece) /\ Complete \in Arrived
        <3>1. Now \in Seq(Piece) /\ Now[1] \in Piece /\ Now[Len(Now)] \in Piece
            BY <2>6, NowFacts
        <3>2. <<>> \in Seq(Piece)
            BY EmptySeq
        <3> QED
            BY <3>1, <3>2, <2>7, ArriveFacts DEF Complete, Piece, Arrived
    <2>9. garbled' \in BOOLEAN /\ done' \subseteq Arrived
        BY <2>7, <2>8, ArriveFacts DEF Types, Values
    <2>10. msg' \in [Users -> Message]
        BY <2>1, <2>3 DEF Types, Values
    <2>11. Values'
        BY <1>5, <2>8, <2>9, <2>10 DEF Raw, Types, Values, client
    <2> QED
        BY <2>5, <2>11, KeptTypes
<1>6. ASSUME NEW s \in Users, RawFailed(s)
      PROVE  Types'
    <2>1. Kept(s)
        BY <1>6, RawFailedTodo
    <2>2. msg' \in [Users -> Message]
        <3>1. PICK wlen \in {-1, 0} :
                 /\ wlen = 0 => Frame(s).length # 0
                 /\ msg' = [msg EXCEPT ![s] = [msg[s] EXCEPT !.ok = FALSE, !.ret = wlen]]
            BY <1>6 DEF RawFailed
        <3>2. msg[s] \in Message /\ (wlen = 0 => msg[s].len > 0)
            BY <3>1, FrameLength DEF Sending, Sent
        <3>3. [msg[s] EXCEPT !.ok = FALSE, !.ret = wlen] \in Message
            BY <3>2 DEF Message
        <3> QED
            BY <3>1, <3>3 DEF Types, Values
    <2>3. Values'
        BY <1>6, <2>2 DEF RawFailed, Types, Values, client, server
    <2> QED
        BY <2>1, <2>3, KeptTypes
<1>7. ASSUME NEW s \in Users, SendCall(s) \/ PartialText(s)
      PROVE  Types'
    <2>1. Kept(s)
        BY <1>7, SendTodo
    <2>2. PICK n \in limits.lengths, opcode \in {"TEXT"}, fin \in BOOLEAN :
             msg' = [msg EXCEPT ![s] = Begin(s, n, opcode, fin)]
        BY <1>7 DEF SendCall, PartialText
    <2>3. Begin(s, n, opcode, fin) \in Message
        <3>1. msg[s].no \in Nat /\ n \in Nat
            BY SendAssumption DEF Types, Values, Message
        <3> QED
            BY <3>1 DEF Begin, Message
    <2>4. msg' \in [Users -> Message]
        BY <2>2, <2>3 DEF Types, Values
    <2>5. UNCHANGED <<queue, client, server, users>>
        BY <1>7 DEF SendCall, PartialText
    <2>6. Values'
        BY <2>4, <2>5 DEF Types, Values, client, server
    <2> QED
        BY <2>1, <2>6, KeptTypes
<1>8. ASSUME NEW s \in Users, SendLock(s)
      PROVE  Types'
    <2>1. Kept(s) /\ At(s, "lock") /\ s \in Threads /\ Free(lock, s)
        BY <1>8, SendTodo, SendAssumption DEF SendLock, Users
    <2>2. lock = <<>>
        BY <2>1, LockFree
    <2>3. lock' = <<s>>
        <3>1. <<s>> \o <<>> = <<s>>
            <4>1. <<s>> \in Seq(Threads)
                BY <2>1
            <4> QED
                BY <4>1, ConcatEmptySeq
        <3> QED
            BY <1>8, <2>2, <3>1 DEF SendLock
    <2>4. msg' \in [Users -> Message]
        <3>1. [msg[s] EXCEPT !.ok = (state = "CONNECTED")] \in Message
            BY DEF Types, Values, Message
        <3>2. msg' = [msg EXCEPT ![s] = [msg[s] EXCEPT !.ok = (state = "CONNECTED")]]
            BY <1>8 DEF SendLock
        <3> QED
            BY <3>1, <3>2 DEF Types, Values
    <2>5. Values'
        BY <1>8, <2>1, <2>3, <2>4 DEF SendLock, Types, Values, server
    <2> QED
        BY <2>1, <2>5, KeptTypes
<1>9. ASSUME NEW s \in Users, SendLockTimeout(s)
      PROVE  Types'
    <2>1. Kept(s)
        BY <1>9, SendTodo
    <2>2. msg' \in [Users -> Message]
        <3>1. [msg[s] EXCEPT !.ok = FALSE] \in Message
            BY DEF Types, Values, Message
        <3>2. msg' = [msg EXCEPT ![s] = [msg[s] EXCEPT !.ok = FALSE]]
            BY <1>9 DEF SendLockTimeout
        <3> QED
            BY <3>1, <3>2 DEF Types, Values
    <2>3. Values'
        BY <1>9, <2>2 DEF SendLockTimeout, Types, Values, client, server
    <2> QED
        BY <2>1, <2>3, KeptTypes
<1>10. ASSUME NEW s \in Users, PartialCont(s)
       PROVE  Types'
    <2>1. Kept(s)
        BY <1>10, SendTodo
    <2>2. PICK n \in limits.lengths : msg' = [msg EXCEPT ![s].len = @ + n]
        BY <1>10 DEF PartialCont
    <2>3. msg' \in [Users -> Message]
        <3>1. msg[s].len \in Nat /\ n \in Nat
            BY SendAssumption DEF Types, Values, Message
        <3>2. [msg[s] EXCEPT !.len = msg[s].len + n] \in Message
            <4> DEFINE l == msg[s].len + n
            <4>1. l \in Nat /\ msg[s] \in Message /\ (msg[s].len > 0 => l > 0)
                BY <3>1 DEF Types, Values
            <4> HIDE DEF l
            <4>2. [msg[s] EXCEPT !.len = l] \in Message
                BY <4>1 DEF Message
            <4> QED
                BY <4>2 DEF l
        <3>3. msg' = [msg EXCEPT ![s] = [msg[s] EXCEPT !.len = msg[s].len + n]]
            BY <2>2
        <3> QED
            BY <3>2, <3>3 DEF Types, Values
    <2>4. Values'
        BY <1>10, <2>3 DEF PartialCont, Types, Values, client, server
    <2> QED
        BY <2>1, <2>4, KeptTypes
<1>11. ASSUME NEW s \in Users, PartialFin(s)
       PROVE  Types'
    <2>1. Kept(s)
        BY <1>11, SendTodo
    <2>2. msg' \in [Users -> Message]
        <3>1. [msg[s] EXCEPT !.opcode = "FIN", !.fin = TRUE] \in Message
            BY DEF Types, Values, Message
        <3>2. msg' = [msg EXCEPT ![s] = [msg[s] EXCEPT !.opcode = "FIN", !.fin = TRUE]]
            BY <1>11 DEF PartialFin, Types, Values, Message
        <3> QED
            BY <3>1, <3>2 DEF Types, Values
    <2>3. Values'
        BY <1>11, <2>2 DEF PartialFin, Types, Values, client, server
    <2> QED
        BY <2>1, <2>3, KeptTypes
<1>12. ASSUME NEW s \in Users, Return(s)
       PROVE  Types'
    <2>1. Kept(s)
        BY <1>12, SendTodo
    <2>2. Values'
        BY <1>12 DEF Return, Types, Values, client, server
    <2> QED
        BY <2>1, <2>2, KeptTypes
<1>13. ASSUME TurnInit \/ TurnConnected \/ TurnWait
       PROVE  Types'
    <2>1. Kept(Task)
        BY <1>13, TurnTodo
    <2>2. Task \in Threads
        BY SendAssumption
    <2>3. Values'
        BY <1>13, <2>2 DEF TurnInit, TurnConnected, TurnWait, Turn, Types, Values, server
    <2> QED
        BY <2>1, <2>3, KeptTypes
<1>14. ASSUME Connected \/ ConnectFailed \/ Poll \/ PollFailed
       PROVE  Types'
    <2>1. Kept(Task)
        <3>1. Types
            OBVIOUS
        <3> QED
            BY <1>14, <3>1, InTurnTodo, Zenon
    <2>2. CASE Connected
        <3>1. users' \subseteq Threads /\ parts' \in Seq(Piece) /\ conn' \in Nat
            BY <2>2, EmptySeq DEF Connected, Types, Values
        <3>2. Values'
            BY <2>2, <3>1 DEF Connected, Types, Values
        <3> QED
            BY <2>1, <3>2, KeptTypes
    <2>3. CASE ConnectFailed \/ Poll \/ PollFailed
        <3>1. Values'
            BY <2>3 DEF ConnectFailed, Poll, PollFailed, Types, Values, client, server
        <3> QED
            BY <2>1, <3>1, KeptTypes
    <2> QED
        BY <1>14, <2>2, <2>3
<1> QED
    BY <1>1, <1>lost, <1>2, <1>3, <1>4, <1>5, <1>6, <1>7, <1>8, <1>9, <1>10, <1>11, <1>12, <1>13, <1>14
    DEF Step, Users

\* A step that is no report has nothing to do with the error buffer and the queue.
LEMMA Quiet ==
    ASSUME Types, Step
    PROVE  \/ \E th \in Threads : Report(th) /\ UNCHANGED <<client, msg, server, users>>
           \/ \E th \in Threads : Kept(th) /\ Off(th) /\ UNCHANGED <<queue, errors>>
<1>1. Task \in Threads /\ \A s \in Users : s \in Threads
    BY SendAssumption DEF Users
<1>2. ASSUME NEW th \in Threads, Abort(th)
      PROVE  Kept(th) /\ Off(th) /\ UNCHANGED <<queue, errors>>
    BY <1>2, AbortTodo DEF Abort
<1>lost. ASSUME NEW th \in Threads, Lost(th)
      PROVE  Kept(th) /\ Off(th) /\ UNCHANGED <<queue, errors>>
    BY <1>lost, LostTodo DEF Lost
<1>3. ASSUME NEW th \in Threads, Unlock(th)
      PROVE  Kept(th) /\ Off(th) /\ UNCHANGED <<queue, errors>>
    BY <1>3, UnlockTodo DEF Unlock
<1>4. ASSUME NEW s \in Users, Copy(s)
      PROVE  Kept(s) /\ Off(s) /\ UNCHANGED <<queue, errors>>
    BY <1>4, CopyTodo DEF Copy
<1>5. ASSUME NEW s \in Users, Raw(s)
      PROVE  Kept(s) /\ Off(s) /\ UNCHANGED <<queue, errors>>
    <2> DEFINE m == [msg[s] EXCEPT !.widx = @ + Frame(s).length, !.opcode = "NONE"]
    <2>1. Do(s, "raw", IF More(m) THEN <<"copy">> ELSE <<>>) /\ UNCHANGED <<queue, errors>>
        BY <1>5 DEF Raw
    <2> HIDE DEF m
    <2>2. More(m) \in BOOLEAN
        BY DEF More
    <2> QED
        BY <2>1, <2>2, RawTodo
<1>6. ASSUME NEW s \in Users, RawFailed(s)
      PROVE  Kept(s) /\ Off(s) /\ UNCHANGED <<queue, errors>>
    BY <1>6, RawFailedTodo DEF RawFailed
<1>7. ASSUME NEW s \in Users,
             \/ SendCall(s) \/ SendLock(s) \/ SendLockTimeout(s)
             \/ PartialText(s) \/ PartialCont(s) \/ PartialFin(s) \/ Return(s)
      PROVE  Kept(s) /\ Off(s) /\ UNCHANGED <<queue, errors>>
    <2>1. Kept(s) /\ Off(s)
        BY <1>7, SendTodo
    <2>2. UNCHANGED <<queue, errors>>
        BY <1>7 DEF SendCall, SendLock, SendLockTimeout, PartialText, PartialCont, PartialFin, Return
    <2> QED
        BY <2>1, <2>2
<1>8. ASSUME TurnInit \/ TurnConnected \/ TurnWait
      PROVE  Kept(Task) /\ Off(Task) /\ UNCHANGED <<queue, errors>>
    BY <1>8, TurnTodo DEF TurnInit, TurnConnected, TurnWait
<1>9. ASSUME Connected \/ ConnectFailed \/ Poll \/ PollFailed
      PROVE  Kept(Task) /\ Off(Task) /\ UNCHANGED <<queue, errors>>
    BY <1>9, InTurnTodo DEF Connected, ConnectFailed, Poll, PollFailed
<1> QED
    BY <1>1, <1>lost, <1>2, <1>3, <1>4, <1>5, <1>6, <1>7, <1>8, <1>9 DEF Step, Users

LEMMA EventsKept ==
    ASSUME SendInv, Step
    PROVE  Events'
<1> USE DEF SendInv
<1>1. ASSUME NEW th \in Threads, Report(th)
      PROVE  Events'
    <2>1. Kept(th)
        BY <1>1, ReportTodo DEF Report
    <2>2. \A other \in Threads : other # th => (At(other, "run")' <=> At(other, "run"))
        BY <2>1, KeptOthers
    <2>3. \A other \in Threads : At(other, "run") => queue = <<other>>
        BY DEF Events, RunsItsOwn
    <2>4. \A t, other \in Threads : <<t>> = <<other>> => t = other
        <3>1. \A t : <<t>>[1] = t
            OBVIOUS
        <3> QED
            BY <3>1, Zenon
    <2>5. \A t \in Threads : <<t>> # <<>>
        OBVIOUS
    <2>6. CASE Post(th)
        <3>1. queue = <<>> /\ queue' = <<th>>
            BY <2>6 DEF Post
        <3>2. \A other \in Threads : other # th => ~At(other, "run")'
            BY <2>2, <2>3, <2>5, <3>1
        <3> QED
            BY <3>1, <3>2 DEF Events, RunsItsOwn
    <2>7. CASE RunTake(th)
        <3>1. At(th, "run") /\ ~At(th, "run")'
            BY <2>7, ReportTodo
        <3>2. \A other \in Threads : other # th => ~At(other, "run")
            BY <2>3, <2>4, <3>1
        <3> QED
            BY <3>1, <3>2, <2>2 DEF Events, RunsItsOwn
    <2>8. CASE ~Post(th) /\ ~RunTake(th)
        <3>1. ~At(th, "run")'
            BY <1>1, <2>8, ReportTodo DEF Report
        <3>2. queue' = queue
            BY <1>1, <2>8 DEF Report, RunNothing, Handle, Error, ErrorFree, ErrorMalloc,
                              ErrorMallocFailed, ErrorPrint
        <3> QED
            BY <3>1, <3>2, <2>2, <2>3 DEF Events, RunsItsOwn
    <2> QED
        BY <2>6, <2>7, <2>8
<1>2. ASSUME NEW th \in Threads, Kept(th), Off(th), queue' = queue
      PROVE  Events'
    <2>1. \A other \in Threads : At(other, "run")' => At(other, "run")
        BY <1>2, KeptOthers DEF Off
    <2> QED
        BY <1>2, <2>1 DEF Events, RunsItsOwn
<1> QED
    BY <1>1, <1>2, Quiet

LEMMA LockedKept ==
    ASSUME SendInv, Step
    PROVE  Locked'
<1> USE DEF SendInv
<1>1. Task \in Threads /\ \A s \in Users : s \in Threads
    BY SendAssumption DEF Users
<1>2. /\ \A t, other \in Threads : <<t>> = <<other>> => t = other
      /\ \A t \in Threads : <<t>> # <<>>
    <2>1. \A t : <<t>>[1] = t
        OBVIOUS
    <2>2. \A t \in Threads : <<t>> # <<>>
        OBVIOUS
    <2> QED
        BY <2>1, <2>2, Zenon
<1>3. ASSUME NEW th \in Threads, Kept(th), lock' = lock,
             Has(th, "unlock")' <=> Has(th, "unlock")
      PROVE  Locked'
    <2>1. \A other \in Threads : Has(other, "unlock")' <=> Has(other, "unlock")
        BY <1>3, KeptOthers DEF As, Nearly
    <2> QED
        BY <1>3, <2>1 DEF Locked
<1>4. ASSUME NEW th \in Threads, Kept(th), lock = <<>>, lock' = <<th>>, Has(th, "unlock")'
      PROVE  Locked'
    <2>1. \A other \in Threads : other # th => ~Has(other, "unlock")'
        BY <1>2, <1>4, KeptOthers DEF As, Nearly, Locked
    <2> QED
        BY <1>2, <1>4, <2>1 DEF Locked
<1>5. ASSUME NEW th \in Threads, Report(th), lock' = lock
      PROVE  Locked'
    <2>1. Kept(th) /\ As(th)
        BY <1>5, ReportTodo DEF Report
    <2> QED
        BY <1>3, <1>5, <2>1 DEF As, Nearly
<1>6. ASSUME NEW th \in Threads, Abort(th)
      PROVE  Locked'
    <2>1. Kept(th) /\ Nearly(th) /\ lock' = lock
        BY <1>6, AbortTodo DEF Abort
    <2> QED
        BY <1>3, <2>1 DEF Nearly
<1>lost. ASSUME NEW th \in Threads, Lost(th)
      PROVE  Locked'
    <2>1. Kept(th) /\ As(th) /\ lock' = lock
        BY <1>lost, LostTodo DEF Lost
    <2> QED
        BY <1>3, <2>1 DEF As, Nearly
<1>7. ASSUME NEW th \in Threads, Unlock(th)
      PROVE  Locked'
    <2>1. Kept(th) /\ At(th, "unlock") /\ ~Has(th, "unlock")'
        BY <1>7, UnlockTodo
    <2>2. lock = <<th>> /\ lock' = <<>>
        <3>1. lock = <<th>>
            BY <2>1, Shape DEF Locked
        <3> QED
            BY <1>7, <3>1 DEF Unlock
    <2>3. \A other \in Threads : other # th => ~Has(other, "unlock")'
        BY <1>2, <2>1, <2>2, KeptOthers DEF As, Nearly, Locked
    <2> QED
        BY <1>2, <2>1, <2>2, <2>3 DEF Locked
<1>8. ASSUME NEW s \in Users, Copy(s)
      PROVE  Locked'
    BY <1>1, <1>3, <1>8, CopyTodo DEF Copy
<1>9. ASSUME NEW s \in Users, Raw(s)
      PROVE  Locked'
    <2> DEFINE m == [msg[s] EXCEPT !.widx = @ + Frame(s).length, !.opcode = "NONE"]
    <2>1. Do(s, "raw", IF More(m) THEN <<"copy">> ELSE <<>>) /\ lock' = lock
        BY <1>9 DEF Raw, client
    <2> HIDE DEF m
    <2>2. More(m) \in BOOLEAN
        BY DEF More
    <2> QED
        BY <1>1, <1>3, <2>1, <2>2, RawTodo
<1>10. ASSUME NEW s \in Users, RawFailed(s)
       PROVE  Locked'
    BY <1>1, <1>3, <1>10, RawFailedTodo DEF RawFailed, client
<1>11. ASSUME NEW s \in Users, SendLock(s)
       PROVE  Locked'
    <2>1. Kept(s) /\ At(s, "lock") /\ Has(s, "unlock")'
        BY <1>11, SendTodo
    <2>2. lock = <<>>
        BY <1>1, <1>11, <2>1, LockFree DEF SendLock
    <2>3. lock' = <<s>>
        <3>1. <<s>> \o <<>> = <<s>>
            <4>1. <<s>> \in Seq(Threads)
                BY <1>1
            <4> QED
                BY <4>1, ConcatEmptySeq
        <3> QED
            BY <1>11, <2>2, <3>1 DEF SendLock
    <2> QED
        BY <1>1, <1>4, <2>1, <2>2, <2>3
<1>12. ASSUME NEW s \in Users,
              \/ SendCall(s) \/ SendLockTimeout(s)
              \/ PartialText(s) \/ PartialCont(s) \/ PartialFin(s) \/ Return(s)
       PROVE  Locked'
    <2>1. /\ Kept(s) /\ ~Has(s, "unlock")'
          /\ \/ todo[s] = <<>> \/ At(s, "lock") \/ s \in Partials
        BY <1>12, SendTodo
    <2>2. ~Has(s, "unlock")
        BY <1>1, <2>1, Shape
    <2>3. lock' = lock
        BY <1>12 DEF SendCall, SendLockTimeout, PartialText, PartialCont, PartialFin, Return, client
    <2> QED
        BY <1>1, <1>3, <2>1, <2>2, <2>3
<1>13. ASSUME TurnInit \/ TurnConnected \/ TurnWait
       PROVE  Locked'
    <2>1. Kept(Task) /\ Has(Task, "unlock")'
        BY <1>13, TurnTodo
    <2>2. lock = <<>> /\ lock' = <<Task>>
        BY <1>13 DEF TurnInit, TurnConnected, TurnWait, Turn
    <2> QED
        BY <1>1, <1>4, <2>1, <2>2
<1>14. ASSUME Connected \/ ConnectFailed \/ Poll \/ PollFailed
       PROVE  Locked'
    <2>1. Kept(Task) /\ (Has(Task, "unlock")' <=> Has(Task, "unlock"))
        BY <1>14, InTurnTodo
    <2>2. lock' = lock
        BY <1>14 DEF Connected, ConnectFailed, Poll, PollFailed, client
    <2> QED
        BY <1>1, <1>3, <2>1, <2>2
<1>15. ASSUME NEW th \in Threads, Report(th), UNCHANGED <<client, msg, server, users>>
       PROVE  Locked'
    BY <1>5, <1>15 DEF client
<1> QED
    BY <1>6, <1>lost, <1>7, <1>8, <1>9, <1>10, <1>11, <1>12, <1>13, <1>14, <1>15 DEF Step, Users

LEMMA ErrorsQuiet ==
    ASSUME Types, Errors, NEW th \in Threads, Kept(th), Off(th), UNCHANGED errors
    PROVE  Errors'
<1>1. \A other \in Threads : other # th => \A x : At(other, x)' <=> At(other, x)
    BY KeptOthers
<1>2. UNCHANGED <<errormsg_size, errormsg_buffer, allocated, needed_size, data_ptr, met>>
    BY DEF errors
<1>3. /\ data_ptr[th] = 0
      /\ \A x \in {"post", "run", "handle", "free", "malloc", "print"} : ~At(th, x)
      /\ \A x \in {"run", "handle", "free", "malloc", "print"} : ~At(th, x)'
    BY DEF Errors, Off
<1>4. ~InError(th) /\ ~InError(th)'
    BY <1>2, <1>3 DEF InError
<1>5. \A other \in Threads : InError(other)' <=> InError(other)
    BY <1>1, <1>2, <1>4 DEF InError
<1>6. \A other \in Threads : data_ptr'[other] # 0 =>
         \E x \in {"post", "run", "handle"} : At(other, x)'
    BY <1>1, <1>2, <1>3 DEF Errors
<1>7. \A other \in Threads : /\ At(other, "malloc")' <=> At(other, "malloc")
                             /\ At(other, "print")' <=> At(other, "print")
    BY <1>1, <1>3
<1> QED
    BY <1>2, <1>5, <1>6, <1>7 DEF Errors

LEMMA ErrorsKept ==
    ASSUME SendInv, Step
    PROVE  Errors'
<1> USE DEF SendInv
<1>1. ASSUME NEW th \in Threads, Report(th)
      PROVE  Errors'
    <2>1. Kept(th)
        BY <1>1, ReportTodo DEF Report
    <2>2. \A other \in Threads : other # th => \A x : At(other, x)' <=> At(other, x)
        BY <2>1, KeptOthers
    <2>3. \A x, y : At(th, x) /\ At(th, y) => x = y
        BY DEF At
    <2>4. ASSUME NEW other \in Threads, other # th, data_ptr'[other] = data_ptr[other]
          PROVE  InError(other)' <=> InError(other)
        BY <2>2, <2>4 DEF InError
    <2>5. CASE Post(th)
        <3>1. At(th, "post") /\ At(th, "run")' /\ (\A x \in Firsts : ~At(th, x)')
            BY <2>5, ReportTodo
        <3>2. UNCHANGED <<errormsg_size, errormsg_buffer, allocated, needed_size, data_ptr, met>>
            BY <2>5 DEF Post, errors
        <3>3. \A x \in {"free", "malloc", "print"} : ~At(th, x) /\ ~At(th, x)'
            BY <3>1, <2>3 DEF Firsts
        <3>4. InError(th)' <=> InError(th)
            BY <3>2, <3>3 DEF InError
        <3>5. \A other \in Threads : InError(other)' <=> InError(other)
            BY <2>4, <3>2, <3>4
        <3>6. \A other \in Threads : data_ptr'[other] # 0 =>
                 \E x \in {"post", "run", "handle"} : At(other, x)'
            BY <2>2, <3>1, <3>2 DEF Errors
        <3>7. \A other \in Threads : /\ At(other, "malloc")' <=> At(other, "malloc")
                                     /\ At(other, "print")' <=> At(other, "print")
            BY <2>2, <3>3
        <3> QED
            BY <3>2, <3>5, <3>6, <3>7 DEF Errors
    <2>6. CASE RunTake(th)
        <3>1. At(th, "run") /\ \A x : At(th, x)' <=> x = "handle"
            BY <2>6, ReportTodo
        <3>2. UNCHANGED <<errormsg_size, errormsg_buffer, allocated, needed_size, data_ptr, met>>
            BY <2>6 DEF RunTake, errors
        <3>3. \A x \in {"free", "malloc", "print"} : ~At(th, x) /\ ~At(th, x)'
            BY <3>1, <2>3
        <3>4. InError(th)' <=> InError(th)
            BY <3>2, <3>3 DEF InError
        <3>5. \A other \in Threads : InError(other)' <=> InError(other)
            BY <2>4, <3>2, <3>4
        <3>6. \A other \in Threads : data_ptr'[other] # 0 =>
                 \E x \in {"post", "run", "handle"} : At(other, x)'
            BY <2>2, <3>1, <3>2 DEF Errors
        <3>7. \A other \in Threads : /\ At(other, "malloc")' <=> At(other, "malloc")
                                     /\ At(other, "print")' <=> At(other, "print")
            BY <2>2, <3>3
        <3> QED
            BY <3>2, <3>5, <3>6, <3>7 DEF Errors
    <2>7. CASE RunNothing(th) \/ Handle(th)
        <3>1. (At(th, "run") \/ At(th, "handle")) /\ (\A x \in Firsts : ~At(th, x)')
            BY <2>7, ReportTodo
        <3>2. /\ UNCHANGED <<errormsg_size, errormsg_buffer, allocated, needed_size, met>>
              /\ data_ptr' = [data_ptr EXCEPT ![th] = 0]
            BY <2>7 DEF RunNothing, Handle
        <3>3. \A x \in {"free", "malloc", "print"} : ~At(th, x) /\ ~At(th, x)'
            BY <3>1, <2>3 DEF Firsts
        <3>4. /\ DOMAIN data_ptr' = Threads /\ data_ptr'[th] = 0
              /\ \A other \in Threads : other # th => data_ptr'[other] = data_ptr[other]
            BY <3>2 DEF Errors
        <3>5. ~InError(th)'
            BY <3>3, <3>4 DEF InError
        <3>6. \A other \in Threads : InError(other)' => InError(other)
            BY <2>4, <3>4, <3>5
        <3>7. \A other \in Threads : data_ptr'[other] # 0 =>
                 \E x \in {"post", "run", "handle"} : At(other, x)'
            BY <2>2, <3>4 DEF Errors
        <3>8. \A other \in Threads : /\ At(other, "malloc")' <=> At(other, "malloc")
                                     /\ At(other, "print")' <=> At(other, "print")
            BY <2>2, <3>3
        <3> QED
            BY <3>2, <3>4, <3>6, <3>7, <3>8 DEF Errors
    <2>8. CASE Error(th)
        <3>1. /\ At(th, "error")
              /\ \E n \in limits.sizes :
                    /\ needed_size' = [needed_size EXCEPT ![th] = n]
                    /\ \/ n > errormsg_size /\ \A x : At(th, x)' <=> x = "free"
                       \/ ~(n > errormsg_size) /\ \A x : At(th, x)' <=> x = "print"
            BY <2>8, ReportTodo
        <3>2. /\ UNCHANGED <<errormsg_size, errormsg_buffer, allocated, data_ptr>>
              /\ met' = (met \/ \E other \in Threads \ {th} : InError(other))
            BY <2>8 DEF Error
        <3>3. PICK n \in limits.sizes :
                 /\ needed_size' = [needed_size EXCEPT ![th] = n]
                 /\ \/ n > errormsg_size /\ \A x : At(th, x)' <=> x = "free"
                    \/ ~(n > errormsg_size) /\ \A x : At(th, x)' <=> x = "print"
            BY <3>1
        <3>4. n \in Nat /\ n # 0
            BY BuffersAssumption DEF Types
        <3>5. needed_size' \in [Threads -> Nat] /\ needed_size'[th] = n
            BY <3>3, <3>4 DEF Errors
        <3>6. data_ptr[th] = 0 /\ ~At(th, "malloc") /\ ~At(th, "malloc")'
            BY <3>1, <3>3, <2>3 DEF Errors
        <3>7. \A other \in Threads : data_ptr'[other] # 0 =>
                 \E x \in {"post", "run", "handle"} : At(other, x)'
            BY <2>2, <3>2, <3>6 DEF Errors
        <3>8. ASSUME ~met'
              PROVE  ~met /\ \A other \in Threads : other # th => ~InError(other) /\ ~InError(other)'
            BY <3>2, <3>8, <2>4
        <3>9. met' \in BOOLEAN
            BY <3>2
        <3>10. ASSUME ~met', \A other \in Threads : ~At(other, "malloc")'
               PROVE  /\ errormsg_buffer' \in allocated' \cup {0}
                      /\ errormsg_size' > 0 => errormsg_buffer' \in allocated'
            BY <3>2, <3>6, <3>8, <3>10, <2>2 DEF Errors
        <3>11. ASSUME ~met', NEW other \in Threads
               PROVE  /\ data_ptr'[other] \in allocated' \cup {0}
                      /\ At(other, "print")' => errormsg_buffer' \in allocated'
                                                /\ needed_size'[other] <= errormsg_size'
            <4>1. data_ptr'[other] \in allocated' \cup {0}
                BY <3>2, <3>8, <3>11 DEF Errors
            <4>2. CASE other = th
                <5>1. \A t \in Threads : ~At(t, "malloc")
                    BY <3>6, <3>8, <3>11 DEF InError
                <5>2. errormsg_size > 0 => errormsg_buffer \in allocated
                    BY <3>8, <3>11, <5>1 DEF Errors
                <5>3. At(th, "print")' => ~(n > errormsg_size)
                    BY <3>3
                <5>4. errormsg_size \in Nat
                    BY DEF Errors
                <5> QED
                    BY <4>1, <4>2, <5>2, <5>3, <5>4, <3>2, <3>4, <3>5
            <4>3. CASE other # th
                <5>1. ~At(other, "print")'
                    BY <3>8, <3>11, <4>3 DEF InError
                <5> QED
                    BY <4>1, <5>1
            <4> QED
                BY <4>2, <4>3
        <3>12. ASSUME ~met', NEW t \in Threads, NEW other \in Threads, InError(t)', InError(other)'
               PROVE  t = other
            BY <3>8, <3>12
        <3>13. errormsg_size' \in Nat /\ DOMAIN data_ptr' = Threads
            BY <3>2 DEF Errors
        <3> QED
            BY <3>5, <3>7, <3>9, <3>10, <3>11, <3>12, <3>13 DEF Errors
    <2>9. CASE At(th, "free") \/ At(th, "malloc") \/ At(th, "print")
        <3>1. InError(th) /\ data_ptr[th] = 0
            BY <2>3, <2>9 DEF InError, Errors
        <3>2. ~met => \A other \in Threads : other # th => ~InError(other)
            BY <3>1 DEF Errors
        <3>3. \A other \in Threads : data_ptr[other] # 0 =>
                 other # th /\ \E x \in {"post", "run", "handle"} : At(other, x)'
            BY <2>2, <3>1 DEF Errors
        <3>4. CASE ErrorFree(th)
            <4>1. At(th, "free") /\ \A x : At(th, x)' <=> x = "malloc"
                BY <3>4, ReportTodo
            <4>2. /\ UNCHANGED <<errormsg_size, errormsg_buffer, needed_size, data_ptr, met>>
                  /\ allocated' = allocated \ {errormsg_buffer}
                BY <3>4 DEF ErrorFree
            <4>3. ~met => \A other \in Threads : other # th => ~InError(other)'
                BY <2>4, <3>2, <4>2
            <4>4. At(th, "malloc")' /\ ~At(th, "print")'
                BY <4>1
            <4>5. ~met => \A other \in Threads : data_ptr[other] = 0 /\ ~At(other, "print")'
                BY <3>1, <3>2, <4>3, <4>4 DEF InError
            <4>6. \A other \in Threads : data_ptr'[other] # 0 =>
                     \E x \in {"post", "run", "handle"} : At(other, x)'
                BY <3>3, <4>2
            <4> QED
                BY <4>2, <4>3, <4>4, <4>5, <4>6 DEF Errors
        <3>5. CASE ErrorMalloc(th)
            <4>1. At(th, "malloc") /\ \A x : At(th, x)' <=> x = "print"
                BY <3>5, ReportTodo
            <4>2. /\ UNCHANGED <<needed_size, data_ptr, met>>
                  /\ allocated' = allocated \cup {errormsg_buffer'}
                  /\ errormsg_size' = needed_size[th]
                BY <3>5 DEF ErrorMalloc
            <4>3. ~met => \A other \in Threads : other # th => ~InError(other)'
                BY <2>4, <3>2, <4>2
            <4>4. ~met => \A other \in Threads : other # th => data_ptr[other] = 0 /\ ~At(other, "print")'
                BY <3>2, <4>3 DEF InError
            <4>5. needed_size[th] \in Nat /\ errormsg_buffer' \in allocated'
                BY <4>2 DEF Errors
            <4>6. needed_size[th] <= needed_size[th]
                BY <4>5
            <4>7. \A other \in Threads : data_ptr'[other] # 0 =>
                     \E x \in {"post", "run", "handle"} : At(other, x)'
                BY <3>3, <4>2
            <4> QED
                BY <3>1, <4>2, <4>3, <4>4, <4>5, <4>6, <4>7 DEF Errors
        <3>6. CASE ErrorMallocFailed(th)
            <4>1. At(th, "malloc") /\ (\A x \in Firsts : ~At(th, x)')
                BY <3>6, ReportTodo
            <4>2. /\ UNCHANGED <<allocated, data_ptr, met>>
                  /\ errormsg_buffer' = 0 /\ errormsg_size' = 0
                  /\ needed_size' = [needed_size EXCEPT ![th] = 0]
                BY <3>6 DEF ErrorMallocFailed
            <4>3. ~met => \A other \in Threads : other # th => ~InError(other)'
                BY <2>4, <3>2, <4>2
            <4>4. ~At(th, "print")'
                BY <4>1 DEF Firsts
            <4>5. ~met => \A other \in Threads : data_ptr[other] = 0 /\ ~At(other, "print")'
                BY <3>1, <3>2, <4>3, <4>4 DEF InError
            <4>6. needed_size' \in [Threads -> Nat]
                BY <4>2 DEF Errors
            <4>7. \A other \in Threads : data_ptr'[other] # 0 =>
                     \E x \in {"post", "run", "handle"} : At(other, x)'
                BY <3>3, <4>2
            <4> QED
                BY <4>2, <4>3, <4>5, <4>6, <4>7 DEF Errors
        <3>7. CASE ErrorPrint(th)
            <4>1. At(th, "print") /\ \A x : At(th, x)' <=> x = "post"
                BY <3>7, ReportTodo
            <4>2. /\ UNCHANGED <<errormsg_size, errormsg_buffer, allocated, met>>
                  /\ data_ptr' = [data_ptr EXCEPT ![th] = errormsg_buffer]
                  /\ needed_size' = [needed_size EXCEPT ![th] = 0]
                BY <3>7 DEF ErrorPrint
            <4>3. /\ DOMAIN data_ptr' = Threads /\ data_ptr'[th] = errormsg_buffer
                  /\ \A other \in Threads : other # th => data_ptr'[other] = data_ptr[other]
                BY <4>2 DEF Errors
            <4>4. ~met => \A other \in Threads : other # th => ~InError(other)'
                BY <2>4, <3>2, <4>3
            <4>5. ~met => \A other \in Threads : other # th => data_ptr[other] = 0 /\ ~At(other, "print")'
                BY <3>2, <4>4 DEF InError
            <4>6. ~At(th, "print")' /\ ~At(th, "malloc")' /\ ~At(th, "malloc") /\ At(th, "post")'
                BY <4>1, <2>3
            <4>7. needed_size' \in [Threads -> Nat]
                BY <4>2 DEF Errors
            <4>8. \A other \in Threads : data_ptr'[other] # 0 =>
                     \E x \in {"post", "run", "handle"} : At(other, x)'
                BY <3>3, <4>3, <4>6
            <4>9. ~met => errormsg_buffer \in allocated
                BY <4>1 DEF Errors
            <4> QED
                BY <4>2, <4>3, <4>4, <4>5, <4>6, <4>7, <4>8, <4>9 DEF Errors
        <3>8. ~(ErrorFree(th) \/ ErrorMalloc(th) \/ ErrorMallocFailed(th) \/ ErrorPrint(th)) =>
                  ~Report(th) \/ Post(th) \/ RunTake(th) \/ RunNothing(th) \/ Handle(th) \/ Error(th)
            BY DEF Report
        <3> QED
            BY <1>1, <2>5, <2>6, <2>7, <2>8, <3>4, <3>5, <3>6, <3>7, <3>8
    <2>10. ErrorFree(th) \/ ErrorMalloc(th) \/ ErrorMallocFailed(th) \/ ErrorPrint(th) =>
              At(th, "free") \/ At(th, "malloc") \/ At(th, "print")
        BY ReportTodo
    <2> QED
        BY <1>1, <2>5, <2>6, <2>7, <2>8, <2>9, <2>10 DEF Report
<1> QED
    BY <1>1, ErrorsQuiet, Quiet

LEMMA SentSame ==
    ASSUME NEW s, Sent(s), Nearly(s), msg'[s] = msg[s],
           s \in users => s \in users', tx_buffer' = tx_buffer \/ tx_buffer' # Nothing
    PROVE  Sent(s)'
BY DEF Sent, Nearly, Loops

\* What the others are at stays as it is.
LEMMA SendingBy ==
    ASSUME Types, Sending, NEW th \in Threads, Kept(th),
           \A s \in Users : s # th => msg'[s] = msg[s],
           users \subseteq users', tx_buffer' = tx_buffer \/ tx_buffer' # Nothing,
           th \in Users => Sent(th)'
    PROVE  Sending'
<1>1. ASSUME NEW s \in Users, s # th
      PROVE  Sent(s)'
    <2>1. s \in Threads
        BY SendAssumption DEF Users
    <2>2. Nearly(s)
        BY <1>1, <2>1, KeptOthers DEF As
    <2> QED
        BY <1>1, <2>2, SentSame DEF Sending
<1> QED
    BY <1>1 DEF Sending

\* The message of s when s raw-sends the fragment it has copied.
LEMMA RawMsg ==
    ASSUME Types, Sending, NEW s \in Users, Raw(s)
    PROVE  /\ Kept(s) /\ Off(s) /\ At(s, "raw") /\ ~At(s, "copy")
           /\ ~At(s, "raw")' /\ ~At(s, "lock")' /\ (todo[s] # <<>>)'
           /\ Has(s, "unlock")' <=> Has(s, "unlock")
           /\ ~Has(s, "abort") /\ ~Has(s, "abort")'
           /\ \A other \in Users : other # s => msg'[other] = msg[other]
           /\ msg'[s].no = msg[s].no /\ msg'[s].len = msg[s].len
           /\ msg'[s].widx = msg[s].widx + Frame(s).length
           /\ msg'[s].opcode = "NONE" /\ msg'[s].fin = msg[s].fin /\ msg'[s].ok = msg[s].ok
           /\ At(s, "copy")' <=> ~(msg[s].len - msg[s].widx <= buffer_size)
           /\ ~At(s, "copy")' => msg'[s].widx = msg'[s].len
           /\ tx_buffer \in Piece
           /\ open /\ Arrive(Frame(s)) /\ UNCHANGED <<client, users>>
<1> DEFINE m == [msg[s] EXCEPT !.widx = @ + Frame(s).length, !.opcode = "NONE"]
<1>1. /\ Do(s, "raw", IF More(m) THEN <<"copy">> ELSE <<>>) /\ msg' = [msg EXCEPT ![s] = m]
      /\ open /\ Arrive(Frame(s)) /\ UNCHANGED <<client, users>>
    BY DEF Raw
<1>2. /\ msg[s] \in Message /\ Frame(s).length \in Nat
      /\ msg[s].no \in Nat /\ msg[s].len \in Nat /\ msg[s].widx \in Nat
      /\ msg[s].widx + Frame(s).length <= msg[s].len
      /\ msg[s].widx + Frame(s).length < msg[s].len
            <=> ~(msg[s].len - msg[s].widx <= buffer_size)
    BY FrameLength DEF Sending, Sent
<1>3. /\ m.no = msg[s].no /\ m.len = msg[s].len /\ m.widx = msg[s].widx + Frame(s).length
      /\ m.opcode = "NONE" /\ m.fin = msg[s].fin /\ m.ok = msg[s].ok
    <2> DEFINE w == msg[s].widx + Frame(s).length
    <2>1. m = [msg[s] EXCEPT !.widx = w, !.opcode = "NONE"]
        OBVIOUS
    <2> HIDE DEF w, m
    <2>2. /\ m.no = msg[s].no /\ m.len = msg[s].len /\ m.widx = w
          /\ m.opcode = "NONE" /\ m.fin = msg[s].fin /\ m.ok = msg[s].ok
        BY <1>2, <2>1 DEF Message
    <2> QED
        BY <2>2 DEF w
<1> HIDE DEF m
<1>4. /\ msg'[s] = m
      /\ \A other \in Users : other # s => msg'[other] = msg[other]
    BY <1>1 DEF Types, Values
<1>5. /\ More(m) \in BOOLEAN /\ (More(m) <=> ~(msg[s].len - msg[s].widx <= buffer_size))
      /\ ~More(m) => m.widx = m.len
    BY <1>2, <1>3 DEF More
<1>6. /\ Kept(s) /\ Off(s) /\ At(s, "raw") /\ ~At(s, "copy")
      /\ At(s, "copy")' <=> More(m)
      /\ ~At(s, "raw")' /\ ~At(s, "lock")' /\ (todo[s] # <<>>)'
      /\ Has(s, "unlock")' <=> Has(s, "unlock")
      /\ ~Has(s, "abort") /\ ~Has(s, "abort")'
    BY <1>1, <1>5, RawTodo
<1>7. tx_buffer \in Piece
    BY <1>6 DEF Sending, Sent, Types, Values
<1> QED
    BY <1>1, <1>3, <1>4, <1>5, <1>6, <1>7

\* What becomes of the message.
LEMMA MsgTodo ==
    ASSUME Types, NEW s \in Users
    PROVE
    /\ SendCall(s) =>
          /\ \A other \in Users : other # s => msg'[other] = msg[other]
          /\ msg'[s].no = msg[s].no + 1 /\ msg'[s].len \in Nat /\ msg'[s].widx = 0
          /\ msg'[s].opcode = "TEXT" /\ msg'[s].fin = TRUE /\ msg'[s].ok = TRUE
    /\ PartialText(s) =>
          /\ \A other \in Users : other # s => msg'[other] = msg[other]
          /\ msg'[s].no = msg[s].no + 1 /\ msg'[s].len \in Nat /\ msg'[s].widx = 0
          /\ msg'[s].opcode = "TEXT" /\ msg'[s].fin = FALSE /\ msg'[s].ok = TRUE
    /\ SendLock(s) =>
          /\ \A other \in Users : other # s => msg'[other] = msg[other]
          /\ msg'[s].no = msg[s].no /\ msg'[s].len = msg[s].len
          /\ msg'[s].widx = msg[s].widx /\ msg'[s].opcode = msg[s].opcode
          /\ msg'[s].fin = msg[s].fin /\ msg'[s].ok = (state = "CONNECTED")
    /\ SendLockTimeout(s) =>
          /\ \A other \in Users : other # s => msg'[other] = msg[other]
          /\ msg'[s].no = msg[s].no /\ msg'[s].len = msg[s].len
          /\ msg'[s].widx = msg[s].widx /\ msg'[s].opcode = msg[s].opcode
          /\ msg'[s].fin = msg[s].fin /\ msg'[s].ok = FALSE
    /\ RawFailed(s) =>
          /\ \A other \in Users : other # s => msg'[other] = msg[other]
          /\ msg'[s].no = msg[s].no /\ msg'[s].len = msg[s].len
          /\ msg'[s].widx = msg[s].widx /\ msg'[s].opcode = msg[s].opcode
          /\ msg'[s].fin = msg[s].fin /\ msg'[s].ok = FALSE
    /\ PartialCont(s) =>
          /\ \A other \in Users : other # s => msg'[other] = msg[other]
          /\ msg'[s].no = msg[s].no /\ msg'[s].widx = msg[s].widx
          /\ msg'[s].opcode = msg[s].opcode /\ msg'[s].fin = msg[s].fin
          /\ msg'[s].ok = msg[s].ok /\ msg[s].len <= msg'[s].len
          /\ ~At(s, "copy")' => msg'[s].len = msg[s].len
    /\ PartialFin(s) =>
          /\ \A other \in Users : other # s => msg'[other] = msg[other]
          /\ msg'[s].no = msg[s].no /\ msg'[s].len = msg[s].len
          /\ msg'[s].widx = msg[s].widx /\ msg'[s].ok = msg[s].ok
          /\ msg'[s].opcode = "FIN" /\ msg'[s].fin = TRUE
<1>1. /\ msg \in [Users -> Message] /\ msg[s] \in Message
      /\ msg[s].no \in Nat /\ msg[s].len \in Nat
      /\ \A n \in limits.lengths : n \in Nat
    BY SendAssumption DEF Types, Values, Message
<1>2. ASSUME NEW m, msg' = [msg EXCEPT ![s] = m]
      PROVE  msg'[s] = m /\ \A other \in Users : other # s => msg'[other] = msg[other]
    BY <1>1, <1>2
<1>3. ASSUME SendCall(s)
      PROVE  /\ \A other \in Users : other # s => msg'[other] = msg[other]
             /\ msg'[s].no = msg[s].no + 1 /\ msg'[s].len \in Nat /\ msg'[s].widx = 0
             /\ msg'[s].opcode = "TEXT" /\ msg'[s].fin = TRUE /\ msg'[s].ok = TRUE
    <2>1. PICK n \in limits.lengths : msg' = [msg EXCEPT ![s] = Begin(s, n, "TEXT", TRUE)]
        BY <1>3 DEF SendCall
    <2>2. msg'[s] = Begin(s, n, "TEXT", TRUE) /\ \A other \in Users : other # s => msg'[other] = msg[other]
        BY <1>2, <2>1
    <2> QED
        BY <1>1, <2>2 DEF Begin
<1>4. ASSUME PartialText(s)
      PROVE  /\ \A other \in Users : other # s => msg'[other] = msg[other]
             /\ msg'[s].no = msg[s].no + 1 /\ msg'[s].len \in Nat /\ msg'[s].widx = 0
             /\ msg'[s].opcode = "TEXT" /\ msg'[s].fin = FALSE /\ msg'[s].ok = TRUE
    <2>1. PICK n \in limits.lengths : msg' = [msg EXCEPT ![s] = Begin(s, n, "TEXT", FALSE)]
        BY <1>4 DEF PartialText
    <2>2. msg'[s] = Begin(s, n, "TEXT", FALSE) /\ \A other \in Users : other # s => msg'[other] = msg[other]
        BY <1>2, <2>1
    <2> QED
        BY <1>1, <2>2 DEF Begin
<1>5. ASSUME SendLock(s)
      PROVE  /\ \A other \in Users : other # s => msg'[other] = msg[other]
             /\ msg'[s].no = msg[s].no /\ msg'[s].len = msg[s].len
             /\ msg'[s].widx = msg[s].widx /\ msg'[s].opcode = msg[s].opcode
             /\ msg'[s].fin = msg[s].fin /\ msg'[s].ok = (state = "CONNECTED")
    <2>1. msg' = [msg EXCEPT ![s] = [msg[s] EXCEPT !.ok = (state = "CONNECTED")]]
        BY <1>1, <1>5 DEF SendLock, Message
    <2>2. msg'[s] = [msg[s] EXCEPT !.ok = (state = "CONNECTED")] /\ \A other \in Users : other # s => msg'[other] = msg[other]
        BY <1>2, <2>1
    <2> QED
        BY <1>1, <2>2 DEF Message
<1>6. ASSUME SendLockTimeout(s)
      PROVE  /\ \A other \in Users : other # s => msg'[other] = msg[other]
             /\ msg'[s].no = msg[s].no /\ msg'[s].len = msg[s].len
             /\ msg'[s].widx = msg[s].widx /\ msg'[s].opcode = msg[s].opcode
             /\ msg'[s].fin = msg[s].fin /\ msg'[s].ok = FALSE
    <2>1. msg' = [msg EXCEPT ![s] = [msg[s] EXCEPT !.ok = FALSE]]
        BY <1>1, <1>6 DEF SendLockTimeout, Message
    <2>2. msg'[s] = [msg[s] EXCEPT !.ok = FALSE] /\ \A other \in Users : other # s => msg'[other] = msg[other]
        BY <1>2, <2>1
    <2> QED
        BY <1>1, <2>2 DEF Message
<1>7. ASSUME RawFailed(s)
      PROVE  /\ \A other \in Users : other # s => msg'[other] = msg[other]
             /\ msg'[s].no = msg[s].no /\ msg'[s].len = msg[s].len
             /\ msg'[s].widx = msg[s].widx /\ msg'[s].opcode = msg[s].opcode
             /\ msg'[s].fin = msg[s].fin /\ msg'[s].ok = FALSE
    <2>1. PICK wlen \in {-1, 0} :
             msg' = [msg EXCEPT ![s] = [msg[s] EXCEPT !.ok = FALSE, !.ret = wlen]]
        BY <1>7 DEF RawFailed
    <2>2. msg'[s] = [msg[s] EXCEPT !.ok = FALSE, !.ret = wlen] /\ \A other \in Users : other # s => msg'[other] = msg[other]
        BY <1>2, <2>1
    <2> QED
        BY <1>1, <2>2 DEF Message
<1>8. ASSUME PartialCont(s)
      PROVE  /\ \A other \in Users : other # s => msg'[other] = msg[other]
             /\ msg'[s].no = msg[s].no /\ msg'[s].widx = msg[s].widx
             /\ msg'[s].opcode = msg[s].opcode /\ msg'[s].fin = msg[s].fin
             /\ msg'[s].ok = msg[s].ok /\ msg[s].len <= msg'[s].len
             /\ ~At(s, "copy")' => msg'[s].len = msg[s].len
    <2>1. PICK n \in limits.lengths :
             /\ msg' = [msg EXCEPT ![s].len = @ + n]
             /\ todo' = [todo EXCEPT ![s] = IF n > 0 THEN <<"copy", "return">> ELSE <<>>]
        BY <1>8 DEF PartialCont
    <2>2. n > 0 => At(s, "copy")'
        <3>1. s \in Threads /\ DOMAIN todo = Threads
            BY SendAssumption DEF Users, Types
        <3>2. n > 0 => todo'[s] = <<"copy", "return">>
            BY <2>1, <3>1
        <3>3. <<"copy", "return">> # <<>> /\ Head(<<"copy", "return">>) = "copy"
            OBVIOUS
        <3>4. At(s, "copy")' <=> todo'[s] # <<>> /\ Head(todo'[s]) = "copy"
            BY DEF At
        <3> QED
            BY <3>2, <3>3, <3>4
    <2>3. ~At(s, "copy")' => n = 0
        BY <2>2, <1>1
    <2> DEFINE l == msg[s].len + n
    <2>4. msg' = [msg EXCEPT ![s] = [msg[s] EXCEPT !.len = l]]
        BY <2>1
    <2>5. msg[s].len <= l /\ (~At(s, "copy")' => l = msg[s].len)
        BY <1>1, <2>3
    <2> HIDE DEF l
    <2>6. msg'[s] = [msg[s] EXCEPT !.len = l] /\ \A other \in Users : other # s => msg'[other] = msg[other]
        BY <1>2, <2>4
    <2> QED
        BY <1>1, <2>5, <2>6 DEF Message
<1>9. ASSUME PartialFin(s)
      PROVE  /\ \A other \in Users : other # s => msg'[other] = msg[other]
             /\ msg'[s].no = msg[s].no /\ msg'[s].len = msg[s].len
             /\ msg'[s].widx = msg[s].widx /\ msg'[s].ok = msg[s].ok
             /\ msg'[s].opcode = "FIN" /\ msg'[s].fin = TRUE
    <2>1. msg' = [msg EXCEPT ![s] = [msg[s] EXCEPT !.opcode = "FIN", !.fin = TRUE]]
        BY <1>1, <1>9 DEF PartialFin, Message
    <2>2. msg'[s] = [msg[s] EXCEPT !.opcode = "FIN", !.fin = TRUE] /\ \A other \in Users : other # s => msg'[other] = msg[other]
        BY <1>2, <2>1
    <2> QED
        BY <1>1, <2>2 DEF Message
<1> QED
    BY <1>3, <1>4, <1>5, <1>6, <1>7, <1>8, <1>9

LEMMA SendingKept ==
    ASSUME SendInv, Step, limits' = limits
    PROVE  Sending'
<1> USE DEF SendInv
<1>1. Task \in Threads /\ Task \notin Users /\ \A s \in Users : s \in Threads
    BY SendAssumption DEF Users
<1>2. ASSUME NEW th \in Threads, Kept(th), Nearly(th), UNCHANGED <<msg, users, tx_buffer>>
      PROVE  Sending'
    <2>1. th \in Users => Sent(th)'
        BY <1>2, SentSame DEF Sending
    <2> QED
        BY <1>2, <2>1, SendingBy
<1>3. ASSUME Kept(Task), UNCHANGED <<msg, users, tx_buffer>>
      PROVE  Sending'
    BY <1>1, <1>3, SendingBy
<1>4. ASSUME NEW th \in Threads, Report(th), UNCHANGED <<client, msg, server, users>>
      PROVE  Sending'
    <2>1. Kept(th) /\ Nearly(th)
        BY <1>4, ReportTodo DEF Report, As
    <2> QED
        BY <1>2, <1>4, <2>1 DEF client
<1>5. ASSUME NEW th \in Threads, Abort(th)
      PROVE  Sending'
    <2>1. Kept(th) /\ Nearly(th)
        BY <1>5, AbortTodo
    <2> QED
        BY <1>2, <1>5, <2>1 DEF Abort
<1>lost. ASSUME NEW th \in Threads, Lost(th)
      PROVE  Sending'
    <2>1. Kept(th) /\ Nearly(th)
        BY <1>lost, LostTodo DEF As
    <2> QED
        BY <1>2, <1>lost, <2>1 DEF Lost
<1>6. ASSUME NEW th \in Threads, Unlock(th)
      PROVE  Sending'
    <2>1. /\ Kept(th) /\ ~Has(th, "unlock")' /\ th \notin Partials
          /\ ~Loops(th)' /\ ~At(th, "raw")' /\ ~At(th, "lock")'
          /\ th # Task => (todo[th] = <<>>)'
        BY <1>6, UnlockTodo
    <2>2. UNCHANGED <<msg, users, tx_buffer>>
        BY <1>6 DEF Unlock
    <2>3. th \in Users => Sent(th)'
        BY <1>1, <2>1, <2>2 DEF Sending, Sent
    <2> QED
        BY <2>1, <2>2, <2>3, SendingBy
<1>7. ASSUME NEW s \in Users, Copy(s)
      PROVE  Sending'
    <2>1. /\ Kept(s) /\ At(s, "copy")
          /\ ~At(s, "copy")' /\ At(s, "raw")' /\ ~At(s, "lock")' /\ (todo[s] # <<>>)'
          /\ todo[s] # <<>>
        BY <1>7, CopyTodo DEF At
    <2>2. /\ msg' = msg /\ users' = users \cup {s}
          /\ tx_buffer' = [of |-> s, no |-> msg[s].no, from |-> msg[s].widx,
                           to |-> msg[s].widx + Frame(s).length]
        BY <1>7 DEF Copy
    <2>3. tx_buffer' # Nothing
        <3>1. tx_buffer'.of = s /\ Nothing.of = Task
            BY <2>2 DEF Nothing
        <3> QED
            BY <3>1, <1>1
    <2>4. Sent(s)'
        BY <2>1, <2>2, <2>3 DEF Sending, Sent, Loops
    <2> QED
        BY <1>1, <2>1, <2>2, <2>3, <2>4, SendingBy
<1>8. ASSUME NEW s \in Users, Raw(s)
      PROVE  Sending'
    <2>1. /\ Kept(s) /\ At(s, "raw")
          /\ ~At(s, "raw")' /\ ~At(s, "lock")'
          /\ \A other \in Users : other # s => msg'[other] = msg[other]
          /\ msg'[s].no = msg[s].no /\ msg'[s].len = msg[s].len
          /\ msg'[s].widx = msg[s].widx + Frame(s).length
          /\ msg'[s].opcode = "NONE" /\ msg'[s].fin = msg[s].fin /\ msg'[s].ok = msg[s].ok
          /\ ~At(s, "copy")' => msg'[s].widx = msg'[s].len
          /\ UNCHANGED <<client, users>>
        BY <1>8, RawMsg
    <2>2. msg[s].widx + Frame(s).length <= msg[s].len
        BY FrameLength DEF Sending, Sent
    <2>3. todo[s] # <<>> /\ UNCHANGED <<users, tx_buffer>>
        BY <2>1 DEF At, client
    <2>4. Sent(s)'
        BY <2>1, <2>2, <2>3 DEF Sending, Sent, Loops
    <2> QED
        BY <1>1, <2>1, <2>3, <2>4, SendingBy
<1>9. ASSUME NEW s \in Users, RawFailed(s)
      PROVE  Sending'
    <2>1. /\ Kept(s) /\ ~At(s, "copy")' /\ ~At(s, "raw")' /\ ~At(s, "lock")'
          /\ At(s, "raw") /\ todo[s] # <<>>
        BY <1>9, RawFailedTodo DEF At
    <2>2. UNCHANGED <<users, tx_buffer>>
        BY <1>9 DEF RawFailed, client
    <2>3. /\ \A other \in Users : other # s => msg'[other] = msg[other]
          /\ msg'[s].no = msg[s].no /\ msg'[s].len = msg[s].len
          /\ msg'[s].widx = msg[s].widx /\ msg'[s].opcode = msg[s].opcode
          /\ msg'[s].fin = msg[s].fin /\ msg'[s].ok = FALSE
        BY <1>9, MsgTodo
    <2>4. Sent(s)'
        BY <2>1, <2>2, <2>3 DEF Sending, Sent, Loops
    <2> QED
        BY <1>1, <2>1, <2>2, <2>3, <2>4, SendingBy
<1>10. ASSUME NEW s \in Users, SendCall(s)
       PROVE  Sending'
    <2>1. /\ Kept(s) /\ s \in Senders /\ ~At(s, "copy")' /\ ~At(s, "raw")'
          /\ ~Has(s, "unlock")'
        BY <1>10, SendTodo
    <2>2. UNCHANGED <<users, tx_buffer>> /\ s \notin Partials
        BY <1>10, SendAssumption DEF SendCall, client
    <2>3. /\ \A other \in Users : other # s => msg'[other] = msg[other]
          /\ msg'[s].len \in Nat /\ msg'[s].widx = 0 /\ msg'[s].opcode = "TEXT"
          /\ msg'[s].fin = TRUE /\ msg'[s].ok = TRUE
        BY <1>10, MsgTodo
    <2>4. Sent(s)'
        BY <2>1, <2>2, <2>3 DEF Sent, Loops
    <2> QED
        BY <1>1, <2>1, <2>2, <2>3, <2>4, SendingBy
<1>11. ASSUME NEW s \in Users, SendLock(s)
       PROVE  Sending'
    <2>1. /\ Kept(s) /\ s \in Senders /\ At(s, "lock") /\ todo[s] # <<>>
          /\ At(s, "copy")' <=> state = "CONNECTED"
          /\ ~At(s, "raw")' /\ ~At(s, "lock")'
        BY <1>11, SendTodo DEF At
    <2>2. UNCHANGED <<users, tx_buffer>> /\ s \notin Partials
        BY <1>11, <2>1, SendAssumption DEF SendLock
    <2>3. /\ \A other \in Users : other # s => msg'[other] = msg[other]
          /\ msg'[s].len = msg[s].len /\ msg'[s].widx = msg[s].widx
          /\ msg'[s].fin = msg[s].fin /\ msg'[s].ok = (state = "CONNECTED")
        BY <1>11, MsgTodo
    <2>4. Sent(s)'
        BY <2>1, <2>2, <2>3 DEF Sending, Sent, Loops
    <2> QED
        BY <1>1, <2>1, <2>2, <2>3, <2>4, SendingBy
<1>12. ASSUME NEW s \in Users, SendLockTimeout(s)
       PROVE  Sending'
    <2>1. /\ Kept(s) /\ s \in Senders /\ (todo[s] = <<>>)' /\ ~Has(s, "unlock")'
          /\ ~At(s, "copy")' /\ ~At(s, "raw")' /\ ~At(s, "lock")'
        BY <1>12, SendTodo
    <2>2. UNCHANGED <<users, tx_buffer>> /\ s \notin Partials
        BY <1>12, <2>1, SendAssumption DEF SendLockTimeout, client
    <2>3. /\ \A other \in Users : other # s => msg'[other] = msg[other]
          /\ msg'[s].len = msg[s].len /\ msg'[s].widx = msg[s].widx
        BY <1>12, MsgTodo
    <2>4. Sent(s)'
        BY <2>1, <2>2, <2>3 DEF Sending, Sent, Loops
    <2> QED
        BY <1>1, <2>1, <2>2, <2>3, <2>4, SendingBy
<1>13. ASSUME NEW s \in Users, PartialText(s) \/ PartialCont(s) \/ PartialFin(s)
       PROVE  Sending'
    <2>1. /\ Kept(s) /\ s \in Partials /\ ~Loops(s)
          /\ At(s, "copy")' <=> (todo[s] # <<>>)'
          /\ ~At(s, "raw")'
        BY <1>13, SendTodo
    <2>2. UNCHANGED <<users, tx_buffer>> /\ s \notin Senders
        BY <1>13, <2>1, SendAssumption DEF PartialText, PartialCont, PartialFin, client
    <2>3. \A other \in Users : other # s => msg'[other] = msg[other]
        BY <1>13, MsgTodo
    <2>4. /\ msg[s].no \in Nat /\ msg[s].len \in Nat /\ msg[s].widx \in Nat
          /\ msg[s].widx <= msg[s].len
        BY DEF Types, Values, Message, Sending, Sent
    <2>5. CASE PartialText(s)
        <3>1. /\ msg'[s].no = msg[s].no + 1 /\ msg'[s].len \in Nat /\ msg'[s].widx = 0
              /\ msg'[s].ok = TRUE /\ At(s, "copy")'
            BY <2>5, MsgTodo, SendTodo
        <3>2. msg'[s].widx <= msg'[s].len /\ msg'[s].no > 0
            BY <2>4, <3>1
        <3>3. Sent(s)'
            BY <2>1, <2>2, <3>1, <3>2 DEF Sent, Loops
        <3> QED
            BY <1>1, <2>1, <2>2, <2>3, <3>3, SendingBy
    <2>6. CASE PartialCont(s)
        <3>1. /\ msg'[s].no = msg[s].no /\ msg'[s].widx = msg[s].widx
              /\ msg[s].len <= msg'[s].len /\ msg'[s].opcode = msg[s].opcode
              /\ msg'[s].ok = msg[s].ok /\ (~At(s, "copy")' => msg'[s].len = msg[s].len)
            BY <2>6, MsgTodo
        <3>2. msg'[s].widx <= msg'[s].len
            <4>1. msg'[s] \in Message
                BY TypesKept DEF Types, Values
            <4>2. msg'[s].len \in Nat
                BY <4>1 DEF Message
            <4> QED
                BY <2>4, <3>1, <4>2
        <3>3. msg[s].no > 0 /\ msg[s].ok
            BY <2>6 DEF PartialCont, Underway
        <3>4. Sent(s)'
            BY <2>1, <2>2, <3>1, <3>2, <3>3 DEF Sending, Sent, Loops
        <3> QED
            BY <1>1, <2>1, <2>2, <2>3, <3>4, SendingBy
    <2>7. CASE PartialFin(s)
        <3>1. /\ msg'[s].no = msg[s].no /\ msg'[s].widx = msg[s].widx
              /\ msg[s].len = msg'[s].len
              /\ msg'[s].ok = msg[s].ok /\ At(s, "copy")'
            BY <2>7, MsgTodo, SendTodo
        <3>2. msg[s].no > 0 /\ msg[s].ok
            BY <2>7 DEF PartialFin, Underway
        <3>3. Sent(s)'
            BY <2>1, <2>2, <2>4, <3>1, <3>2 DEF Sent, Loops
        <3> QED
            BY <1>1, <2>1, <2>2, <2>3, <3>3, SendingBy
    <2> QED
        BY <1>13, <2>5, <2>6, <2>7
<1>14. ASSUME NEW s \in Users, Return(s)
       PROVE  Sending'
    <2>1. /\ Kept(s) /\ s \in Partials /\ (todo[s] = <<>>)' /\ ~Loops(s)
          /\ ~At(s, "copy")' /\ ~At(s, "raw")' /\ ~At(s, "lock")'
        BY <1>14, SendTodo
    <2>2. UNCHANGED <<users, tx_buffer, msg>> /\ s \notin Senders
        BY <1>14, <2>1, SendAssumption DEF Return, client
    <2>3. Sent(s)'
        BY <2>1, <2>2 DEF Sending, Sent, Loops
    <2> QED
        BY <1>1, <2>1, <2>2, <2>3, SendingBy
<1>15. ASSUME TurnInit \/ TurnConnected \/ TurnWait
       PROVE  Sending'
    <2>1. Kept(Task)
        BY <1>15, TurnTodo
    <2>2. UNCHANGED <<msg, users, tx_buffer>>
        BY <1>15 DEF TurnInit, TurnConnected, TurnWait
    <2> QED
        BY <1>3, <2>1, <2>2
<1>16. ASSUME ConnectFailed \/ Poll \/ PollFailed
       PROVE  Sending'
    <2>1. Kept(Task)
        BY <1>16, InTurnTodo
    <2>2. UNCHANGED <<msg, users, tx_buffer>>
        BY <1>16 DEF ConnectFailed, Poll, PollFailed, client
    <2> QED
        BY <1>3, <2>1, <2>2
<1>17. ASSUME Connected
       PROVE  Sending'
    <2>1. Kept(Task) /\ At(Task, "connect")
        BY <1>17, InTurnTodo
    <2>2. lock = <<Task>>
        BY <1>1, <2>1, Shape DEF Locked
    <2>3. /\ UNCHANGED <<msg, tx_buffer>>
          /\ users' = Threads \/ (\A p \in Partials : todo[p] = <<>>)
        BY <1>17 DEF Connected
    <2>4. ASSUME NEW s \in Users
          PROVE  Sent(s)'
        <3>1. Sent(s) /\ As(s) /\ (Loops(s)' <=> Loops(s)) /\ s \in Threads /\ s # Task
            BY <1>1, <2>1, KeptOthers DEF Sending
        <3>2. CASE users' = Threads
            BY <2>3, <3>1, <3>2, SentSame DEF As
        <3>3. CASE \A p \in Partials : todo[p] = <<>>
            <4>1. ~Has(s, "unlock")
                <5>1. \A t : <<t>>[1] = t
                    OBVIOUS
                <5>2. <<s>> # <<Task>>
                    BY <5>1, <3>1, Zenon
                <5> QED
                    BY <2>2, <3>1, <5>2 DEF Locked
            <4>2. ~At(s, "raw")
                <5>1. s \in Partials \/ s \in Senders
                    BY DEF Users
                <5>2. s \in Partials => ~At(s, "raw")
                    BY <3>3 DEF At
                <5>3. s \in Senders /\ At(s, "raw") => Has(s, "unlock")
                    BY <3>1, Shape DEF At
                <5> QED
                    BY <4>1, <5>1, <5>2, <5>3
            <4> QED
                BY <2>3, <3>1, <3>3, <4>1, <4>2 DEF Sent, As, Nearly, Loops
        <3> QED
            BY <2>3, <3>2, <3>3
    <2> QED
        BY <2>4 DEF Sending
<1> QED
    BY <1>4, <1>lost, <1>5, <1>6, <1>7, <1>8, <1>9, <1>10, <1>11, <1>12, <1>13, <1>14, <1>15, <1>16, <1>17
    DEF Step, Users

LEMMA ChainSame ==
    ASSUME NEW s, Chain(s), parts' = parts, msg'[s].no = msg[s].no, msg'[s].widx = msg[s].widx,
           msg'[s].opcode = "TEXT" <=> msg[s].opcode = "TEXT"
    PROVE  Chain(s)'
BY DEF Chain

LEMMA CopiedSame ==
    ASSUME NEW s, Copied(s), tx_buffer' = tx_buffer, msg'[s] = msg[s]
    PROVE  Copied(s)'
BY DEF Copied, Frame

\* A fragment that goes on with the message of s arrives as it should.
LEMMA RawLegal ==
    ASSUME Types, Sending, NEW s \in Users, Raw(s), Chain(s), Copied(s), ~garbled
    PROVE  /\ ~garbled'
           /\ Frame(s).fin =>
                 /\ parts' = <<>>
                 /\ done' = done \cup {[of |-> s, no |-> msg[s].no, len |-> msg[s].len]}
           /\ ~Frame(s).fin => Chain(s)' /\ parts' # <<>> /\ done' = done
<1>1. /\ tx_buffer \in Piece /\ Arrive(Frame(s))
      /\ msg'[s].no = msg[s].no /\ msg'[s].widx = msg[s].widx + Frame(s).length
      /\ msg'[s].opcode = "NONE"
    BY RawMsg
<1>2. /\ Now # <<>>
      /\ Len(parts) \in Nat /\ Len(Now) = Len(parts) + 1
      /\ 1 \in 1 .. Len(Now) /\ Len(Now) \in 1 .. Len(Now)
      /\ \A i \in 1 .. Len(parts) : Now[i] = parts[i]
      /\ Now[Len(Now)] = tx_buffer
      /\ \A i \in 1 .. Len(Now) : i \in 1 .. Len(parts) \/ i = Len(Now)
      /\ DOMAIN Now = 1 .. Len(Now)
    BY <1>1, NowFacts DEF Types, Values
<1>3. /\ tx_buffer.of = s /\ tx_buffer.no = msg[s].no /\ tx_buffer.from = msg[s].widx
      /\ tx_buffer.to = msg[s].widx + Frame(s).length
    BY DEF Copied
<1>4. /\ \A i \in 1 .. Len(parts) :
            /\ parts[i].of = s /\ parts[i].no = msg[s].no
            /\ parts[i].from = IF i = 1 THEN 0 ELSE parts[i - 1].to
      /\ parts # <<>> => parts[Len(parts)].to = msg[s].widx
      /\ parts = <<>> => msg[s].widx = 0
      /\ parts = <<>> <=> msg[s].opcode = "TEXT"
    BY DEF Chain
<1>5. parts = <<>> <=> Len(parts) = 0
    <2>1. parts \in Seq(Piece)
        BY DEF Types, Values
    <2> QED
        BY <2>1, EmptySeq
<1>6. ASSUME NEW i \in 1 .. Len(Now)
      PROVE  /\ Now[i].of = s /\ Now[i].no = msg[s].no
             /\ Now[i].from = IF i = 1 THEN 0 ELSE Now[i - 1].to
    <2>1. CASE i \in 1 .. Len(parts)
        <3>1. i # 1 => i - 1 \in 1 .. Len(parts)
            BY <2>1, <1>2
        <3>2. i # 1 => Now[i - 1] = parts[i - 1]
            BY <3>1, <1>2
        <3>3. /\ Now[i] = parts[i] /\ parts[i].of = s /\ parts[i].no = msg[s].no
              /\ parts[i].from = IF i = 1 THEN 0 ELSE parts[i - 1].to
            BY <2>1, <1>2, <1>4
        <3> QED
            BY <3>2, <3>3
    <2>2. CASE i = Len(Now)
        <3>1. CASE i = 1
            <4>1. Len(parts) = 0
                BY <3>1, <2>2, <1>2
            <4> QED
                BY <4>1, <3>1, <2>2, <1>2, <1>3, <1>4, <1>5
        <3>2. CASE i # 1
            <4>1. Len(parts) \in 1 .. Len(parts) /\ i - 1 = Len(parts) /\ Len(parts) # 0
                BY <3>2, <2>2, <1>2
            <4>2. Now[i - 1] = parts[Len(parts)]
                BY <4>1, <1>2
            <4> QED
                BY <4>1, <4>2, <3>2, <2>2, <1>2, <1>3, <1>4, <1>5
        <3> QED
            BY <3>1, <3>2
    <2> QED
        BY <2>1, <2>2, <1>2
<1>7. Legal(Frame(s))
    <2>1. Frame(s).starts = (parts = <<>>)
        <3>1. Frame(s).starts = (msg[s].opcode = "TEXT")
            BY DEF Frame
        <3> QED
            BY <3>1, <1>4
    <2>2. \A i \in DOMAIN Now :
             /\ Now[i].of = Now[1].of /\ Now[i].no = Now[1].no
             /\ Now[i].from = IF i = 1 THEN 0 ELSE Now[i - 1].to
        BY <1>2, <1>6
    <2> QED
        BY <2>1, <2>2 DEF Legal
<1>8. /\ garbled' = garbled
      /\ parts' = IF Frame(s).fin THEN <<>> ELSE Now
      /\ done' = IF Frame(s).fin THEN done \cup {Complete} ELSE done
    BY <1>1, <1>7, ArriveFacts
<1>9. Frame(s).fin => Complete = [of |-> s, no |-> msg[s].no, len |-> msg[s].len]
    <2> SUFFICES ASSUME Frame(s).fin
                 PROVE  Complete = [of |-> s, no |-> msg[s].no, len |-> msg[s].len]
        OBVIOUS
    <2>1. msg[s].widx + Frame(s).length = msg[s].len
        BY FrameLength DEF Sending, Sent
    <2> QED
        BY <2>1, <1>2, <1>3, <1>6 DEF Complete
<1>10. ~Frame(s).fin => Chain(s)' /\ parts' # <<>>
    <2> SUFFICES ASSUME ~Frame(s).fin
                 PROVE  Chain(s)' /\ parts' # <<>>
        OBVIOUS
    <2>1. parts' = Now
        BY <1>8
    <2> QED
        BY <2>1, <1>1, <1>2, <1>3, <1>6 DEF Chain
<1> QED
    BY <1>8, <1>9, <1>10

\* Nothing is sent, and the lock stays with a sender that has begun.
LEMMA WholeSame ==
    ASSUME Whole, NEW th \in Threads, Kept(th), UNCHANGED <<parts, garbled, tx_buffer>>,
           open' => open, users \subseteq users',
           \A s \in Senders : s # th => msg'[s] = msg[s],
           lock' = lock \/ \A s \in Senders : lock = <<s>> => ~Loops(s) /\ ~Has(s, "abort"),
           th \in Senders => /\ Loops(th)' => Loops(th) /\ msg'[th] = msg[th]
                             /\ At(th, "raw")' => At(th, "raw")
                             /\ open' /\ (Loops(th) \/ Has(th, "abort"))
                                   => Loops(th)' \/ Has(th, "abort")'
    PROVE  Whole'
<1> SUFFICES ASSUME (users \cap Partials = {})'
             PROVE  (/\ ~garbled
                     /\ open /\ parts # <<>> =>
                           \E s \in Senders : lock = <<s>> /\ (Loops(s) \/ Has(s, "abort"))
                     /\ \A s \in Senders : /\ open /\ Loops(s) => Chain(s)
                                           /\ At(s, "raw") => Copied(s))'
    BY DEF Whole
<1>1. users \cap Partials = {}
    OBVIOUS
<1>2. /\ ~garbled
      /\ open /\ parts # <<>> =>
            \E s \in Senders : lock = <<s>> /\ (Loops(s) \/ Has(s, "abort"))
      /\ \A s \in Senders : /\ open /\ Loops(s) => Chain(s)
                            /\ At(s, "raw") => Copied(s)
    BY <1>1 DEF Whole
<1>3. ASSUME NEW s \in Senders
      PROVE  /\ Loops(s)' => Loops(s) /\ msg'[s] = msg[s]
             /\ At(s, "raw")' => At(s, "raw")
             /\ open' /\ (Loops(s) \/ Has(s, "abort")) => Loops(s)' \/ Has(s, "abort")'
    <2>1. CASE s = th
        BY <2>1
    <2>2. CASE s # th
        <3>1. As(s) /\ (Loops(s)' <=> Loops(s))
            BY <2>2, KeptOthers, SendAssumption
        <3> QED
            BY <2>2, <3>1 DEF As, Nearly
    <2> QED
        BY <2>1, <2>2
<1>4. ASSUME NEW s \in Senders
      PROVE  /\ open' /\ Loops(s)' => Chain(s)'
             /\ At(s, "raw")' => Copied(s)'
    <2>1. open' /\ Loops(s)' => Chain(s)'
        BY <1>2, <1>3, ChainSame
    <2>2. At(s, "raw")' => Loops(s)'
        BY DEF Loops
    <2>3. At(s, "raw")' => Copied(s)'
        BY <1>2, <1>3, <2>2, CopiedSame
    <2> QED
        BY <2>1, <2>3
<1>5. ASSUME open', parts' # <<>>
      PROVE  \E s \in Senders : (lock = <<s>>)' /\ (Loops(s)' \/ Has(s, "abort")')
    <2>1. PICK s \in Senders : lock = <<s>> /\ (Loops(s) \/ Has(s, "abort"))
        BY <1>2, <1>5
    <2>2. lock' = lock
        BY <2>1
    <2> QED
        BY <1>3, <1>5, <2>1, <2>2
<1> QED
    BY <1>2, <1>4, <1>5

LEMMA WholeKept ==
    ASSUME SendInv, Step
    PROVE  Whole'
<1> USE DEF SendInv
<1>1. /\ Task \in Threads /\ Task \notin Users /\ \A s \in Users : s \in Threads
      /\ Task \notin Senders /\ \A s \in Senders : s \in Users /\ s \in Threads /\ s \notin Partials
      /\ Users = Senders \cup Partials
    BY SendAssumption DEF Users
<1>2. /\ \A t, other \in Threads : <<t>> = <<other>> => t = other
      /\ \A t \in Threads : <<t>> # <<>>
    <2>1. \A t : <<t>>[1] = t
        OBVIOUS
    <2>2. \A t \in Threads : <<t>> # <<>>
        OBVIOUS
    <2> QED
        BY <2>1, <2>2, Zenon
<1>3. \A s \in Senders : Loops(s) => lock = <<s>>
    <2> SUFFICES ASSUME NEW s \in Senders, Loops(s)
                 PROVE  lock = <<s>>
        OBVIOUS
    <2>1. todo[s] # <<>> /\ ~At(s, "lock")
        BY DEF Loops, At
    <2> QED
        BY <1>1, <2>1, Shape DEF Locked
<1>4. ASSUME NEW th \in Threads, Kept(th), th \notin Senders,
             UNCHANGED <<parts, garbled, tx_buffer, open, lock, users>>,
             \A s \in Senders : s # th => msg'[s] = msg[s]
      PROVE  Whole'
    BY <1>4, WholeSame
<1>5. ASSUME NEW th \in Threads, Report(th), UNCHANGED <<client, msg, server, users>>
      PROVE  Whole'
    <2>1. Kept(th) /\ As(th)
        BY <1>5, ReportTodo DEF Report
    <2>2. UNCHANGED <<parts, garbled, tx_buffer, open, lock, users, msg>>
        BY <1>5 DEF client, server
    <2>3. /\ Loops(th)' <=> Loops(th)
          /\ At(th, "raw")' <=> At(th, "raw")
          /\ Has(th, "abort")' <=> Has(th, "abort")
        BY <2>1 DEF As, Nearly, Loops
    <2> QED
        BY <2>1, <2>2, <2>3, WholeSame
<1>6. ASSUME NEW th \in Threads, Abort(th)
      PROVE  Whole'
    <2>1. Kept(th) /\ Nearly(th)
        BY <1>6, AbortTodo
    <2>2. UNCHANGED <<parts, garbled, tx_buffer, lock, users, msg>> /\ open' = FALSE
        BY <1>6 DEF Abort, server
    <2>3. (Loops(th)' <=> Loops(th)) /\ (At(th, "raw")' <=> At(th, "raw"))
        BY <2>1 DEF Nearly, Loops
    <2> QED
        BY <2>1, <2>2, <2>3, WholeSame
<1>lost. ASSUME NEW th \in Threads, Lost(th)
      PROVE  Whole'
    <2>1. Kept(th) /\ As(th)
        BY <1>lost, LostTodo
    <2>2. UNCHANGED <<parts, garbled, tx_buffer, open, lock, users, msg>>
        BY <1>lost DEF Lost, server
    <2>3. /\ Loops(th)' <=> Loops(th)
          /\ At(th, "raw")' <=> At(th, "raw")
          /\ Has(th, "abort")' <=> Has(th, "abort")
        BY <2>1 DEF As, Nearly, Loops
    <2> QED
        BY <2>1, <2>2, <2>3, WholeSame
<1>7. ASSUME NEW th \in Threads, Unlock(th)
      PROVE  Whole'
    <2>1. Kept(th) /\ At(th, "unlock") /\ ~Loops(th) /\ ~Loops(th)' /\ ~At(th, "raw")'
        BY <1>7, UnlockTodo
    <2>2. UNCHANGED <<parts, garbled, tx_buffer, open, users, msg>>
        BY <1>7 DEF Unlock, server
    <2>3. lock = <<th>> /\ (th \in Senders => ~Has(th, "abort"))
        BY <2>1, Shape DEF Locked
    <2>4. \A s \in Senders : lock = <<s>> => ~Loops(s) /\ ~Has(s, "abort")
        BY <1>1, <1>2, <2>1, <2>3
    <2> QED
        BY <2>1, <2>2, <2>3, <2>4, WholeSame
<1>8. ASSUME NEW s \in Users, Copy(s)
      PROVE  Whole'
    <2>1. /\ Kept(s) /\ At(s, "copy") /\ ~At(s, "copy")' /\ At(s, "raw")'
        BY <1>8, CopyTodo
    <2>2. /\ UNCHANGED <<parts, garbled, open, lock, msg>> /\ users' = users \cup {s}
          /\ tx_buffer' = [of |-> s, no |-> msg[s].no, from |-> msg[s].widx,
                           to |-> msg[s].widx + Frame(s).length]
        BY <1>8 DEF Copy, server
    <2>3. Loops(s) /\ Loops(s)'
        BY <2>1 DEF Loops
    <2>4. CASE s \in Partials
        BY <2>2, <2>4 DEF Whole
    <2>5. CASE s \in Senders
        <3> SUFFICES ASSUME (users \cap Partials = {})'
                     PROVE  (/\ ~garbled
                             /\ open /\ parts # <<>> =>
                                   \E o \in Senders : lock = <<o>> /\ (Loops(o) \/ Has(o, "abort"))
                             /\ \A o \in Senders : /\ open /\ Loops(o) => Chain(o)
                                                   /\ At(o, "raw") => Copied(o))'
            BY DEF Whole
        <3>1. users \cap Partials = {}
            BY <2>2
        <3>2. ~garbled /\ (open => Chain(s))
            BY <3>1, <2>3, <2>5 DEF Whole
        <3>3. lock' = <<s>>
            BY <1>3, <2>2, <2>3, <2>5
        <3>4. ASSUME NEW o \in Senders, o # s
              PROVE  ~Loops(o)'
            <4>1. Loops(o)' <=> Loops(o)
                BY <1>1, <2>1, <3>4, KeptOthers
            <4> QED
                BY <1>1, <1>2, <1>3, <4>1, <3>3, <2>2, <3>4
        <3>5. open' => Chain(s)'
            BY <3>2, <2>2, ChainSame
        <3>6. Copied(s)'
            BY <2>2 DEF Copied, Frame
        <3> QED
            BY <2>2, <2>3, <2>5, <3>2, <3>3, <3>4, <3>5, <3>6 DEF Loops
    <2> QED
        BY <2>4, <2>5, <1>1
<1>9. ASSUME NEW s \in Users, Raw(s)
      PROVE  Whole'
    <2>1. /\ Kept(s) /\ At(s, "raw") /\ ~At(s, "raw")' /\ UNCHANGED <<client, users>>
          /\ msg'[s].no = msg[s].no /\ msg'[s].fin = msg[s].fin
          /\ At(s, "copy")' <=> ~(msg[s].len - msg[s].widx <= buffer_size)
        BY <1>9, RawMsg
    <2>2. s \in users /\ UNCHANGED <<users, open, lock>> /\ Loops(s)
        BY <2>1 DEF Sending, Sent, client, Loops
    <2>3. CASE s \in Partials
        BY <2>2, <2>3 DEF Whole
    <2>4. CASE s \in Senders
        <3> SUFFICES ASSUME (users \cap Partials = {})'
                     PROVE  (/\ ~garbled
                             /\ open /\ parts # <<>> =>
                                   \E o \in Senders : lock = <<o>> /\ (Loops(o) \/ Has(o, "abort"))
                             /\ \A o \in Senders : /\ open /\ Loops(o) => Chain(o)
                                                   /\ At(o, "raw") => Copied(o))'
            BY DEF Whole
        <3>1. ~garbled /\ Chain(s) /\ Copied(s)
            BY <1>9, RawMsg, <2>1, <2>2, <2>4 DEF Whole
        <3>2. lock' = <<s>>
            BY <1>3, <2>2, <2>4
        <3>3. Frame(s).fin <=> ~Loops(s)'
            <4>1. msg[s].fin
                BY <2>1, <2>4 DEF Sending, Sent, At
            <4>2. Frame(s).fin <=> msg[s].fin /\ msg[s].len - msg[s].widx <= buffer_size
                BY FrameLength DEF Sending, Sent
            <4> QED
                BY <4>1, <4>2, <2>1 DEF Loops
        <3>4. ~garbled' /\ (Frame(s).fin => parts' = <<>>) /\ (~Frame(s).fin => Chain(s)')
            BY <1>9, <3>1, RawLegal
        <3>5. ASSUME NEW o \in Senders, o # s
              PROVE  ~Loops(o)'
            <4>1. Loops(o)' <=> Loops(o)
                BY <1>1, <2>1, <3>5, KeptOthers
            <4> QED
                BY <1>1, <1>2, <1>3, <4>1, <3>2, <2>2, <3>5
        <3> QED
            BY <2>1, <2>4, <3>2, <3>3, <3>4, <3>5 DEF Loops
    <2> QED
        BY <2>3, <2>4, <1>1
<1>10. ASSUME NEW s \in Users, RawFailed(s)
       PROVE  Whole'
    <2>1. /\ Kept(s) /\ ~At(s, "copy")' /\ ~At(s, "raw")' /\ Has(s, "abort")'
        BY <1>10, RawFailedTodo
    <2>2. UNCHANGED <<parts, garbled, tx_buffer, open, lock, users>>
        BY <1>10 DEF RawFailed, client, server
    <2>3. \A other \in Users : other # s => msg'[other] = msg[other]
        BY <1>10, MsgTodo
    <2> QED
        BY <1>1, <2>1, <2>2, <2>3, WholeSame DEF Loops
<1>11. ASSUME NEW s \in Users, SendCall(s) \/ SendLockTimeout(s)
       PROVE  Whole'
    <2>1. /\ Kept(s) /\ ~Loops(s) /\ ~At(s, "copy")' /\ ~At(s, "raw")'
          /\ todo[s] = <<>> \/ At(s, "lock")
        BY <1>11, SendTodo
    <2>2. UNCHANGED <<parts, garbled, tx_buffer, open, lock, users>>
        BY <1>11 DEF SendCall, SendLockTimeout, client, server
    <2>3. \A other \in Users : other # s => msg'[other] = msg[other]
        BY <1>11, MsgTodo
    <2>4. ~Has(s, "abort")
        BY <1>1, <2>1, Shape
    <2> QED
        BY <1>1, <2>1, <2>2, <2>3, <2>4, WholeSame DEF Loops
<1>12. ASSUME NEW s \in Users, PartialText(s) \/ PartialCont(s) \/ PartialFin(s)
       PROVE  Whole'
    <2>1. Kept(s) /\ s \in Partials
        BY <1>12, SendTodo
    <2>2. UNCHANGED <<parts, garbled, tx_buffer, open, lock, users>>
        BY <1>12 DEF PartialText, PartialCont, PartialFin, client, server
    <2>3. \A other \in Users : other # s => msg'[other] = msg[other]
        BY <1>12, MsgTodo
    <2> QED
        BY <1>1, <1>4, <2>1, <2>2, <2>3
<1>13. ASSUME NEW s \in Users, Return(s)
       PROVE  Whole'
    <2>1. Kept(s) /\ s \in Partials
        BY <1>13, SendTodo
    <2>2. UNCHANGED <<parts, garbled, tx_buffer, open, lock, users, msg>>
        BY <1>13 DEF Return, client, server
    <2> QED
        BY <1>1, <1>4, <2>1, <2>2
<1>14. ASSUME NEW s \in Users, SendLock(s)
       PROVE  Whole'
    <2>1. /\ Kept(s) /\ s \in Senders /\ At(s, "lock") /\ ~Loops(s) /\ ~At(s, "raw")'
          /\ At(s, "copy")' <=> state = "CONNECTED"
        BY <1>14, SendTodo
    <2>2. lock = <<>>
        BY <1>1, <1>14, <2>1, LockFree DEF SendLock
    <2>3. UNCHANGED <<parts, garbled, tx_buffer, open, users, state>>
        BY <1>14 DEF SendLock, server
    <2>4. /\ msg'[s].no = msg[s].no /\ msg'[s].widx = msg[s].widx
          /\ msg'[s].opcode = msg[s].opcode
        BY <1>14, MsgTodo
    <2>5. \A o \in Senders : ~(lock = <<o>>) /\ ~Loops(o)
        BY <1>1, <1>2, <1>3, <2>2
    <2>6. \A o \in Senders : o # s => ~Loops(o)'
        BY <1>1, <2>1, <2>5, KeptOthers
    <2> SUFFICES ASSUME (users \cap Partials = {})'
                 PROVE  (/\ ~garbled
                         /\ open /\ parts # <<>> =>
                               \E o \in Senders : lock = <<o>> /\ (Loops(o) \/ Has(o, "abort"))
                         /\ \A o \in Senders : /\ open /\ Loops(o) => Chain(o)
                                               /\ At(o, "raw") => Copied(o))'
        BY DEF Whole
    <2>7. ~garbled /\ (open => parts = <<>>)
        BY <2>3, <2>5 DEF Whole
    <2>8. msg[s].opcode = "TEXT" /\ msg[s].widx = 0
        BY <2>1 DEF Sending, Sent
    <2>9. open' /\ Loops(s)' => Chain(s)'
        <3>1. parts \in Seq(Piece)
            BY DEF Types, Values
        <3>2. open' => parts' = <<>>
            BY <2>3, <2>7
        <3>3. parts' = <<>> => Len(parts') = 0
            OBVIOUS
        <3> QED
            BY <2>4, <2>8, <3>2, <3>3 DEF Chain
    <2> QED
        BY <2>1, <2>3, <2>6, <2>7, <2>9 DEF Loops
<1>15. ASSUME TurnInit \/ TurnConnected \/ TurnWait
       PROVE  Whole'
    <2>1. Kept(Task)
        BY <1>15, TurnTodo
    <2>2. UNCHANGED <<parts, garbled, tx_buffer, open, users, msg>> /\ lock = <<>>
        BY <1>15 DEF TurnInit, TurnConnected, TurnWait, Turn, server
    <2>3. \A o \in Senders : ~(lock = <<o>>)
        BY <1>1, <1>2, <2>2
    <2> QED
        BY <1>1, <2>1, <2>2, <2>3, WholeSame
<1>16. ASSUME ConnectFailed \/ Poll \/ PollFailed
       PROVE  Whole'
    <2>1. Kept(Task)
        BY <1>16, InTurnTodo
    <2>2. UNCHANGED <<parts, garbled, tx_buffer, open, lock, users, msg>>
        BY <1>16 DEF ConnectFailed, Poll, PollFailed, client, server
    <2> QED
        BY <1>1, <1>4, <2>1, <2>2
<1>17. ASSUME Connected
       PROVE  Whole'
    <2>1. Kept(Task) /\ At(Task, "connect")
        BY <1>17, InTurnTodo
    <2>2. lock = <<Task>>
        BY <1>1, <2>1, Shape DEF Locked
    <2>3. parts' = <<>> /\ garbled' = FALSE
        BY <1>17 DEF Connected
    <2>4. \A o \in Senders : ~Loops(o)'
        BY <1>1, <1>2, <1>3, <2>1, <2>2, KeptOthers
    <2> QED
        BY <2>3, <2>4 DEF Whole, Loops
<1> QED
    BY <1>5, <1>lost, <1>6, <1>7, <1>8, <1>9, <1>10, <1>11, <1>12, <1>13, <1>14, <1>15, <1>16, <1>17
    DEF Step, Users

\* A step that is not the one of a thread that has sent, seen from the message
\* in parts.
LEMMA AloneSame ==
    ASSUME Alone, NEW th \in Threads, Kept(th), UNCHANGED <<parts, garbled, tx_buffer, users>>,
           open' => open, \A p \in Partials : p # th => msg'[p] = msg[p],
           th \in Partials /\ users \subseteq {th} =>
              /\ open' /\ (Loops(th)' \/ Underway(th)') => Chain(th)'
              /\ open' /\ ~Loops(th)' /\ ~Underway(th)' /\ ~Has(th, "abort")' => parts' = <<>>
              /\ At(th, "raw")' => Copied(th)'
    PROVE  Alone'
<1> SUFFICES ASSUME NEW p \in Partials, users \subseteq {p}
             PROVE  (/\ ~garbled
                     /\ open /\ users = {} => parts = <<>>
                     /\ open /\ (Loops(p) \/ Underway(p)) => Chain(p)
                     /\ open /\ ~Loops(p) /\ ~Underway(p) /\ ~Has(p, "abort") => parts = <<>>
                     /\ At(p, "raw") => Copied(p))'
    BY DEF Alone
<1>1. /\ ~garbled
      /\ open /\ users = {} => parts = <<>>
      /\ open /\ (Loops(p) \/ Underway(p)) => Chain(p)
      /\ open /\ ~Loops(p) /\ ~Underway(p) /\ ~Has(p, "abort") => parts = <<>>
      /\ At(p, "raw") => Copied(p)
    BY DEF Alone
<1>2. CASE p = th
    BY <1>1, <1>2
<1>3. CASE p # th
    <2>1. msg'[p] = msg[p] /\ p \in Threads
        BY <1>3, SendAssumption
    <2>2. /\ Loops(p)' <=> Loops(p)
          /\ Has(p, "abort")' <=> Has(p, "abort")
          /\ At(p, "raw")' <=> At(p, "raw")
        BY <1>3, <2>1, KeptOthers DEF As, Nearly
    <2>3. Underway(p)' <=> Underway(p)
        BY <2>1 DEF Underway
    <2>4. Chain(p) => Chain(p)'
        BY <2>1, ChainSame
    <2>5. Copied(p) => Copied(p)'
        BY <2>1, CopiedSame
    <2> QED
        BY <1>1, <2>2, <2>3, <2>4, <2>5
<1> QED
    BY <1>2, <1>3

LEMMA AloneKept ==
    ASSUME SendInv, Step
    PROVE  Alone'
<1> USE DEF SendInv
<1>1. /\ Task \in Threads /\ Task \notin Users /\ \A s \in Users : s \in Threads
      /\ Task \notin Partials /\ \A p \in Partials : p \in Users /\ p \in Threads /\ p \notin Senders
      /\ Users = Senders \cup Partials
    BY SendAssumption DEF Users
<1>2. ASSUME NEW th \in Threads, Kept(th), UNCHANGED <<parts, garbled, tx_buffer, users>>,
             open' => open, \A p \in Partials : msg'[p] = msg[p],
             th \in Partials => /\ Loops(th)' <=> Loops(th)
                                /\ At(th, "raw")' <=> At(th, "raw")
                                /\ open' => (Has(th, "abort")' <=> Has(th, "abort"))
      PROVE  Alone'
    <2> SUFFICES ASSUME th \in Partials, users \subseteq {th}
                 PROVE  /\ open' /\ (Loops(th)' \/ Underway(th)') => Chain(th)'
                        /\ open' /\ ~Loops(th)' /\ ~Underway(th)' /\ ~Has(th, "abort")'
                              => parts' = <<>>
                        /\ At(th, "raw")' => Copied(th)'
        BY <1>2, AloneSame
    <2>1. /\ open /\ (Loops(th) \/ Underway(th)) => Chain(th)
          /\ open /\ ~Loops(th) /\ ~Underway(th) /\ ~Has(th, "abort") => parts = <<>>
          /\ At(th, "raw") => Copied(th)
        BY DEF Alone
    <2>2. msg'[th] = msg[th] /\ UNCHANGED <<parts, tx_buffer>>
        BY <1>2
    <2>3. Underway(th)' <=> Underway(th)
        BY <2>2 DEF Underway
    <2>4. Chain(th) => Chain(th)'
        BY <2>2, ChainSame
    <2>5. Copied(th) => Copied(th)'
        BY <2>2, CopiedSame
    <2> QED
        BY <1>2, <2>1, <2>2, <2>3, <2>4, <2>5
<1>3. ASSUME NEW th \in Threads, Report(th), UNCHANGED <<client, msg, server, users>>
      PROVE  Alone'
    <2>1. Kept(th) /\ As(th)
        BY <1>3, ReportTodo DEF Report
    <2>2. UNCHANGED <<parts, garbled, tx_buffer, open, users, msg>>
        BY <1>3 DEF client, server
    <2>3. /\ Loops(th)' <=> Loops(th)
          /\ At(th, "raw")' <=> At(th, "raw")
          /\ Has(th, "abort")' <=> Has(th, "abort")
        BY <2>1 DEF As, Nearly, Loops
    <2> QED
        BY <1>2, <2>1, <2>2, <2>3
<1>4. ASSUME NEW th \in Threads, Abort(th)
      PROVE  Alone'
    <2>1. Kept(th) /\ Nearly(th)
        BY <1>4, AbortTodo
    <2>2. UNCHANGED <<parts, garbled, tx_buffer, users, msg>> /\ open' = FALSE
        BY <1>4 DEF Abort, server
    <2>3. (Loops(th)' <=> Loops(th)) /\ (At(th, "raw")' <=> At(th, "raw"))
        BY <2>1 DEF Nearly, Loops
    <2> QED
        BY <1>2, <2>1, <2>2, <2>3
<1>lost. ASSUME NEW th \in Threads, Lost(th)
      PROVE  Alone'
    <2>1. Kept(th) /\ As(th)
        BY <1>lost, LostTodo
    <2>2. UNCHANGED <<parts, garbled, tx_buffer, open, users, msg>>
        BY <1>lost DEF Lost, server
    <2>3. /\ Loops(th)' <=> Loops(th)
          /\ At(th, "raw")' <=> At(th, "raw")
          /\ Has(th, "abort")' <=> Has(th, "abort")
        BY <2>1 DEF As, Nearly, Loops
    <2> QED
        BY <1>2, <2>1, <2>2, <2>3
<1>5. ASSUME NEW th \in Threads, Unlock(th)
      PROVE  Alone'
    <2>1. Kept(th) /\ th \notin Partials
        BY <1>5, UnlockTodo
    <2>2. UNCHANGED <<parts, garbled, tx_buffer, open, users, msg>>
        BY <1>5 DEF Unlock, server
    <2> QED
        BY <1>2, <2>1, <2>2
<1>6. ASSUME NEW s \in Users, Copy(s)
      PROVE  Alone'
    <2>1. /\ Kept(s) /\ At(s, "copy") /\ ~At(s, "copy")' /\ At(s, "raw")'
        BY <1>6, CopyTodo
    <2>2. /\ UNCHANGED <<parts, garbled, open, msg>> /\ users' = users \cup {s}
          /\ tx_buffer' = [of |-> s, no |-> msg[s].no, from |-> msg[s].widx,
                           to |-> msg[s].widx + Frame(s).length]
        BY <1>6 DEF Copy, server
    <2>3. Loops(s) /\ Loops(s)'
        BY <2>1 DEF Loops
    <2> SUFFICES ASSUME NEW p \in Partials, users' \subseteq {p}
                 PROVE  (/\ ~garbled
                         /\ open /\ users = {} => parts = <<>>
                         /\ open /\ (Loops(p) \/ Underway(p)) => Chain(p)
                         /\ open /\ ~Loops(p) /\ ~Underway(p) /\ ~Has(p, "abort") => parts = <<>>
                         /\ At(p, "raw") => Copied(p))'
        BY DEF Alone
    <2>4. s = p /\ users \subseteq {p} /\ users' # {}
        BY <2>2
    <2>5. ~garbled /\ (open => Chain(s))
        BY <2>3, <2>4 DEF Alone
    <2>6. Chain(s) => Chain(s)'
        BY <2>2, ChainSame
    <2>7. Copied(s)'
        BY <2>2 DEF Copied, Frame
    <2> QED
        BY <2>2, <2>3, <2>4, <2>5, <2>6, <2>7
<1>7. ASSUME NEW s \in Users, Raw(s)
      PROVE  Alone'
    <2>1. /\ Kept(s) /\ At(s, "raw") /\ ~At(s, "raw")' /\ UNCHANGED <<client, users>>
          /\ msg'[s].no = msg[s].no /\ msg'[s].fin = msg[s].fin /\ msg'[s].ok = msg[s].ok
          /\ At(s, "copy")' <=> ~(msg[s].len - msg[s].widx <= buffer_size)
          /\ open
        BY <1>7, RawMsg
    <2>2. s \in users /\ users' = users /\ open' = open /\ Loops(s)
        BY <2>1 DEF Sending, Sent, client, Loops
    <2> SUFFICES ASSUME NEW p \in Partials, users' \subseteq {p}
                 PROVE  (/\ ~garbled
                         /\ open /\ users = {} => parts = <<>>
                         /\ open /\ (Loops(p) \/ Underway(p)) => Chain(p)
                         /\ open /\ ~Loops(p) /\ ~Underway(p) /\ ~Has(p, "abort") => parts = <<>>
                         /\ At(p, "raw") => Copied(p))'
        BY DEF Alone
    <2>3. s = p /\ users \subseteq {p} /\ users' # {}
        BY <2>2
    <2>4. ~garbled /\ Chain(s) /\ Copied(s)
        BY <2>1, <2>2, <2>3 DEF Alone
    <2>5. ~garbled' /\ (Frame(s).fin => parts' = <<>>) /\ (~Frame(s).fin => Chain(s)')
        BY <1>7, <2>4, RawLegal
    <2>6. Frame(s).fin <=> msg[s].fin /\ msg[s].len - msg[s].widx <= buffer_size
        BY FrameLength DEF Sending, Sent
    <2>7. Underway(s)' <=> ~msg[s].fin
        <3>1. msg[s].no > 0 /\ msg[s].ok
            BY <2>2, <2>3 DEF Sending, Sent
        <3> QED
            BY <2>1, <3>1 DEF Underway
    <2>8. Loops(s)' <=> ~(msg[s].len - msg[s].widx <= buffer_size)
        BY <2>1 DEF Loops
    <2> QED
        BY <2>1, <2>3, <2>5, <2>6, <2>7, <2>8
<1>8. ASSUME NEW s \in Users, RawFailed(s)
      PROVE  Alone'
    <2>1. /\ Kept(s) /\ ~At(s, "copy")' /\ ~At(s, "raw")' /\ Has(s, "abort")'
        BY <1>8, RawFailedTodo
    <2>2. UNCHANGED <<parts, garbled, tx_buffer, open, users>>
        BY <1>8 DEF RawFailed, client, server
    <2>3. /\ \A other \in Users : other # s => msg'[other] = msg[other]
          /\ msg'[s].ok = FALSE
        BY <1>8, MsgTodo
    <2>4. ~Underway(s)' /\ ~Loops(s)'
        BY <2>1, <2>3 DEF Underway, Loops
    <2> QED
        BY <1>1, <2>1, <2>2, <2>3, <2>4, AloneSame
<1>9. ASSUME NEW s \in Users, SendCall(s) \/ SendLock(s) \/ SendLockTimeout(s)
      PROVE  Alone'
    <2>1. Kept(s) /\ s \in Senders
        BY <1>9, SendTodo
    <2>2. UNCHANGED <<parts, garbled, tx_buffer, open, users>>
        BY <1>9 DEF SendCall, SendLock, SendLockTimeout, client, server
    <2>3. \A other \in Users : other # s => msg'[other] = msg[other]
        BY <1>9, MsgTodo
    <2> QED
        BY <1>1, <1>2, <2>1, <2>2, <2>3
<1>10. ASSUME NEW s \in Users, PartialText(s)
       PROVE  Alone'
    <2>1. /\ Kept(s) /\ s \in Partials /\ ~Loops(s) /\ todo[s] = <<>> /\ ~At(s, "raw")'
          /\ At(s, "copy")' /\ ~Has(s, "abort") /\ ~Underway(s)
        BY <1>1, <1>10, SendTodo, Shape DEF PartialText
    <2>2. UNCHANGED <<parts, garbled, tx_buffer, open, users>>
        BY <1>10 DEF PartialText, client, server
    <2>3. /\ \A other \in Users : other # s => msg'[other] = msg[other]
          /\ msg'[s].widx = 0 /\ msg'[s].opcode = "TEXT"
        BY <1>10, MsgTodo
    <2>4. users \subseteq {s} /\ open => Chain(s)'
        <3> SUFFICES ASSUME users \subseteq {s}, open
                     PROVE  Chain(s)'
            OBVIOUS
        <3>1. parts' = <<>> /\ Len(<<>>) = 0
            BY <2>1, <2>2 DEF Alone
        <3> QED
            BY <3>1, <2>3 DEF Chain
    <2> QED
        BY <1>1, <2>1, <2>2, <2>3, <2>4, AloneSame DEF Loops
<1>11. ASSUME NEW s \in Users, PartialCont(s) \/ PartialFin(s)
       PROVE  Alone'
    <2>1. /\ Kept(s) /\ s \in Partials /\ ~Loops(s) /\ ~At(s, "raw")' /\ Underway(s)
          /\ PartialFin(s) => At(s, "copy")'
        BY <1>11, SendTodo DEF PartialCont, PartialFin
    <2>2. UNCHANGED <<parts, garbled, tx_buffer, open, users>>
        BY <1>11 DEF PartialCont, PartialFin, client, server
    <2>3. /\ \A other \in Users : other # s => msg'[other] = msg[other]
          /\ msg'[s].no = msg[s].no /\ msg'[s].widx = msg[s].widx /\ msg'[s].ok = msg[s].ok
          /\ PartialCont(s) => msg'[s].opcode = msg[s].opcode /\ msg'[s].fin = msg[s].fin
          /\ PartialFin(s) => msg'[s].opcode = "FIN"
        BY <1>11, MsgTodo
    <2>4. msg[s].opcode = "NONE"
        BY <2>1 DEF Sending, Sent, Underway
    <2>5. users \subseteq {s} /\ open => Chain(s)'
        BY <1>11, <2>1, <2>2, <2>3, <2>4, ChainSame DEF Alone
    <2>6. Underway(s)' \/ Loops(s)'
        BY <1>11, <2>1, <2>3 DEF Underway, Loops
    <2> QED
        BY <1>1, <2>1, <2>2, <2>3, <2>5, <2>6, AloneSame
<1>12. ASSUME NEW s \in Users, Return(s)
       PROVE  Alone'
    <2>1. /\ Kept(s) /\ ~Loops(s) /\ At(s, "return") /\ ~At(s, "copy")' /\ ~At(s, "raw")'
          /\ ~Has(s, "abort")'
        BY <1>12, SendTodo
    <2>2. UNCHANGED <<parts, garbled, tx_buffer, open, users, msg>>
        BY <1>12 DEF Return, client, server
    <2>3. ~Has(s, "abort") /\ ~At(s, "raw") /\ ~Loops(s)'
        BY <1>1, <2>1, Shape DEF Loops
    <2> QED
        BY <1>1, <1>2, <2>1, <2>2, <2>3
<1>13. ASSUME TurnInit \/ TurnConnected \/ TurnWait
       PROVE  Alone'
    <2>1. Kept(Task)
        BY <1>13, TurnTodo
    <2>2. UNCHANGED <<parts, garbled, tx_buffer, open, users, msg>>
        BY <1>13 DEF TurnInit, TurnConnected, TurnWait, server
    <2> QED
        BY <1>1, <1>2, <2>1, <2>2
<1>14. ASSUME ConnectFailed \/ Poll \/ PollFailed
       PROVE  Alone'
    <2>1. Kept(Task)
        BY <1>14, InTurnTodo
    <2>2. UNCHANGED <<parts, garbled, tx_buffer, open, users, msg>>
        BY <1>14 DEF ConnectFailed, Poll, PollFailed, client, server
    <2> QED
        BY <1>1, <1>2, <2>1, <2>2
<1>15. ASSUME Connected
       PROVE  Alone'
    <2>1. Kept(Task)
        BY <1>15, InTurnTodo
    <2>2. /\ parts' = <<>> /\ garbled' = FALSE /\ msg' = msg
          /\ users' = Threads \/ \A p \in Partials : ~Underway(p) /\ todo[p] = <<>>
        BY <1>15 DEF Connected
    <2>3. ASSUME NEW p \in Partials, users' \subseteq {p}
          PROVE  ~Loops(p)' /\ ~Underway(p)' /\ ~At(p, "raw")'
        <3>1. ~Underway(p) /\ todo[p] = <<>>
            BY <1>1, <2>2, <2>3
        <3>2. Loops(p)' <=> Loops(p)
            BY <1>1, <2>1, KeptOthers
        <3> QED
            BY <2>2, <3>1, <3>2 DEF Loops, At, Underway
    <2> QED
        BY <2>2, <2>3 DEF Alone
<1> QED
    BY <1>3, <1>lost, <1>4, <1>5, <1>6, <1>7, <1>8, <1>9, <1>10, <1>11, <1>12, <1>13, <1>14, <1>15
    DEF Step, Users

\* How what has arrived and what is in the buffer change.
LEMMA ServerSteps ==
    ASSUME SendInv, Step, limits' = limits
    PROVE  /\ \/ parts' = parts \/ parts' = <<>>
              \/ parts' = Now /\ tx_buffer \in Piece
           /\ done' = done \/ (done' = done \cup {Complete} /\ tx_buffer \in Piece)
           /\ \/ tx_buffer' = tx_buffer
              \/ \E s \in Users : tx_buffer'.of = s /\ tx_buffer'.no = msg[s].no
           /\ \A u \in Users : /\ msg[u].no \in Nat /\ msg'[u].no \in Nat
                               /\ msg[u].no <= msg'[u].no
<1> USE DEF SendInv
<1>1. \A u \in Users : msg[u].no \in Nat /\ msg'[u].no \in Nat
    <2>1. Types'
        BY TypesKept
    <2> QED
        BY <2>1 DEF Types, Values, Message
<1>2. ASSUME UNCHANGED <<parts, done, tx_buffer, msg>>
      PROVE  /\ parts' = parts /\ done' = done /\ tx_buffer' = tx_buffer
             /\ \A u \in Users : msg[u].no <= msg'[u].no
    BY <1>1, <1>2
<1>3. ASSUME NEW s \in Users, \A u \in Users : u # s => msg'[u] = msg[u],
             msg'[s].no = msg[s].no \/ msg'[s].no = msg[s].no + 1
      PROVE  \A u \in Users : msg[u].no <= msg'[u].no
    <2>1. msg[s].no <= msg'[s].no
        BY <1>1, <1>3
    <2>2. \A u \in Users : u # s => msg[u].no <= msg'[u].no
        BY <1>1, <1>3
    <2> QED
        BY <2>1, <2>2
<1>4. CASE \E th \in Threads :
              \/ Report(th) /\ UNCHANGED <<client, msg, server, users>>
              \/ Abort(th) \/ Lost(th) \/ Unlock(th)
    <2>1. UNCHANGED <<parts, done, tx_buffer, msg>>
        BY <1>4 DEF Abort, Lost, Unlock, client, server
    <2> QED
        BY <1>1, <1>2, <2>1
<1>5. CASE \/ TurnInit \/ ConnectFailed \/ TurnConnected \/ TurnWait \/ Poll \/ PollFailed
    <2>1. UNCHANGED <<parts, done, tx_buffer, msg>>
        BY <1>5 DEF TurnInit, ConnectFailed, TurnConnected, TurnWait, Poll, PollFailed, client, server
    <2> QED
        BY <1>1, <1>2, <2>1
<1>6. CASE Connected
    <2>1. parts' = <<>> /\ UNCHANGED <<done, tx_buffer, msg>>
        BY <1>6 DEF Connected
    <2> QED
        BY <1>1, <2>1
<1>7. ASSUME NEW s \in Users, Copy(s)
      PROVE  /\ parts' = parts /\ done' = done
             /\ tx_buffer'.of = s /\ tx_buffer'.no = msg[s].no /\ msg' = msg
    BY <1>7 DEF Copy, server
<1>8. ASSUME NEW s \in Users, Raw(s)
      PROVE  /\ parts' = <<>> \/ parts' = Now
             /\ done' = done \/ done' = done \cup {Complete}
             /\ tx_buffer \in Piece /\ tx_buffer' = tx_buffer
             /\ \A u \in Users : msg[u].no <= msg'[u].no
    <2>1. /\ \A u \in Users : u # s => msg'[u] = msg[u]
          /\ msg'[s].no = msg[s].no /\ tx_buffer \in Piece /\ Arrive(Frame(s))
          /\ tx_buffer' = tx_buffer
        BY <1>8, RawMsg DEF client
    <2> QED
        BY <1>3, <2>1, ArriveFacts
<1>9. ASSUME NEW s \in Users,
             \/ RawFailed(s) \/ SendCall(s) \/ SendLock(s) \/ SendLockTimeout(s)
             \/ PartialText(s) \/ PartialCont(s) \/ PartialFin(s)
      PROVE  /\ parts' = parts /\ done' = done /\ tx_buffer' = tx_buffer
             /\ \A u \in Users : msg[u].no <= msg'[u].no
    <2>1. UNCHANGED <<parts, done, tx_buffer>>
        BY <1>9 DEF RawFailed, SendCall, SendLock, SendLockTimeout, PartialText, PartialCont,
                    PartialFin, client, server
    <2>2. /\ \A u \in Users : u # s => msg'[u] = msg[u]
          /\ msg'[s].no = msg[s].no \/ msg'[s].no = msg[s].no + 1
        BY <1>9, MsgTodo
    <2> QED
        BY <1>3, <2>1, <2>2
<1>10. ASSUME NEW s \in Users, Return(s)
       PROVE  UNCHANGED <<parts, done, tx_buffer, msg>>
    BY <1>10 DEF Return, client, server
<1>11. CASE \E s \in Users : Copy(s)
    BY <1>1, <1>7, <1>11
<1>12. CASE \E s \in Users : Raw(s)
    BY <1>1, <1>8, <1>12
<1>13. CASE \E s \in Users : \/ RawFailed(s) \/ SendCall(s) \/ SendLock(s) \/ SendLockTimeout(s)
                             \/ PartialText(s) \/ PartialCont(s) \/ PartialFin(s)
    BY <1>1, <1>9, <1>13
<1>14. CASE \E s \in Users : Return(s)
    BY <1>1, <1>2, <1>10, <1>14
<1> QED
    BY <1>4, <1>5, <1>6, <1>11, <1>12, <1>13, <1>14 DEF Step, Users

\* The first fragment is one that was there or the one that arrives.
LEMMA CompleteFacts ==
    ASSUME Types, tx_buffer \in Piece
    PROVE  /\ Complete.of \in Users
           /\ \/ Complete.of = tx_buffer.of /\ Complete.no = tx_buffer.no
              \/ 1 \in 1 .. Len(parts) /\ Complete.of = parts[1].of /\ Complete.no = parts[1].no
<1>1. /\ 1 \in 1 .. Len(Now)
      /\ \A i \in 1 .. Len(parts) : Now[i] = parts[i]
      /\ Now[Len(Now)] = tx_buffer
      /\ \A i \in 1 .. Len(Now) : i \in 1 .. Len(parts) \/ i = Len(Now)
      /\ \A i \in 1 .. Len(Now) : Now[i] \in Piece
    BY NowFacts DEF Types, Values
<1>2. Complete.of = Now[1].of /\ Complete.no = Now[1].no
    BY DEF Complete
<1>3. Now[1] \in Piece /\ (1 \in 1 .. Len(parts) \/ 1 = Len(Now))
    BY <1>1
<1>4. Now[1].of \in Users
    BY <1>3 DEF Piece
<1>5. CASE 1 \in 1 .. Len(parts)
    BY <1>1, <1>2, <1>4, <1>5
<1>6. CASE 1 = Len(Now)
    BY <1>1, <1>2, <1>4, <1>6
<1> QED
    BY <1>3, <1>5, <1>6

LEMMA CountedKept ==
    ASSUME SendInv, Step, limits' = limits
    PROVE  Counted'
<1> USE DEF SendInv
<1>1. /\ \/ parts' = parts \/ parts' = <<>>
         \/ parts' = Now /\ tx_buffer \in Piece
      /\ done' = done \/ (done' = done \cup {Complete} /\ tx_buffer \in Piece)
      /\ \/ tx_buffer' = tx_buffer
         \/ \E s \in Users : tx_buffer'.of = s /\ tx_buffer'.no = msg[s].no
      /\ \A u \in Users : /\ msg[u].no \in Nat /\ msg'[u].no \in Nat
                          /\ msg[u].no <= msg'[u].no
    BY ServerSteps
<1>2. /\ \A d \in done : d.no <= msg[d.of].no
      /\ \A i \in 1 .. Len(parts) : parts[i].no <= msg[parts[i].of].no
      /\ tx_buffer.of \in Users => tx_buffer.no <= msg[tx_buffer.of].no
    BY DEF Arrivals, Counted
<1>3. ASSUME NEW u \in Users, NEW n \in Nat, n <= msg[u].no
      PROVE  n <= msg'[u].no
    BY <1>1, <1>3
<1>4. /\ \A d \in done : d.of \in Users /\ d.no \in Nat
      /\ \A i \in 1 .. Len(parts) : parts[i].of \in Users /\ parts[i].no \in Nat
      /\ tx_buffer \in Piece => tx_buffer.of \in Users /\ tx_buffer.no \in Nat
    <2>1. done \subseteq Arrived /\ parts \in Seq(Piece)
        BY DEF Types, Values
    <2>2. \A i \in 1 .. Len(parts) : parts[i] \in Piece
        BY <2>1, ElementOfSeq
    <2> QED
        BY <2>1, <2>2 DEF Arrived, Piece
<1>5. \A d \in done' : d.no <= msg'[d.of].no
    <2>1. \A d \in done : d.no <= msg'[d.of].no
        BY <1>2, <1>3, <1>4
    <2>2. ASSUME tx_buffer \in Piece
          PROVE  Complete.no <= msg'[Complete.of].no
        <3>1. /\ Complete.of \in Users
              /\ \/ Complete.of = tx_buffer.of /\ Complete.no = tx_buffer.no
                 \/ 1 \in 1 .. Len(parts) /\ Complete.of = parts[1].of /\ Complete.no = parts[1].no
            BY <2>2, CompleteFacts
        <3>2. Complete.no \in Nat /\ Complete.no <= msg[Complete.of].no
            BY <2>2, <3>1, <1>2, <1>4
        <3> QED
            BY <3>1, <3>2, <1>3
    <2> QED
        BY <1>1, <2>1, <2>2
<1>6. \A i \in 1 .. Len(parts') : parts'[i].no <= msg'[parts'[i].of].no
    <2>1. \A i \in 1 .. Len(parts) : parts[i].no <= msg'[parts[i].of].no
        BY <1>2, <1>3, <1>4
    <2>2. CASE parts' = parts
        BY <2>1, <2>2
    <2>3. CASE parts' = <<>>
        BY <2>3
    <2>4. CASE parts' = Now /\ tx_buffer \in Piece
        <3>1. /\ \A i \in 1 .. Len(parts) : Now[i] = parts[i]
              /\ Now[Len(Now)] = tx_buffer
              /\ \A i \in 1 .. Len(Now) : i \in 1 .. Len(parts) \/ i = Len(Now)
            BY <2>4, NowFacts DEF Types, Values
        <3>2. tx_buffer.no <= msg'[tx_buffer.of].no
            BY <2>4, <1>2, <1>3, <1>4
        <3>3. ASSUME NEW i \in 1 .. Len(Now)
              PROVE  Now[i].no <= msg'[Now[i].of].no
            <4>1. CASE i \in 1 .. Len(parts)
                BY <2>1, <3>1, <4>1
            <4>2. CASE i = Len(Now)
                BY <3>1, <3>2, <4>2
            <4> QED
                BY <3>1, <4>1, <4>2
        <3> QED
            BY <2>4, <3>3
    <2> QED
        BY <1>1, <2>2, <2>3, <2>4
<1>7. tx_buffer'.of \in Users => tx_buffer'.no <= msg'[tx_buffer'.of].no
    <2>1. CASE tx_buffer' = tx_buffer
        <3> SUFFICES ASSUME tx_buffer.of \in Users
                     PROVE  tx_buffer.no <= msg'[tx_buffer.of].no
            BY <2>1
        <3>1. tx_buffer # Nothing
            BY SendAssumption DEF Nothing, Users
        <3>2. tx_buffer \in Piece
            BY <3>1 DEF Types, Values
        <3> QED
            BY <3>2, <1>2, <1>3, <1>4
    <2>2. CASE \E s \in Users : tx_buffer'.of = s /\ tx_buffer'.no = msg[s].no
        BY <2>2, <1>1
    <2> QED
        BY <1>1, <2>1, <2>2
<1> QED
    BY <1>5, <1>6, <1>7 DEF Counted

\* What was new stays new while others send.
LEMMA FreshSame ==
    ASSUME Types, NEW s \in Users, Fresh(s), msg'[s].no = msg[s].no,
           \/ parts' = parts \/ parts' = <<>>
           \/ parts' = Now /\ tx_buffer \in Piece,
           done' = done \/ (done' = done \cup {Complete} /\ tx_buffer \in Piece),
           tx_buffer' = tx_buffer \/ tx_buffer'.of # s
    PROVE  Fresh(s)'
<1>1. /\ \A d \in done : d.of = s => d.no < msg[s].no
      /\ \A i \in 1 .. Len(parts) : parts[i].of = s => parts[i].no < msg[s].no
      /\ tx_buffer.of = s => tx_buffer.no < msg[s].no
    BY DEF Fresh
<1>2. \A d \in done' : d.of = s => d.no < msg[s].no
    <2>1. tx_buffer \in Piece /\ Complete.of = s => Complete.no < msg[s].no
        BY <1>1, CompleteFacts
    <2> QED
        BY <1>1, <2>1
<1>3. \A i \in 1 .. Len(parts') : parts'[i].of = s => parts'[i].no < msg[s].no
    <2>1. CASE parts' = parts
        BY <2>1, <1>1
    <2>2. CASE parts' = <<>>
        BY <2>2
    <2>3. CASE parts' = Now /\ tx_buffer \in Piece
        <3>1. /\ \A i \in 1 .. Len(parts) : Now[i] = parts[i]
              /\ Now[Len(Now)] = tx_buffer
              /\ \A i \in 1 .. Len(Now) : i \in 1 .. Len(parts) \/ i = Len(Now)
            BY <2>3, NowFacts DEF Types, Values
        <3>2. ASSUME NEW i \in 1 .. Len(Now)
              PROVE  Now[i].of = s => Now[i].no < msg[s].no
            <4>1. CASE i \in 1 .. Len(parts)
                BY <1>1, <3>1, <4>1
            <4>2. CASE i = Len(Now)
                BY <1>1, <3>1, <4>2
            <4> QED
                BY <3>1, <4>1, <4>2
        <3> QED
            BY <2>3, <3>2
    <2> QED
        BY <2>1, <2>2, <2>3
<1>4. tx_buffer'.of = s => tx_buffer'.no < msg[s].no
    BY <1>1
<1> QED
    BY <1>2, <1>3, <1>4 DEF Fresh

LEMMA FreshIsNone ==
    ASSUME Types, NEW s \in Users, Fresh(s)
    PROVE  Mine(s) = {}
<1>1. ASSUME NEW d \in done, d.of = s, d.no = msg[s].no
      PROVE  FALSE
    <2>1. msg[s].no \in Nat /\ d.no < msg[s].no
        BY <1>1 DEF Types, Values, Message, Fresh
    <2> QED
        BY <1>1, <2>1
<1> QED
    BY <1>1 DEF Mine

\* A message that begins has a number of its own.
LEMMA BegunIsFresh ==
    ASSUME Types, Counted, NEW s \in Users, msg'[s].no = msg[s].no + 1,
           UNCHANGED <<parts, done, tx_buffer>>
    PROVE  Fresh(s)' /\ Mine(s)' = {}
<1>1. msg[s].no \in Nat /\ s # Task
    BY SendAssumption DEF Types, Values, Message, Users
<1>2. /\ \A d \in done : d.of \in Users /\ d.no \in Nat
      /\ \A i \in 1 .. Len(parts) : parts[i].of \in Users /\ parts[i].no \in Nat
      /\ tx_buffer \in Piece => tx_buffer.of \in Users /\ tx_buffer.no \in Nat
    <2>1. done \subseteq Arrived /\ parts \in Seq(Piece)
        BY DEF Types, Values
    <2>2. \A i \in 1 .. Len(parts) : parts[i] \in Piece
        BY <2>1, ElementOfSeq
    <2> QED
        BY <2>1, <2>2 DEF Arrived, Piece
<1>3. \A n \in Nat : n <= msg[s].no => n < msg'[s].no /\ n # msg'[s].no
    BY <1>1
<1>4. \A d \in done : d.of = s => d.no < msg'[s].no /\ d.no # msg'[s].no
    BY <1>2, <1>3 DEF Counted
<1>5. \A i \in 1 .. Len(parts) : parts[i].of = s => parts[i].no < msg'[s].no
    BY <1>2, <1>3 DEF Counted
<1>6. tx_buffer.of = s => tx_buffer.no < msg'[s].no
    <2> SUFFICES ASSUME tx_buffer.of = s
                 PROVE  tx_buffer.no < msg'[s].no
        OBVIOUS
    <2>1. tx_buffer # Nothing
        BY <1>1 DEF Nothing
    <2>2. tx_buffer \in Piece
        BY <2>1 DEF Types, Values
    <2> QED
        BY <2>2, <1>2, <1>3 DEF Counted
<1> QED
    BY <1>4, <1>5, <1>6 DEF Fresh, Mine

LEMMA MineSame ==
    ASSUME NEW s, msg'[s].no = msg[s].no, done' = done
    PROVE  Mine(s)' = Mine(s)
BY DEF Mine

\* A step in which nothing arrives, and that changes one thread's message at most.
LEMMA ArrivalsBy ==
    ASSUME Types, Arrivals, Counted', NEW th \in Threads, Kept(th),
           UNCHANGED <<parts, done, tx_buffer, users>>,
           \A u \in Users : u # th => msg'[u] = msg[u],
           \A s \in Senders : s # th /\ lock' = <<s>> => lock = <<s>>,
           th \in Senders => ArrivedWhole(th)',
           th \in Partials => ArrivedInParts(th)'
    PROVE  Arrivals'
<1>1. \A u \in Users : u \in Threads
    BY SendAssumption DEF Users
<1>2. ASSUME NEW s \in Senders
      PROVE  ArrivedWhole(s)'
    <2>1. CASE s = th
        BY <2>1
    <2>2. CASE s # th
        <3>1. s \in Users /\ s \in Threads /\ msg'[s] = msg[s]
            BY <1>1, <2>2 DEF Users
        <3>2. (At(s, "lock")' <=> At(s, "lock")) /\ (Loops(s)' <=> Loops(s))
            BY <2>2, <3>1, KeptOthers
        <3>3. Fresh(s) => Fresh(s)'
            BY <3>1, FreshSame
        <3>4. Mine(s)' = Mine(s)
            BY <3>1, MineSame
        <3>5. ArrivedWhole(s)
            BY DEF Arrivals
        <3>6. lock' = <<s>> => lock = <<s>>
            BY <2>2
        <3> QED
            BY <3>1, <3>2, <3>3, <3>4, <3>5, <3>6 DEF ArrivedWhole
    <2> QED
        BY <2>1, <2>2
<1>3. ASSUME NEW p \in Partials
      PROVE  ArrivedInParts(p)'
    <2>1. CASE p = th
        BY <2>1
    <2>2. CASE p # th
        <3>1. p \in Users /\ p \in Threads /\ msg'[p] = msg[p]
            BY <1>1, <2>2 DEF Users
        <3>2. (todo[p] = <<>>)' <=> todo[p] = <<>>
            BY <2>2, <3>1, KeptOthers DEF As, Nearly
        <3>3. Loops(p)' <=> Loops(p)
            BY <2>2, <3>1, KeptOthers
        <3>4. Mine(p)' = Mine(p)
            BY <3>1, MineSame
        <3>5. Underway(p)' <=> Underway(p)
            BY <3>1 DEF Underway
        <3>6. ArrivedInParts(p)
            BY DEF Arrivals
        <3> QED
            BY <3>1, <3>2, <3>3, <3>4, <3>5, <3>6 DEF ArrivedInParts
    <2> QED
        BY <2>1, <2>2
<1> QED
    BY <1>2, <1>3 DEF Arrivals

LEMMA ArrivalsKept ==
    ASSUME SendInv, Step, limits' = limits
    PROVE  Arrivals'
<1> USE DEF SendInv
<1>1. /\ Task \in Threads /\ Task \notin Users /\ Task \notin Senders /\ Task \notin Partials
      /\ Users = Senders \cup Partials
      /\ \A s \in Users : s \in Threads
      /\ \A s \in Senders : s \in Users /\ s \notin Partials
      /\ \A p \in Partials : p \in Users /\ p \notin Senders
    BY SendAssumption DEF Users
<1>2. /\ \A t, other \in Threads : <<t>> = <<other>> => t = other
      /\ \A t \in Threads : <<t>> # <<>>
    <2>1. \A t : <<t>>[1] = t
        OBVIOUS
    <2>2. \A t \in Threads : <<t>> # <<>>
        OBVIOUS
    <2> QED
        BY <2>1, <2>2, Zenon
<1>3. Counted'
    BY CountedKept
<1>4. Counted /\ (\A s \in Senders : ArrivedWhole(s)) /\ (\A p \in Partials : ArrivedInParts(p))
    BY DEF Arrivals
<1>5. \A s \in Senders : Loops(s) => lock = <<s>>
    <2> SUFFICES ASSUME NEW s \in Senders, Loops(s)
                 PROVE  lock = <<s>>
        OBVIOUS
    <2>1. todo[s] # <<>> /\ ~At(s, "lock")
        BY DEF Loops, At
    <2> QED
        BY <1>1, <2>1, Shape DEF Locked
<1>6. ASSUME NEW th \in Threads, Kept(th), UNCHANGED <<parts, done, tx_buffer, users, msg>>,
             \A s \in Senders : lock' = <<s>> => lock = <<s>>,
             th \in Users => /\ At(th, "lock")' => At(th, "lock")
                             /\ Loops(th)' <=> Loops(th)
                             /\ (todo[th] # <<>>)' => todo[th] # <<>>
      PROVE  Arrivals'
    <2>1. Mine(th)' = Mine(th)
        BY <1>6, MineSame
    <2>2. ASSUME th \in Senders
          PROVE  ArrivedWhole(th)'
        <3>1. Fresh(th) => Fresh(th)'
            BY <1>1, <1>6, <2>2, FreshSame
        <3>2. lock' = <<th>> => lock = <<th>>
            BY <1>6, <2>2
        <3>3. /\ At(th, "lock")' => At(th, "lock")
              /\ Loops(th)' <=> Loops(th)
            BY <1>1, <1>6, <2>2
        <3>4. ArrivedWhole(th) /\ users' = users /\ msg' = msg
            BY <1>4, <1>6, <2>2
        <3> QED
            BY <2>1, <3>1, <3>2, <3>3, <3>4 DEF ArrivedWhole
    <2>3. ASSUME th \in Partials
          PROVE  ArrivedInParts(th)'
        <3>1. /\ (todo[th] # <<>>)' => todo[th] # <<>>
              /\ Loops(th)' <=> Loops(th)
            BY <1>1, <1>6, <2>3
        <3>2. ArrivedInParts(th) /\ users' = users /\ msg' = msg
            BY <1>4, <1>6, <2>3
        <3>3. Underway(th)' <=> Underway(th)
            BY <3>2 DEF Underway
        <3> QED
            BY <2>1, <3>1, <3>2, <3>3 DEF ArrivedInParts
    <2> QED
        BY <1>3, <1>6, <2>2, <2>3, ArrivalsBy
<1>7. ASSUME NEW th \in Threads, Report(th), UNCHANGED <<client, msg, server, users>>
      PROVE  Arrivals'
    <2>1. Kept(th) /\ As(th)
        BY <1>7, ReportTodo DEF Report
    <2>2. UNCHANGED <<parts, done, tx_buffer, users, msg, lock>>
        BY <1>7 DEF client, server
    <2>3. /\ At(th, "lock")' <=> At(th, "lock")
          /\ Loops(th)' <=> Loops(th)
          /\ (todo[th] = <<>>)' <=> todo[th] = <<>>
        BY <2>1 DEF As, Nearly, Loops
    <2> QED
        BY <1>6, <2>1, <2>2, <2>3
<1>8. ASSUME NEW th \in Threads, Abort(th)
      PROVE  Arrivals'
    <2>1. Kept(th) /\ Nearly(th)
        BY <1>8, AbortTodo
    <2>2. UNCHANGED <<parts, done, tx_buffer, users, msg, lock>>
        BY <1>8 DEF Abort, server
    <2>3. /\ At(th, "lock")' <=> At(th, "lock")
          /\ Loops(th)' <=> Loops(th)
          /\ (todo[th] = <<>>)' <=> todo[th] = <<>>
        BY <2>1 DEF Nearly, Loops
    <2> QED
        BY <1>6, <2>1, <2>2, <2>3
<1>lost. ASSUME NEW th \in Threads, Lost(th)
      PROVE  Arrivals'
    <2>1. Kept(th) /\ As(th)
        BY <1>lost, LostTodo
    <2>2. UNCHANGED <<parts, done, tx_buffer, users, msg, lock>>
        BY <1>lost DEF Lost, server
    <2>3. /\ At(th, "lock")' <=> At(th, "lock")
          /\ Loops(th)' <=> Loops(th)
          /\ (todo[th] = <<>>)' <=> todo[th] = <<>>
        BY <2>1 DEF As, Nearly, Loops
    <2> QED
        BY <1>6, <2>1, <2>2, <2>3
<1>9. ASSUME NEW th \in Threads, Unlock(th)
      PROVE  Arrivals'
    <2>1. /\ Kept(th) /\ At(th, "unlock") /\ ~Loops(th) /\ ~Loops(th)' /\ ~At(th, "lock")'
          /\ todo[th] # <<>>
        BY <1>9, UnlockTodo DEF At
    <2>2. UNCHANGED <<parts, done, tx_buffer, users, msg>>
        BY <1>9 DEF Unlock, server
    <2>3. lock' = <<>>
        <3>1. lock = <<th>>
            BY <2>1, Shape DEF Locked
        <3> QED
            BY <1>9, <3>1 DEF Unlock
    <2>4. \A s \in Senders : ~(lock' = <<s>>)
        BY <1>1, <1>2, <2>3
    <2> QED
        BY <1>6, <2>1, <2>2, <2>4
<1>10. ASSUME NEW s \in Users, Copy(s)
       PROVE  Arrivals'
    <2>1. /\ Kept(s) /\ At(s, "copy") /\ At(s, "raw")' /\ ~At(s, "lock")' /\ todo[s] # <<>>
        BY <1>10, CopyTodo DEF At
    <2>2. /\ UNCHANGED <<parts, done, msg, lock>> /\ users' = users \cup {s}
          /\ tx_buffer' = [of |-> s, no |-> msg[s].no, from |-> msg[s].widx,
                           to |-> msg[s].widx + Frame(s).length]
        BY <1>10 DEF Copy, server
    <2>3. Loops(s) /\ Loops(s)' /\ tx_buffer'.of = s
        BY <2>1, <2>2 DEF Loops
    <2>4. \A u \in Users : Mine(u)' = Mine(u)
        BY <2>2, MineSame
    <2>5. ASSUME NEW o \in Senders
          PROVE  ArrivedWhole(o)'
        <3>1. CASE o = s
            <4>1. /\ ~At(o, "lock")' /\ s \in users'
                  /\ users' \cap Partials = {} => users \cap Partials = {}
                BY <2>1, <2>2, <3>1
            <4>2. ArrivedWhole(o) /\ Mine(o)' = Mine(o)
                BY <1>1, <1>4, <2>4
            <4> QED
                BY <2>2, <2>3, <3>1, <4>1, <4>2 DEF ArrivedWhole
        <3>2. CASE o # s
            <4>1. (At(o, "lock")' <=> At(o, "lock")) /\ (Loops(o)' <=> Loops(o))
                BY <1>1, <2>1, <3>2, KeptOthers
            <4>2. Fresh(o) => Fresh(o)'
                BY <1>1, <2>2, <2>3, <3>2, FreshSame
            <4>3. /\ users' \cap Partials = {} => users \cap Partials = {}
                  /\ o \notin users' => o \notin users
                BY <2>2
            <4>4. ArrivedWhole(o) /\ Mine(o)' = Mine(o)
                BY <1>1, <1>4, <2>4
            <4> QED
                BY <2>2, <4>1, <4>2, <4>3, <4>4 DEF ArrivedWhole
        <3> QED
            BY <3>1, <3>2
    <2>6. ASSUME NEW p \in Partials, users' \subseteq {p}
          PROVE  ArrivedInParts(p)'
        <3>1. p = s /\ users \subseteq {p}
            BY <2>2, <2>6
        <3>2. ArrivedInParts(p) /\ Mine(p)' = Mine(p)
            BY <1>1, <1>4, <2>4
        <3> QED
            BY <2>1, <2>2, <2>3, <3>1, <3>2 DEF ArrivedInParts
    <2>7. \A p \in Partials : ArrivedInParts(p)'
        BY <2>6 DEF ArrivedInParts
    <2> QED
        BY <1>3, <2>5, <2>7 DEF Arrivals
<1>11. ASSUME NEW s \in Users, Raw(s)
       PROVE  Arrivals'
    <2>1. /\ Kept(s) /\ At(s, "raw") /\ ~At(s, "raw")' /\ ~At(s, "lock")'
          /\ UNCHANGED <<client, users>> /\ todo[s] # <<>>
          /\ msg'[s].no = msg[s].no /\ msg'[s].fin = msg[s].fin /\ msg'[s].ok = msg[s].ok
          /\ msg'[s].len = msg[s].len
          /\ At(s, "copy")' <=> ~(msg[s].len - msg[s].widx <= buffer_size)
          /\ open /\ tx_buffer \in Piece /\ Arrive(Frame(s))
          /\ \A u \in Users : u # s => msg'[u] = msg[u]
        BY <1>11, RawMsg DEF At
    <2>2. /\ s \in users /\ users' = users /\ lock' = lock /\ tx_buffer' = tx_buffer
          /\ Loops(s) /\ msg[s].ok
        BY <2>1 DEF Sending, Sent, client, Loops
    <2>3. Frame(s).fin <=> msg[s].fin /\ msg[s].len - msg[s].widx <= buffer_size
        BY FrameLength DEF Sending, Sent
    <2>4. Loops(s)' <=> ~(msg[s].len - msg[s].widx <= buffer_size)
        BY <2>1 DEF Loops
    <2>5. /\ parts' = <<>> \/ parts' = Now
          /\ done' = done \/ done' = done \cup {Complete}
        BY <2>1, ArriveFacts
    <2> DEFINE mine == [of |-> s, no |-> msg[s].no, len |-> msg[s].len]
    <2>6. ASSUME Mine(s) = {}, ~garbled, Chain(s), Copied(s)
          PROVE  Mine(s)' = IF Frame(s).fin THEN {mine} ELSE {}
        <3>1. /\ Frame(s).fin => done' = done \cup {mine}
              /\ ~Frame(s).fin => done' = done
            BY <1>11, <2>6, RawLegal
        <3>2. mine.of = s /\ mine.no = msg[s].no
            OBVIOUS
        <3> HIDE DEF mine
        <3> QED
            BY <2>1, <2>6, <3>1, <3>2 DEF Mine
    <2>7. ASSUME NEW o \in Senders
          PROVE  ArrivedWhole(o)'
        <3>1. CASE o = s
            <4>1. ~At(o, "lock")' /\ o \in users'
                BY <2>1, <2>2, <3>1
            <4>2. ASSUME users \cap Partials = {}
                  PROVE  Mine(s)' = IF Frame(s).fin THEN {mine} ELSE {}
                <5>1. ~garbled /\ Chain(s) /\ Copied(s)
                    BY <2>1, <2>2, <3>1, <4>2 DEF Whole
                <5>2. Mine(s) = {}
                    BY <1>4, <1>5, <2>2, <3>1, <4>2 DEF ArrivedWhole
                <5> QED
                    BY <5>1, <5>2, <2>6
            <4>3. msg[s].fin
                BY <2>1, <3>1 DEF Sending, Sent
            <4>4. msg'[s].ok /\ mine = [of |-> s, no |-> msg'[s].no, len |-> msg'[s].len]
                BY <2>1, <2>2
            <4> HIDE DEF mine
            <4> QED
                BY <2>2, <2>3, <2>4, <3>1, <4>1, <4>2, <4>3, <4>4 DEF ArrivedWhole
        <3>2. CASE o # s
            <4>1. At(o, "lock")' <=> At(o, "lock")
                BY <1>1, <2>1, <3>2, KeptOthers
            <4>2. Fresh(o) => Fresh(o)'
                BY <1>1, <2>1, <2>2, <2>5, <3>2, FreshSame
            <4>3. ~(lock = <<o>> /\ users \cap Partials = {})
                <5> SUFFICES ASSUME lock = <<o>>, users \cap Partials = {}
                             PROVE  FALSE
                    OBVIOUS
                <5>1. s \in Senders
                    BY <1>1, <2>2
                <5>2. lock = <<s>>
                    BY <1>5, <2>2, <5>1
                <5> QED
                    BY <1>1, <1>2, <3>2, <5>1, <5>2
            <4>4. ArrivedWhole(o)
                BY <1>4
            <4> QED
                BY <2>2, <4>1, <4>2, <4>3, <4>4 DEF ArrivedWhole
        <3> QED
            BY <3>1, <3>2
    <2>8. ASSUME NEW p \in Partials, users' \subseteq {p}
          PROVE  ArrivedInParts(p)'
        <3>1. p = s /\ users \subseteq {p}
            BY <2>2, <2>8
        <3>2. ~garbled /\ Chain(s) /\ Copied(s)
            BY <2>1, <2>2, <3>1 DEF Alone
        <3>3. Mine(s) = {}
            BY <1>4, <2>1, <2>2, <3>1 DEF ArrivedInParts
        <3>4. Mine(s)' = IF Frame(s).fin THEN {mine} ELSE {}
            BY <3>2, <3>3, <2>6
        <3>5. msg'[s].ok /\ mine = [of |-> s, no |-> msg'[s].no, len |-> msg'[s].len]
            BY <2>1, <2>2
        <3> HIDE DEF mine
        <3> QED
            BY <2>1, <2>3, <2>4, <3>1, <3>4, <3>5 DEF ArrivedInParts
    <2>9. \A p \in Partials : ArrivedInParts(p)'
        BY <2>8 DEF ArrivedInParts
    <2> QED
        BY <1>3, <2>7, <2>9 DEF Arrivals
<1>12. ASSUME NEW s \in Users, RawFailed(s)
       PROVE  Arrivals'
    <2>1. /\ Kept(s) /\ At(s, "raw") /\ ~At(s, "copy")' /\ ~At(s, "raw")' /\ ~At(s, "lock")'
          /\ todo[s] # <<>>
        BY <1>12, RawFailedTodo DEF At
    <2>2. UNCHANGED <<parts, done, tx_buffer, users, lock>>
        BY <1>12 DEF RawFailed, client, server
    <2>3. /\ \A u \in Users : u # s => msg'[u] = msg[u]
          /\ msg'[s].no = msg[s].no /\ msg'[s].ok = FALSE
        BY <1>12, MsgTodo
    <2>4. Loops(s) /\ s \in users /\ Mine(s)' = Mine(s)
        BY <2>1, <2>2, <2>3, MineSame DEF Loops, Sending, Sent
    <2>5. s \in Senders => ArrivedWhole(s)'
        BY <1>4, <2>1, <2>2, <2>3, <2>4 DEF ArrivedWhole
    <2>6. s \in Partials => ArrivedInParts(s)'
        BY <1>4, <2>1, <2>2, <2>3, <2>4 DEF ArrivedInParts
    <2> QED
        BY <1>1, <1>3, <2>1, <2>2, <2>3, <2>5, <2>6, ArrivalsBy
<1>13. ASSUME NEW s \in Users, SendCall(s)
       PROVE  Arrivals'
    <2>1. /\ Kept(s) /\ s \in Senders /\ todo[s] = <<>> /\ At(s, "lock")'
          /\ ~At(s, "copy")' /\ ~At(s, "raw")'
        BY <1>13, SendTodo
    <2>2. UNCHANGED <<parts, done, tx_buffer, users, lock>>
        BY <1>13 DEF SendCall, client, server
    <2>3. /\ \A u \in Users : u # s => msg'[u] = msg[u]
          /\ msg'[s].no = msg[s].no + 1
        BY <1>13, MsgTodo
    <2>4. Fresh(s)'
        BY <1>4, <2>2, <2>3, BegunIsFresh
    <2>5. ~(lock' = <<s>>)
        BY <1>1, <2>1, <2>2, Shape DEF Locked
    <2>6. ArrivedWhole(s)'
        BY <2>4, <2>5 DEF ArrivedWhole
    <2> QED
        BY <1>1, <1>3, <2>1, <2>2, <2>3, <2>6, ArrivalsBy
<1>14. ASSUME NEW s \in Users, SendLockTimeout(s)
       PROVE  Arrivals'
    <2>1. /\ Kept(s) /\ s \in Senders /\ At(s, "lock") /\ ~At(s, "lock")'
        BY <1>14, SendTodo
    <2>2. UNCHANGED <<parts, done, tx_buffer, users, lock>>
        BY <1>14 DEF SendLockTimeout, client, server
    <2>3. \A u \in Users : u # s => msg'[u] = msg[u]
        BY <1>14, MsgTodo
    <2>4. ~(lock' = <<s>>)
        BY <1>1, <2>1, <2>2, Shape DEF Locked
    <2>5. ArrivedWhole(s)'
        BY <2>1, <2>4 DEF ArrivedWhole
    <2> QED
        BY <1>1, <1>3, <2>1, <2>2, <2>3, <2>5, ArrivalsBy
<1>15. ASSUME NEW s \in Users, SendLock(s)
       PROVE  Arrivals'
    <2>1. /\ Kept(s) /\ s \in Senders /\ At(s, "lock") /\ ~At(s, "raw")' /\ ~At(s, "lock")'
          /\ At(s, "copy")' <=> state = "CONNECTED"
        BY <1>15, SendTodo
    <2>2. UNCHANGED <<parts, done, tx_buffer, users, state>>
        BY <1>15 DEF SendLock, server
    <2>3. /\ \A u \in Users : u # s => msg'[u] = msg[u]
          /\ msg'[s].no = msg[s].no /\ msg'[s].ok = (state = "CONNECTED")
        BY <1>15, MsgTodo
    <2>4. Fresh(s)
        BY <1>4, <2>1 DEF ArrivedWhole
    <2>5. Fresh(s)' /\ Mine(s)' = {}
        BY <2>2, <2>3, <2>4, FreshSame, FreshIsNone, MineSame
    <2>6. lock = <<>> /\ lock' = <<s>>
        <3>1. lock = <<>>
            BY <1>1, <1>15, <2>1, LockFree DEF SendLock
        <3>2. <<s>> \o <<>> = <<s>>
            <4>1. <<s>> \in Seq(Users)
                OBVIOUS
            <4> QED
                BY <4>1, ConcatEmptySeq
        <3> QED
            BY <1>15, <3>1, <3>2 DEF SendLock
    <2>7. \A o \in Senders : o # s => ~(lock' = <<o>>)
        BY <1>1, <1>2, <2>6
    <2>8. ~(msg'[s].ok /\ ~Loops(s)')
        BY <2>1, <2>3 DEF Loops
    <2>9. ArrivedWhole(s)'
        BY <2>5, <2>8 DEF ArrivedWhole
    <2> QED
        BY <1>1, <1>3, <2>1, <2>2, <2>3, <2>7, <2>9, ArrivalsBy
<1>16. ASSUME NEW s \in Users, PartialText(s)
       PROVE  Arrivals'
    <2>1. Kept(s) /\ s \in Partials /\ At(s, "copy")'
        BY <1>16, SendTodo
    <2>2. UNCHANGED <<parts, done, tx_buffer, users, lock>>
        BY <1>16 DEF PartialText, client, server
    <2>3. /\ \A u \in Users : u # s => msg'[u] = msg[u]
          /\ msg'[s].no = msg[s].no + 1
        BY <1>16, MsgTodo
    <2>4. Mine(s)' = {} /\ Loops(s)'
        BY <1>4, <2>1, <2>2, <2>3, BegunIsFresh DEF Loops
    <2>5. ArrivedInParts(s)'
        BY <2>4 DEF ArrivedInParts
    <2> QED
        BY <1>1, <1>3, <2>1, <2>2, <2>3, <2>5, ArrivalsBy
<1>17. ASSUME NEW s \in Users, PartialCont(s) \/ PartialFin(s)
       PROVE  Arrivals'
    <2>1. /\ Kept(s) /\ s \in Partials /\ ~Loops(s) /\ Underway(s)
          /\ PartialFin(s) => At(s, "copy")'
        BY <1>17, SendTodo DEF PartialCont, PartialFin
    <2>2. UNCHANGED <<parts, done, tx_buffer, users, lock>>
        BY <1>17 DEF PartialCont, PartialFin, client, server
    <2>3. /\ \A u \in Users : u # s => msg'[u] = msg[u]
          /\ msg'[s].no = msg[s].no
          /\ PartialCont(s) => msg'[s].fin = msg[s].fin
        BY <1>17, MsgTodo
    <2>4. Mine(s)' = Mine(s)
        BY <2>2, <2>3, MineSame
    <2>5. users \subseteq {s} => Mine(s) = {}
        BY <1>4, <2>1 DEF ArrivedInParts, Underway
    <2>6. ~(msg'[s].fin /\ ~Loops(s)')
        BY <1>17, <2>1, <2>3 DEF Underway, Loops
    <2>7. ArrivedInParts(s)'
        BY <2>2, <2>4, <2>5, <2>6 DEF ArrivedInParts
    <2> QED
        BY <1>1, <1>3, <2>1, <2>2, <2>3, <2>7, ArrivalsBy
<1>18. ASSUME NEW s \in Users, Return(s)
       PROVE  Arrivals'
    <2>1. /\ Kept(s) /\ ~Loops(s) /\ (todo[s] = <<>>)' /\ ~At(s, "copy")' /\ ~At(s, "raw")'
          /\ ~At(s, "lock")'
        BY <1>18, SendTodo
    <2>2. UNCHANGED <<parts, done, tx_buffer, users, msg, lock>>
        BY <1>18 DEF Return, client, server
    <2> QED
        BY <1>1, <1>6, <2>1, <2>2 DEF Loops
<1>19. ASSUME TurnInit \/ TurnConnected \/ TurnWait
       PROVE  Arrivals'
    <2>1. Kept(Task)
        BY <1>19, TurnTodo
    <2>2. UNCHANGED <<parts, done, tx_buffer, users, msg>> /\ lock' = <<Task>>
        BY <1>19 DEF TurnInit, TurnConnected, TurnWait, Turn, server
    <2>3. \A s \in Senders : ~(lock' = <<s>>)
        BY <1>1, <1>2, <2>2
    <2> QED
        BY <1>1, <1>6, <2>1, <2>2, <2>3
<1>20. ASSUME ConnectFailed \/ Poll \/ PollFailed
       PROVE  Arrivals'
    <2>1. Kept(Task)
        BY <1>20, InTurnTodo
    <2>2. UNCHANGED <<parts, done, tx_buffer, users, msg, lock>>
        BY <1>20 DEF ConnectFailed, Poll, PollFailed, client, server
    <2> QED
        BY <1>1, <1>6, <2>1, <2>2
<1>21. ASSUME Connected
       PROVE  Arrivals'
    <2>1. Kept(Task) /\ At(Task, "connect")
        BY <1>21, InTurnTodo
    <2>2. /\ parts' = <<>> /\ UNCHANGED <<done, msg, lock, tx_buffer>>
          /\ users' = Threads \/ \A p \in Partials : ~Underway(p) /\ todo[p] = <<>>
        BY <1>21 DEF Connected
    <2>3. lock = <<Task>>
        BY <1>1, <2>1, Shape DEF Locked
    <2>4. ASSUME NEW s \in Senders
          PROVE  ArrivedWhole(s)'
        <3>1. ~(lock' = <<s>>)
            BY <1>1, <1>2, <2>2, <2>3
        <3>2. At(s, "lock")' <=> At(s, "lock")
            BY <1>1, <2>1, KeptOthers
        <3>3. Fresh(s) => Fresh(s)'
            BY <1>1, <2>2, FreshSame
        <3> QED
            BY <1>4, <3>1, <3>2, <3>3 DEF ArrivedWhole
    <2>5. ASSUME NEW p \in Partials, users' \subseteq {p}
          PROVE  ~((todo[p] # <<>>)' \/ Underway(p)')
        <3>1. ~Underway(p) /\ todo[p] = <<>>
            BY <1>1, <2>2, <2>5
        <3>2. (todo[p] = <<>>)' <=> todo[p] = <<>>
            BY <1>1, <2>1, KeptOthers DEF As, Nearly
        <3> QED
            BY <2>2, <3>1, <3>2 DEF Underway
    <2>6. \A p \in Partials : ArrivedInParts(p)'
        BY <2>5 DEF ArrivedInParts
    <2> QED
        BY <1>3, <2>4, <2>6 DEF Arrivals
<1> QED
    BY <1>7, <1>lost, <1>8, <1>9, <1>10, <1>11, <1>12, <1>13, <1>14, <1>15, <1>16, <1>17, <1>18, <1>19,
       <1>20, <1>21
    DEF Step, Users

-----------------------------------------------------------------------------
(* The theorems.                                                           *)

LEMMA SendStarts == Init => SendInv
<1> SUFFICES ASSUME Init
             PROVE  SendInv
    OBVIOUS
<1>1. /\ Task \in Threads /\ Task \notin Users /\ Users = Threads \ {Task}
      /\ \A s \in Users : s \in Threads /\ s # Task
      /\ \A s \in Senders : s \in Users
      /\ \A p \in Partials : p \in Users
    BY SendAssumption DEF Users
<1>2. /\ limits \in Limits /\ queue = <<>>
      /\ errormsg_size = 0 /\ errormsg_buffer = 0 /\ allocated = {}
      /\ needed_size = [th \in Threads |-> 0]
      /\ data_ptr = [th \in Threads |-> 0]
      /\ met = FALSE
      /\ todo = [th \in Threads |-> IF th = Task THEN <<"turn">> ELSE <<>>]
      /\ state = "INIT" /\ lock = <<>> /\ tx_buffer = Nothing
      /\ open = FALSE /\ conn = 0
      /\ msg = [th \in Threads \ {Task} |-> NoMessage]
      /\ parts = <<>> /\ garbled = FALSE /\ done = {} /\ users = {}
    BY DEF Init, EventsInit
<1>3. DOMAIN todo = Threads /\ todo[Task] = <<"turn">> /\ \A s \in Users : todo[s] = <<>>
    BY <1>1, <1>2
<1>4. /\ \A step : At(Task, step) <=> step = "turn"
      /\ \A s \in Users : \A step : ~At(s, step)
      /\ \A s \in Users : \A step : ~Has(s, step)
      /\ ~Has(Task, "unlock")
    <2>1. Head(<<"turn">>) = "turn" /\ <<"turn">> # <<>> /\ Len(<<"turn">>) = 1 /\ Len(<<>>) = 0
          /\ \A i \in 1 .. 1 : <<"turn">>[i] # "unlock"
        OBVIOUS
    <2>2. \A step : At(Task, step) <=> step = "turn"
        BY <1>3, <2>1 DEF At
    <2>3. \A s \in Users : \A step : ~At(s, step)
        BY <1>3 DEF At
    <2>4. \A s \in Users : \A step : ~Has(s, step)
        BY <1>3, <2>1 DEF Has
    <2>5. ~Has(Task, "unlock")
        BY <1>3, <2>1 DEF Has
    <2> QED
        BY <2>2, <2>3, <2>4, <2>5
<1>5. \A s \in Users : /\ msg[s] = NoMessage /\ msg[s].no = 0 /\ msg[s].len = 0
                       /\ msg[s].widx = 0 /\ msg[s].opcode = "NONE" /\ msg[s].fin = FALSE
                       /\ msg[s].ok = TRUE
    BY <1>1, <1>2 DEF NoMessage
<1>6. Types
    <2>1. \A th \in Threads : Ordered(th, todo[th])
        BY <1>1, <1>3, OrderedTurns, OrderedSends DEF Users
    <2>2. todo[Task] # <<>>
        BY <1>3
    <2>3. msg \in [Users -> Message]
        BY <1>1, <1>2 DEF NoMessage, Message
    <2>4. Values
        BY <1>2, <2>3, EmptySeq DEF Values
    <2> QED
        BY <1>2, <1>3, <2>1, <2>2, <2>4 DEF Types
<1>7. Events
    BY <1>1, <1>4 DEF Events, RunsItsOwn
<1>8. Errors
    <2>1. \A th \in Threads : /\ data_ptr[th] = 0 /\ needed_size[th] = 0
                              /\ \A x \in {"free", "malloc", "print"} : ~At(th, x)
        BY <1>1, <1>2, <1>4
    <2>2. \A th \in Threads : ~InError(th)
        BY <2>1 DEF InError
    <2>3. errormsg_size \in Nat /\ ~(errormsg_size > 0)
        BY <1>2
    <2>4. needed_size \in [Threads -> Nat] /\ DOMAIN data_ptr = Threads
        BY <1>2
    <2>5. met \in BOOLEAN
        BY <1>2
    <2> QED
        BY <1>2, <2>1, <2>2, <2>3, <2>4, <2>5 DEF Errors
<1>9. Locked
    <2>1. \A th \in Threads : <<th>> # <<>>
        OBVIOUS
    <2> QED
        BY <1>1, <1>2, <1>4, <2>1 DEF Locked
<1>10. Sending
    <2>1. ASSUME NEW s \in Users
          PROVE  Sent(s)
        <3>1. msg[s].widx <= msg[s].len
            BY <1>5
        <3> QED
            BY <3>1, <1>3, <1>4, <1>5 DEF Sent, Loops
    <2> QED
        BY <2>1 DEF Sending
<1>11. Whole /\ Alone
    BY <1>1, <1>2, <1>4 DEF Whole, Alone, Loops
<1>12. Arrivals
    <2>1. Counted
        <3>1. tx_buffer.of = Task /\ Len(<<>>) = 0
            BY <1>2 DEF Nothing
        <3> QED
            BY <1>1, <1>2, <3>1 DEF Counted
    <2>2. \A s \in Senders : ArrivedWhole(s)
        <3>1. \A s \in Users : lock # <<s>>
            BY <1>2
        <3> QED
            BY <1>1, <1>4, <3>1 DEF ArrivedWhole
    <2>3. \A p \in Partials : ArrivedInParts(p)
        <3>1. ~(0 > 0)
            OBVIOUS
        <3> QED
            BY <1>1, <1>3, <1>5, <3>1 DEF ArrivedInParts, Underway
    <2> QED
        BY <2>1, <2>2, <2>3 DEF Arrivals
<1> QED
    BY <1>6, <1>7, <1>8, <1>9, <1>10, <1>11, <1>12 DEF SendInv

LEMMA SendStays ==
    ASSUME SendInv, UNCHANGED vars
    PROVE  SendInv'
<1> USE DEF SendInv
<1>1. UNCHANGED <<limits, todo, queue, errormsg_size, errormsg_buffer, allocated, needed_size,
                  data_ptr, met, state, lock, tx_buffer, open, conn, msg, parts, garbled, done,
                  users>>
    BY DEF vars, errors, client, server
<1>2. Types' /\ Events'
    BY <1>1 DEF Types, Values, Events, RunsItsOwn, At
<1>3. Errors'
    BY <1>1 DEF Errors, InError, At
<1>4. Locked' /\ Sending'
    BY <1>1 DEF Locked, Sending, Sent, Has, At, Loops
<1>5. Whole' /\ Alone'
    BY <1>1 DEF Whole, Alone, Chain, Copied, Frame, Has, At, Loops, Underway
<1>6. Arrivals'
    BY <1>1 DEF Arrivals, Counted, ArrivedWhole, ArrivedInParts, Fresh, Mine, At, Loops, Underway
<1> QED
    BY <1>2, <1>3, <1>4, <1>5, <1>6

\* The inductive invariant: what the threads have before them, who has the lock,
\* what is in the buffer and what the server has got belong together, however
\* the sends, the task and the breaks of the connection come between each other.
THEOREM SendCorrect == Spec => []SendInv
<1>1. Init => SendInv
    BY SendStarts
<1>2. SendInv /\ [Next]_vars => SendInv'
    <2> SUFFICES ASSUME SendInv, [Next]_vars
                 PROVE  SendInv'
        OBVIOUS
    <2>1. CASE Next
        <3>1. Step /\ limits' = limits
            BY <2>1 DEF Next
        <3> QED
            BY <3>1, TypesKept, EventsKept, ErrorsKept, LockedKept, SendingKept, WholeKept,
               AloneKept, ArrivalsKept DEF SendInv
    <2>2. CASE UNCHANGED vars
        BY <2>2, SendStays
    <2> QED
        BY <2>1, <2>2
<1> QED
    BY <1>1, <1>2, PTL DEF Spec

\* esp_websocket_client_dispatch_event() runs the event it has posted, and no
\* other thread's.
THEOREM EventsCorrect == Spec => []RunsItsOwn
<1>1. SendInv => RunsItsOwn
    BY DEF SendInv, Events
<1> QED
    BY <1>1, SendCorrect, PTL

\* esp_websocket_client_error() prints into and frees memory that is allocated,
\* and an event points to it, as long as no two threads are in it at once.
THEOREM BufferCorrect == Spec => []BufferIsSound
<1>1. SendInv => BufferIsSound
    <2> SUFFICES ASSUME SendInv, ~met, NEW th \in Threads
                 PROVE  /\ At(th, "free") => errormsg_buffer \in allocated \cup {0}
                        /\ At(th, "print") => errormsg_buffer \in allocated
                                              /\ needed_size[th] <= errormsg_size
                        /\ data_ptr[th] \in allocated \cup {0}
        BY DEF BufferIsSound
    <2>1. At(th, "free") => \A other \in Threads : ~At(other, "malloc")
        <3> SUFFICES ASSUME At(th, "free"), NEW other \in Threads, At(other, "malloc")
                     PROVE  FALSE
            OBVIOUS
        <3>1. InError(th) /\ InError(other)
            BY DEF InError
        <3>2. th = other
            BY <3>1 DEF SendInv, Errors
        <3> QED
            BY <3>2 DEF At
    <2> QED
        BY <2>1 DEF SendInv, Errors
<1> QED
    BY <1>1, SendCorrect, PTL

\* The server makes sense of every frame, as long as only whole messages are
\* sent on a connection, or one thread alone sends on it.
THEOREM WireCorrect == Spec => []WireIsLegal
<1>1. SendInv => WireIsLegal
    <2> SUFFICES ASSUME SendInv, Undisturbed
                 PROVE  ~garbled
        BY DEF WireIsLegal
    <2>1. CASE users \cap Partials = {}
        BY <2>1 DEF SendInv, Whole
    <2>2. CASE \E p \in Partials : users = {p}
        BY <2>2 DEF SendInv, Alone
    <2> QED
        BY <2>1, <2>2 DEF Undisturbed
<1> QED
    BY <1>1, SendCorrect, PTL

\* esp_websocket_client_send_with_exact_opcode() says what became of a message to a
\* caller who compares its result with the length: they agree when all of it has
\* arrived, once and as it was, and differ when none has.
THEOREM TruthCorrect == Spec => []Truthful
<1>1. SendInv => Truthful
    <2> SUFFICES ASSUME SendInv, Undisturbed, NEW s \in Users,
                        IF s \in Senders THEN At(s, "unlock")
                        ELSE At(s, "return") /\ msg[s].fin
                 PROVE  Mine(s) = IF Returned(s) = msg[s].len
                                  THEN {[of |-> s, no |-> msg[s].no, len |-> msg[s].len]}
                                  ELSE {}
        BY DEF Truthful, Mine, Users
    <2> USE DEF SendInv
    <2>1. s \in Threads /\ (s \in Senders => s \notin Partials) /\ (s \in Senders \/ s \in Partials)
        BY SendAssumption DEF Users
    <2>4. Returned(s) = msg[s].len <=> msg[s].ok
        <3>1. msg[s] \in Message /\ msg[s].len \in Nat
            BY DEF Types, Values, Message
        <3>2. ~msg[s].ok => Returned(s) # msg[s].len
            BY <3>1 DEF Returned, Message
        <3>3. ~Loops(s) /\ (s \in Senders => Has(s, "unlock"))
            BY <2>1, Shape DEF At, Loops
        <3>4. msg[s].ok => Returned(s) = msg[s].len
            BY <2>1, <3>3 DEF Returned, Sending, Sent
        <3> QED
            BY <3>2, <3>4
    <2> SUFFICES Mine(s) = IF msg[s].ok
                           THEN {[of |-> s, no |-> msg[s].no, len |-> msg[s].len]}
                           ELSE {}
        BY <2>4
    <2>2. CASE s \in Senders
        <3>1. At(s, "unlock") /\ ~Loops(s) /\ ~At(s, "copy")
            BY <2>2 DEF At, Loops
        <3>2. Has(s, "unlock") /\ lock = <<s>>
            BY <2>1, <3>1, Shape DEF Locked
        <3>3. CASE users \cap Partials = {}
            BY <2>2, <3>1, <3>2, <3>3 DEF Arrivals, ArrivedWhole
        <3>4. CASE \E p \in Partials : users = {p}
            <4>1. s \notin users
                BY <2>1, <2>2, <3>4
            <4>2. ~msg[s].ok
                BY <2>2, <3>1, <3>2, <4>1 DEF Sending, Sent
            <4>3. Fresh(s)
                BY <2>2, <3>2, <4>1 DEF Arrivals, ArrivedWhole
            <4> QED
                BY <4>2, <4>3, FreshIsNone
        <3> QED
            BY <3>3, <3>4 DEF Undisturbed
    <2>3. CASE s \in Partials
        <3>1. At(s, "return") /\ msg[s].fin /\ ~Loops(s) /\ ~At(s, "copy") /\ todo[s] # <<>>
            BY <2>1, <2>3 DEF At, Loops
        <3>2. s \in users
            BY <2>3, <3>1 DEF Sending, Sent
        <3>3. users \subseteq {s}
            BY <2>3, <3>2 DEF Undisturbed
        <3> QED
            BY <2>3, <3>1, <3>3 DEF Arrivals, ArrivedInParts
    <2> QED
        BY <2>1, <2>2, <2>3
<1> QED
    BY <1>1, SendCorrect, PTL

=============================================================================
