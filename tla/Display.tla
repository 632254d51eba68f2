------------------------------ MODULE Display ------------------------------
(***************************************************************************)
(* The OLED display and the threads that draw on it: the event handlers of *)
(* the WebSocket client and of the MQTT client, each with a line of its    *)
(* own, and the main thread, which starts the two clients and announces    *)
(* each on the MQTT handler's line.  A handler clears its line and then    *)
(* displays a text, the main thread displays only; nobody takes a lock.    *)
(* A drawing is made of cells of one character; each cell takes two        *)
(* transactions on the I2C bus, one that moves the controller's cursor and *)
(* one that sends the glyph where the cursor is, and is then copied to     *)
(* dev._page.  A transaction is atomic: the bus driver has a mutex of its  *)
(* own; it is lost if that is not had in time, which is not looked at.     *)
(***************************************************************************)
EXTENDS Integers

CONSTANTS
    Cols,         \* characters in a line
    WsTexts,      \* what the WebSocket handler displays
    MqttTexts,    \* what the MQTT handler displays
    MainTexts,    \* what the main thread displays
    Title,        \* what init_display() leaves on line 0
    Booting,      \* and on line 2
    TextLen,      \* the text_len passed for each text
    Losses        \* transactions that may be lost: "cursor", "data"

\* A text has at least one character; nothing on its line is longer than what
\* the main thread displays there.
ASSUME DisplayAssumption ==
    /\ Cols \in Nat \ {0}
    /\ TextLen \in [WsTexts \cup MqttTexts \cup MainTexts \cup {Title, Booting}
                     -> Nat \ {0}]
    /\ \A s \in MqttTexts \cup MainTexts, t \in MainTexts : TextLen[s] <= TextLen[t]
    /\ Losses \subseteq {"cursor", "data"}

VARIABLES
    up,        \* what the main thread has started: 0, 1 for the MQTT client, 2 for both
    pc,        \* where each thread is
    text,      \* the text each is to show
    clearing,  \* it is still clearing the line
    seg,       \* the cell it draws
    page,      \* dev._page: the driver's copy, by line
    panel,     \* the controller's memory, by row
    cursor,    \* the controller's cursor
    mixed,     \* history: two drawings on the line overlapped since it was last cleared
    marred,    \* history: the line was last drawn while another drawing went on
    last,      \* history: the text last drawn on the line
    lost       \* history: a transaction has been lost

vars == <<up, pc, text, clearing, seg, page, panel, cursor, mixed, marred, last, lost>>

Writers == {"ws", "mqtt", "main"}
Line    == [ws |-> 2, mqtt |-> 3, main |-> 3]

\* i2c_init(): 32 pixels high are four pages.
Pages == 4
Lines == 0 .. Pages - 1
Cells == 0 .. Cols - 1
Blank == "blank"

\* The display is mounted upside down (dev._flip): the row that shows line l.
Row(l) == Pages - l - 1

\* Cells of the drawing in progress.
Width(w) ==
    IF clearing[w] \/ TextLen[text[w]] > Cols THEN Cols ELSE TextLen[text[w]]

Glyph(w) == IF clearing[w] THEN Blank ELSE text[w]

\* What a line shows when t is drawn on it, cleared before.
Drawn(t) == [c \in Cells |-> IF t # Blank /\ c < TextLen[t] THEN t ELSE Blank]

\* init_display() clears the screen and leaves a greeting; the bus is its own.
Init ==
    /\ up = 0
    /\ pc = [w \in Writers |-> "idle"]
    /\ text = [w \in Writers |-> Blank]
    /\ clearing = [w \in Writers |-> FALSE]
    /\ seg = [w \in Writers |-> 0]
    /\ last = [l \in Lines |-> IF l = 0 THEN Title ELSE IF l = 2 THEN Booting ELSE Blank]
    /\ page = [l \in Lines |-> Drawn(last[l])]
    /\ panel = [row \in Lines |-> page[Pages - row - 1]]
    /\ cursor = [row |-> 0, col |-> 0]
    /\ mixed = [l \in Lines |-> FALSE]
    /\ marred = [l \in Lines |-> FALSE]
    /\ lost = FALSE

\* w begins to draw one of texts, with a clear line first or not.
Draw(w, texts, clear) ==
    /\ pc[w] = "idle"
    /\ pc' = [pc EXCEPT ![w] = "cursor"]
    /\ \E t \in texts : text' = [text EXCEPT ![w] = t]
    /\ clearing' = [clearing EXCEPT ![w] = clear]
    /\ seg' = [seg EXCEPT ![w] = 0]
    /\ LET busy == {v \in Writers : pc[v] # "idle"}
           hit  == {Line[v] : v \in busy \cup {w}}
       IN /\ mixed' = [mixed EXCEPT ![Line[w]] =
                IF \E v \in busy : Line[v] = Line[w] THEN TRUE ELSE @ /\ ~clear]
          /\ marred' = [l \in Lines |->
                IF busy # {} THEN marred[l] \/ l \in hit
                ELSE marred[l] /\ ~(clear /\ l = Line[w])]
    /\ UNCHANGED <<page, panel, cursor, last, lost>>

\* Slip: the text is displayed over the one before.
BeginNoClear(w, texts) == Draw(w, texts, FALSE)

\* The handler of w clears the line, then displays one of texts.
Begin(w, texts) == Draw(w, texts, TRUE)

\* websocket_event_handler(): connected, disconnected, an error, a location.
WsEvent == up = 2 /\ Begin("ws", WsTexts) /\ UNCHANGED up

\* mqtt_event_handler(): nothing to track, disconnected, subscribed, a
\* location of the tracked node.
MqttEvent == up > 0 /\ Begin("mqtt", MqttTexts) /\ UNCHANGED up

\* start_mqtt_client(), then start_websocket_client(): the announcement; the
\* client is started after it (Copy).
MainStarts == up < 2 /\ Draw("main", MainTexts, FALSE) /\ UNCHANGED up

\* Slip: the page address is the line, on a turned display too.
MoveCursorUnflipped(w) ==
    /\ pc[w] = "cursor"
    /\ pc' = [pc EXCEPT ![w] = "data"]
    /\ cursor' = [row |-> Line[w], col |-> seg[w]]
    /\ UNCHANGED <<up, text, clearing, seg, page, panel, mixed, marred, last, lost>>

\* i2c_display_image(), first transaction: column and page address.
MoveCursor(w) ==
    /\ pc[w] = "cursor"
    /\ pc' = [pc EXCEPT ![w] = "data"]
    /\ \/ cursor' = [row |-> Row(Line[w]), col |-> seg[w]] /\ UNCHANGED lost
       \/ "cursor" \in Losses /\ lost' = TRUE /\ UNCHANGED cursor
    /\ UNCHANGED <<up, text, clearing, seg, page, panel, mixed, marred, last>>

\* Second transaction: the glyph, wherever the cursor is by now.  The cursor
\* moves on, from the end of a row to its beginning.
SendGlyph(w) ==
    /\ pc[w] = "data"
    /\ pc' = [pc EXCEPT ![w] = "copy"]
    /\ \/ /\ panel' = [panel EXCEPT ![cursor.row][cursor.col] = Glyph(w)]
          /\ cursor' = [cursor EXCEPT !.col = (@ + 1) % Cols]
          /\ UNCHANGED lost
       \/ "data" \in Losses /\ lost' = TRUE /\ UNCHANGED <<panel, cursor>>
    /\ UNCHANGED <<up, text, clearing, seg, page, mixed, marred, last>>

\* The driver's copy, and on to the next cell, the text, or the end.
Copy(w) ==
    /\ pc[w] = "copy"
    /\ page' = [page EXCEPT ![Line[w]][seg[w]] = Glyph(w)]
    /\ IF seg[w] + 1 < Width(w)
       THEN /\ seg' = [seg EXCEPT ![w] = @ + 1]
            /\ pc' = [pc EXCEPT ![w] = "cursor"]
            /\ UNCHANGED <<up, clearing, text, last>>
       ELSE /\ seg' = [seg EXCEPT ![w] = 0]
            /\ clearing' = [clearing EXCEPT ![w] = FALSE]
            /\ pc' = [pc EXCEPT ![w] = IF clearing[w] THEN "cursor" ELSE "idle"]
            /\ text' = [text EXCEPT ![w] = IF clearing[w] THEN @ ELSE Blank]
            /\ up' = IF w = "main" THEN up + 1 ELSE up
            /\ last' = IF clearing[w] THEN last ELSE [last EXCEPT ![Line[w]] = text[w]]
    /\ UNCHANGED <<panel, cursor, mixed, marred, lost>>

Next ==
    \/ WsEvent \/ MqttEvent \/ MainStarts
    \/ \E w \in Writers : MoveCursor(w) \/ SendGlyph(w) \/ Copy(w)

Spec == Init /\ [][Next]_vars

-----------------------------------------------------------------------------
Idle(l) == \A w \in Writers : Line[w] = l => pc[w] = "idle"

\* As long as no transaction is lost, two drawings that overlap harm only the
\* lines they draw on, until the next clear: every other line of the panel
\* shows what the driver believes it shows, however the bus is shared.
DamageIsLocal ==
    ~lost => \A l \in Lines : Idle(l) /\ ~marred[l] => panel[Row(l)] = page[l]

\* The driver's copy of a line is exactly the text last drawn there, cut to the
\* line, whatever is lost on the bus and drawn on the other lines.  Only while
\* the main thread announces a client on the line of the running MQTT handler
\* may it hold parts of two texts, and the handler's next drawing mends it.
CopyIsText ==
    /\ \A l \in Lines : Idle(l) /\ ~mixed[l] => page[l] = Drawn(last[l])
    /\ \A l \in Lines : mixed[l] => l = Line["main"] /\ up > 0

-----------------------------------------------------------------------------
\* "send location of current node to output device": when a handler is done,
\* the panel shows the text it displayed.
LocationShown == Idle(2) => panel[Row(2)] = Drawn(last[2])
=============================================================================
