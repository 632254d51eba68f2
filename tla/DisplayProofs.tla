--------------------------- MODULE DisplayProofs ---------------------------
(***************************************************************************)
(* What Display says of the driver's copy and of the panel holds for lines *)
(* of every width, any texts, and any transactions that may be lost.       *)
(***************************************************************************)
EXTENDS Display, TLAPS

Texts  == WsTexts \cup MqttTexts \cup MainTexts \cup {Title, Booting}
Glyphs == Texts \cup {Blank}
Own    == [ws |-> WsTexts, mqtt |-> MqttTexts, main |-> MainTexts]

Busy(w) == pc[w] # "idle"

Types ==
    /\ up \in 0 .. 2
    /\ pc \in [Writers -> {"idle", "cursor", "data", "copy"}]
    /\ text \in [Writers -> Glyphs]
    /\ clearing \in [Writers -> BOOLEAN]
    /\ seg \in [Writers -> Cells]
    /\ page \in [Lines -> [Cells -> Glyphs]]
    /\ panel \in [Lines -> [Cells -> Glyphs]]
    /\ cursor \in [row : Lines, col : Int]
    /\ mixed \in [Lines -> BOOLEAN]
    /\ marred \in [Lines -> BOOLEAN]
    /\ last \in [Lines -> Glyphs]
    /\ lost \in BOOLEAN

\* Who may draw when, and what was drawn on the line of the main thread.
Turns ==
    /\ \A w \in Writers : Busy(w) => text[w] \in Own[w] /\ seg[w] < Width(w)
    /\ Busy("main") => up < 2 /\ ~clearing["main"]
    /\ Busy("mqtt") => up > 0
    /\ last[3] \in MqttTexts \cup MainTexts \cup {Blank}
    /\ \A l \in Lines : mixed[l] => l = 3 /\ up > 0
    /\ Busy("mqtt") /\ Busy("main") => mixed[3]

\* The copy holds the last text, or what has been drawn of the next one before
\* cells that are blank.
Copies ==
    /\ \A l \in Lines : Idle(l) /\ ~mixed[l] => page[l] = Drawn(last[l])
    /\ \A w \in Writers : Busy(w) /\ ~mixed[Line[w]] =>
          \A c \in Cells : /\ c < seg[w] => page[Line[w]][c] = Glyph(w)
                           /\ c >= Width(w) => page[Line[w]][c] = Blank

\* Two who draw at once have marred their lines, and no cursor is elsewhere.
Cursors ==
    /\ \A w, v \in Writers : w # v /\ Busy(w) /\ Busy(v) => marred[Line[w]]
    /\ ~lost => \A w \in Writers : pc[w] = "data" =>
          \/ cursor.row = Row(Line[w]) /\ cursor.col = seg[w]
          \/ marred[Line[w]] /\ \E l \in Lines : marred[l] /\ cursor.row = Row(l)

\* The panel shows the copy, but for the cell that is being drawn, and what
\* there was before a clear that is not through.
Shown ==
    ~lost =>
    /\ \A l \in Lines : Idle(l) /\ ~marred[l] => panel[Row(l)] = page[l]
    /\ \A w \in Writers : Busy(w) /\ ~marred[Line[w]] =>
          /\ \A c \in Cells : c < seg[w] \/ (~clearing[w] /\ c # seg[w]) =>
                panel[Row(Line[w])][c] = page[Line[w]][c]
          /\ pc[w] = "copy" => panel[Row(Line[w])][seg[w]] = Glyph(w)
          /\ pc[w] # "copy" /\ ~clearing[w] =>
                panel[Row(Line[w])][seg[w]] = page[Line[w]][seg[w]]

\* The inductive invariant.
DisplayInv == Types /\ Turns /\ Copies /\ Cursors /\ Shown

-----------------------------------------------------------------------------
\* Three writers, two lines, and rows that are as different as the lines.
LEMMA Layout ==
    /\ Writers = {"ws", "mqtt", "main"}
    /\ Line["ws"] = 2 /\ Line["mqtt"] = 3 /\ Line["main"] = 3
    /\ \A w \in Writers : Line[w] \in Lines
    /\ Lines = 0 .. 3
    /\ \A l \in Lines : Row(l) \in Lines
    /\ \A l, m \in Lines : Row(l) = Row(m) => l = m
BY DEF Writers, Line, Lines, Pages, Row

\* What the assumption says of the texts and of a line's cells.
LEMMA Constants ==
    /\ Cols \in Nat \ {0}
    /\ Cells = 0 .. Cols - 1
    /\ \A t \in Texts : TextLen[t] \in Nat \ {0}
    /\ \A s \in MqttTexts \cup MainTexts, t \in MainTexts : TextLen[s] <= TextLen[t]
BY DisplayAssumption DEF Texts, Cells

\* The greeting satisfies the invariant.
LEMMA InitInv == Init => DisplayInv
<1> SUFFICES ASSUME Init PROVE DisplayInv
    OBVIOUS
<1>1. Types
    <2>1. /\ page \in [Lines -> [Cells -> Glyphs]]
          /\ panel \in [Lines -> [Cells -> Glyphs]]
        <3>1. \A l \in Lines : last[l] \in Glyphs /\ page[l] = Drawn(last[l])
            BY DEF Init, Glyphs, Texts
        <3>2. \A t \in Glyphs : Drawn(t) \in [Cells -> Glyphs]
            BY DEF Drawn, Glyphs
        <3>3. \A row \in Lines : Pages - row - 1 \in Lines
            BY DEF Lines, Pages
        <3> QED
            BY <3>1, <3>2, <3>3 DEF Init
    <2>2. seg \in [Writers -> Cells]
        BY Constants DEF Init
    <2>3. last \in [Lines -> Glyphs] /\ text \in [Writers -> Glyphs]
        BY DEF Init, Glyphs, Texts
    <2>4. up \in 0 .. 2
        BY DEF Init
    <2>8. lost \in BOOLEAN
        BY Zenon DEF Init
    <2>7. cursor \in [row : Lines, col : Int]
        BY DEF Init, Lines, Pages
    <2>5. pc \in [Writers -> {"idle", "cursor", "data", "copy"}]
        BY DEF Init
    <2>6. /\ clearing \in [Writers -> BOOLEAN]
          /\ mixed \in [Lines -> BOOLEAN] /\ marred \in [Lines -> BOOLEAN]
        BY DEF Init
    <2> QED
        BY <2>1, <2>2, <2>3, <2>4, <2>5, <2>6, <2>7, <2>8 DEF Types
<1>2. Turns /\ Cursors
    BY Layout DEF Init, Turns, Cursors, Busy
<1>3. Copies
    <2>1. \A l \in Lines : page[l] = Drawn(last[l])
        BY DEF Init
    <2> QED
        BY <2>1, Layout DEF Init, Copies, Busy
<1>4. Shown
    <2>1. \A l \in Lines : Row(l) \in Lines /\ Pages - Row(l) - 1 = l
        BY DEF Row, Lines, Pages
    <2>2. \A l \in Lines : panel[Row(l)] = page[l]
        BY <2>1 DEF Init
    <2> QED
        BY <2>2, Layout DEF Init, Shown, Busy
<1> QED
    BY <1>1, <1>2, <1>3, <1>4 DEF DisplayInv

\* What a cell of the drawing in progress is, and how many there are.
LEMMA Widths ==
    ASSUME Types, Turns, NEW w \in Writers, Busy(w)
    PROVE  /\ Width(w) \in 1 .. Cols
           /\ Glyph(w) \in Glyphs
           /\ text[w] \in Texts /\ TextLen[text[w]] \in Nat
<1>1. text[w] \in Texts
    BY Layout DEF Turns, Own, Texts
<1> QED
    BY <1>1, Constants DEF Width, Glyph, Glyphs, Texts, Types

-----------------------------------------------------------------------------
\* A drawing begins.
LEMMA DrawInv ==
    ASSUME DisplayInv, NEW w \in Writers, NEW clear \in BOOLEAN,
           Draw(w, Own[w], clear), up' = up,
           w = "main" => up < 2 /\ ~clear,
           w # "main" => clear,
           w = "mqtt" => up > 0
    PROVE  DisplayInv'
<1> USE DEF DisplayInv
<1>1. PICK t \in Own[w] : text' = [text EXCEPT ![w] = t]
    BY DEF Draw
<1>2. t \in Texts
    BY Layout DEF Own, Texts
<1>3. /\ pc[w] = "idle"
      /\ pc' = [pc EXCEPT ![w] = "cursor"]
      /\ clearing' = [clearing EXCEPT ![w] = clear]
      /\ seg' = [seg EXCEPT ![w] = 0]
      /\ UNCHANGED <<page, panel, cursor, last, lost>>
    BY DEF Draw
<1>4. mixed' = [mixed EXCEPT ![Line[w]] =
                  IF \E v \in Writers : Busy(v) /\ Line[v] = Line[w]
                  THEN TRUE ELSE mixed[Line[w]] /\ ~clear]
    <2>1. (\E v \in {x \in Writers : pc[x] # "idle"} : Line[v] = Line[w])
          <=> (\E v \in Writers : Busy(v) /\ Line[v] = Line[w])
        BY DEF Busy
    <2> QED
        BY <2>1, Layout DEF Draw, Types
<1>5. marred' = [l \in Lines |->
          IF \E v \in Writers : Busy(v)
          THEN marred[l] \/ l = Line[w] \/ \E v \in Writers : Busy(v) /\ Line[v] = l
          ELSE marred[l] /\ ~(clear /\ l = Line[w])]
    <2> DEFINE busy == {v \in Writers : pc[v] # "idle"}
    <2>1. busy # {} <=> \E v \in Writers : Busy(v)
        BY DEF Busy
    <2>2. \A l : l \in {Line[v] : v \in busy \cup {w}}
                 <=> l = Line[w] \/ \E v \in Writers : Busy(v) /\ Line[v] = l
        BY DEF Busy
    <2> QED
        BY <2>1, <2>2 DEF Draw
<1>6. Types'
    <2>1. text' \in [Writers -> Glyphs]
        BY <1>1, <1>2 DEF Types, Glyphs
    <2>2. /\ pc' \in [Writers -> {"idle", "cursor", "data", "copy"}]
          /\ clearing' \in [Writers -> BOOLEAN]
          /\ seg' \in [Writers -> Cells]
        BY <1>3, Constants DEF Types
    <2>3. mixed' \in [Lines -> BOOLEAN]
        BY <1>4, Layout, Zenon DEF Types
    <2>4. marred' \in [Lines -> BOOLEAN]
        BY <1>5, Layout DEF Types
    <2> QED
        BY <1>3, <2>1, <2>2, <2>3, <2>4 DEF Types
<1>7. \A v \in Writers : Busy(v)' <=> Busy(v) \/ v = w
    BY <1>3 DEF Types, Busy
<1>8. \A v \in Writers : v # w => /\ Glyph(v)' = Glyph(v) /\ Width(v)' = Width(v)
                                  /\ seg'[v] = seg[v] /\ text'[v] = text[v]
                                  /\ clearing'[v] = clearing[v] /\ pc'[v] = pc[v]
    BY <1>1, <1>3 DEF Types, Glyph, Width
<1>9. /\ text'[w] = t /\ seg'[w] = 0 /\ clearing'[w] = clear /\ pc'[w] = "cursor"
      /\ Width(w)' = IF clear \/ TextLen[t] > Cols THEN Cols ELSE TextLen[t]
    BY <1>1, <1>3 DEF Types, Width
<1>10. Turns'
    <2>1. \A v \in Writers : Busy(v)' => text'[v] \in Own[v] /\ seg'[v] < Width(v)'
        BY <1>2, <1>7, <1>8, <1>9, Constants DEF Turns
    <2>2. /\ Busy("main")' => up < 2 /\ ~clearing'["main"]
          /\ Busy("mqtt")' => up > 0
        BY <1>7, <1>8, <1>9, Layout DEF Turns
    <2>3. \A l \in Lines : mixed'[l] => l = 3 /\ up > 0
        <3> SUFFICES ASSUME NEW l \in Lines, mixed'[l], ~mixed[l] PROVE l = 3 /\ up > 0
            BY DEF Turns
        <3>1. l = Line[w] /\ \E v \in Writers : Busy(v) /\ Line[v] = Line[w]
            BY <1>4, Layout DEF Types
        <3>2. PICK v \in Writers : Busy(v) /\ Line[v] = Line[w]
            BY <3>1
        <3>3. v # w
            BY <3>2, <1>3 DEF Busy
        <3>4. w = "mqtt" \/ v = "mqtt"
            BY <3>2, <3>3, Layout
        <3> QED
            BY <3>1, <3>2, <3>4, Layout DEF Turns
    <2>4. Busy("mqtt")' /\ Busy("main")' => mixed'[3]
        BY <1>3, <1>4, <1>7, Layout DEF Turns, Types, Busy
    <2> QED
        BY <1>3, <2>1, <2>2, <2>3, <2>4 DEF Turns
<1>11. Copies'
    <2>1. ASSUME NEW l \in Lines, Idle(l)', ~mixed'[l]
          PROVE  page'[l] = Drawn(last[l])
        <3>1. l # Line[w] /\ Idle(l)
            BY <2>1, <1>7, Layout DEF Idle, Busy
        <3> QED
            BY <2>1, <3>1, <1>3, <1>4, Layout DEF Copies, Types
    <2>2. ASSUME NEW v \in Writers, Busy(v)', ~mixed'[Line[v]], NEW c \in Cells
          PROVE  /\ c < seg'[v] => page'[Line[v]][c] = Glyph(v)'
                 /\ c >= Width(v)' => page'[Line[v]][c] = Blank
        <3>1. CASE v # w
            <4>1. Busy(v) /\ Line[v] # Line[w]
                BY <2>2, <3>1, <1>4, <1>7, Layout DEF Types
            <4>2. ~mixed[Line[v]]
                BY <2>2, <4>1, <1>4, Layout DEF Types
            <4> QED
                BY <3>1, <4>1, <4>2, <1>3, <1>8 DEF Copies
        <3>2. CASE v = w
            <4>1. ~(c < seg'[v])
                BY <3>2, <1>9, Constants
            <4>2. CASE clear
                BY <3>2, <4>1, <4>2, <1>9, Constants
            <4>3. CASE ~clear
                <5>1. w = "main" /\ Line[w] = 3
                    BY <4>3, Layout
                <5>2. ~mixed[3] /\ \A x \in Writers : Line[x] = 3 => ~Busy(x)
                    BY <2>2, <3>2, <4>3, <5>1, <1>4, Layout DEF Types
                <5>3. page[3] = Drawn(last[3])
                    BY <5>2, Layout DEF Copies, Idle, Busy
                <5>4. last[3] # Blank => TextLen[last[3]] \in Nat
                                         /\ TextLen[last[3]] <= TextLen[t]
                    BY <5>1, <1>2, Constants, Layout DEF Turns, Own, Texts
                <5>5. c >= Width(v)' => page[3][c] = Blank
                    BY <3>2, <4>3, <5>3, <5>4, <1>2, <1>9, Constants DEF Drawn
                <5> QED
                    BY <3>2, <4>1, <5>1, <5>5, <1>3
            <4> QED
                BY <4>2, <4>3
        <3> QED
            BY <3>1, <3>2
    <2> QED
        BY <1>3, <2>1, <2>2 DEF Copies
<1>12. Cursors'
    <2>1. ASSUME NEW x \in Writers, NEW v \in Writers, x # v, Busy(x)', Busy(v)'
          PROVE  marred'[Line[x]]
        BY <2>1, <1>5, <1>7, Layout DEF Cursors, Types
    <2>2. ASSUME ~lost, NEW v \in Writers, pc'[v] = "data"
          PROVE  \/ cursor.row = Row(Line[v]) /\ cursor.col = seg'[v]
                 \/ marred'[Line[v]] /\ \E l \in Lines : marred'[l] /\ cursor.row = Row(l)
        <3>1. v # w /\ pc[v] = "data" /\ Busy(v)
            BY <2>2, <1>8, <1>9 DEF Busy
        <3>2. \A l \in Lines : marred[l] => marred'[l]
            BY <3>1, <1>5 DEF Types
        <3> QED
            BY <2>2, <3>1, <3>2, <1>8, Layout DEF Cursors
    <2> QED
        BY <1>3, <2>1, <2>2 DEF Cursors
<1>13. Shown'
    <2> SUFFICES ASSUME ~lost
                 PROVE  /\ \A l \in Lines : Idle(l)' /\ ~marred'[l] => panel[Row(l)] = page[l]
                        /\ \A v \in Writers : Busy(v)' /\ ~marred'[Line[v]] =>
                              /\ \A c \in Cells :
                                    c < seg'[v] \/ (~clearing'[v] /\ c # seg'[v]) =>
                                    panel[Row(Line[v])][c] = page[Line[v]][c]
                              /\ pc'[v] = "copy" => panel[Row(Line[v])][seg'[v]] = Glyph(v)'
                              /\ pc'[v] # "copy" /\ ~clearing'[v] =>
                                    panel[Row(Line[v])][seg'[v]] = page[Line[v]][seg'[v]]
        BY <1>3 DEF Shown
    <2>1. ASSUME NEW l \in Lines, Idle(l)', ~marred'[l]
          PROVE  panel[Row(l)] = page[l]
        <3>1. l # Line[w] /\ Idle(l)
            BY <2>1, <1>7, Layout DEF Idle, Busy
        <3>2. ~marred[l]
            BY <2>1, <3>1, <1>5 DEF Types
        <3> QED
            BY <3>1, <3>2 DEF Shown
    <2>2. ASSUME NEW v \in Writers, Busy(v)', ~marred'[Line[v]]
          PROVE  /\ v = w
                 /\ ~clear => panel[Row(Line[w])] = page[Line[w]]
        <3>1. \A x \in Writers : ~Busy(x)
            BY <2>2, <1>5, <1>7, Layout
        <3>2. v = w
            BY <2>2, <3>1, <1>7
        <3>3. ~clear => ~marred[Line[w]]
            BY <2>2, <3>1, <3>2, <1>5, Layout DEF Types
        <3>4. Idle(Line[w])
            BY <3>1 DEF Idle, Busy
        <3> QED
            BY <3>2, <3>3, <3>4, Layout DEF Shown
    <2> QED
        BY <2>1, <2>2, <1>9, Constants
<1> QED
    BY <1>6, <1>10, <1>11, <1>12, <1>13

-----------------------------------------------------------------------------
\* The cursor is moved, or the transaction that moves it is lost.
LEMMA CursorInv ==
    ASSUME DisplayInv, NEW w \in Writers, MoveCursor(w)
    PROVE  DisplayInv'
<1> USE DEF DisplayInv
<1>1. /\ pc[w] = "cursor" /\ pc' = [pc EXCEPT ![w] = "data"]
      /\ UNCHANGED <<up, text, clearing, seg, page, panel, mixed, marred, last>>
      /\ \/ cursor' = [row |-> Row(Line[w]), col |-> seg[w]] /\ lost' = lost
         \/ lost' = TRUE
    BY DEF MoveCursor
<1>2. \A v \in Writers : Busy(v)' <=> Busy(v)
    BY <1>1 DEF Types, Busy
<1>3. \A v \in Writers : Glyph(v)' = Glyph(v) /\ Width(v)' = Width(v)
    BY <1>1 DEF Glyph, Width
<1>4. \A l \in Lines : Idle(l)' <=> Idle(l)
    BY <1>2 DEF Idle, Busy
<1>5. Types'
    <2>1. cursor' \in [row : Lines, col : Int]
        BY Layout, Constants DEF MoveCursor, Types
    <2> QED
        BY <1>1, <2>1 DEF Types
<1>6. Turns'
    BY <1>1, <1>2, <1>3, Layout DEF Turns
<1>7. Copies'
    BY <1>1, <1>2, <1>3, <1>4 DEF Copies
<1>8. Cursors'
    <2>1. ASSUME NEW x \in Writers, NEW v \in Writers, x # v, Busy(x)', Busy(v)'
          PROVE  marred'[Line[x]]
        BY <2>1, <1>1, <1>2 DEF Cursors
    <2>2. ASSUME ~lost', NEW v \in Writers, pc'[v] = "data"
          PROVE  \/ cursor'.row = Row(Line[v]) /\ cursor'.col = seg'[v]
                 \/ marred'[Line[v]] /\ \E l \in Lines : marred'[l] /\ cursor'.row = Row(l)
        <3>1. cursor'.row = Row(Line[w]) /\ cursor'.col = seg[w]
            BY <2>2, <1>1
        <3>2. CASE v = w
            BY <3>1, <3>2, <1>1
        <3>3. CASE v # w
            <4>1. Busy(v) /\ Busy(w)
                BY <2>2, <3>3, <1>1, <1>2 DEF Types, Busy
            <4>2. marred[Line[v]] /\ marred[Line[w]]
                BY <3>3, <4>1 DEF Cursors
            <4> QED
                BY <3>1, <4>2, <1>1, Layout
        <3> QED
            BY <3>2, <3>3
    <2> QED
        BY <2>1, <2>2 DEF Cursors
<1>9. Shown'
    <2>1. lost' = FALSE => lost = FALSE
        BY <1>1 DEF Types
    <2>2. \A v \in Writers : (pc'[v] = "copy" <=> pc[v] = "copy")
        BY <1>1 DEF Types
    <2> QED
        BY <1>1, <1>2, <1>3, <1>4, <2>1, <2>2, <1>5 DEF Shown, Types
<1> QED
    BY <1>5, <1>6, <1>7, <1>8, <1>9

\* The glyph is sent to where the cursor is, or lost.
LEMMA GlyphInv ==
    ASSUME DisplayInv, NEW w \in Writers, SendGlyph(w)
    PROVE  DisplayInv'
<1> USE DEF DisplayInv
<1>1. /\ pc[w] = "data" /\ pc' = [pc EXCEPT ![w] = "copy"]
      /\ UNCHANGED <<up, text, clearing, seg, page, mixed, marred, last>>
      /\ \/ panel' = [panel EXCEPT ![cursor.row][cursor.col] = Glyph(w)] /\ lost' = lost
         \/ lost' = TRUE /\ panel' = panel
    BY DEF SendGlyph
<1>2. Busy(w) /\ \A v \in Writers : Busy(v)' <=> Busy(v)
    BY <1>1 DEF Types, Busy
<1>3. \A v \in Writers : Glyph(v)' = Glyph(v) /\ Width(v)' = Width(v)
    BY <1>1 DEF Glyph, Width
<1>4. \A l \in Lines : Idle(l)' <=> Idle(l)
    BY <1>2 DEF Idle, Busy
<1>5. Types'
    <2>1. Glyph(w) \in Glyphs
        BY <1>2, Widths
    <2>2. panel' \in [Lines -> [Cells -> Glyphs]]
        <3> DEFINE row == [panel[cursor.row] EXCEPT ![cursor.col] = Glyph(w)]
        <3>1. panel' = panel \/ panel' = [panel EXCEPT ![cursor.row] = row]
            BY <1>1
        <3>2. row \in [Cells -> Glyphs]
            BY <2>1 DEF Types
        <3> HIDE DEF row
        <3> QED
            BY <3>1, <3>2 DEF Types
    <2>3. cursor' \in [row : Lines, col : Int]
        <3>1. cursor.col + 1 \in Int /\ (cursor.col + 1) % Cols \in Int
            BY Constants DEF Types
        <3> QED
            BY <3>1 DEF Types, SendGlyph
    <2> QED
        BY <1>1, <2>2, <2>3 DEF Types
<1>6. Turns'
    BY <1>1, <1>2, <1>3, Layout DEF Turns
<1>7. Copies'
    BY <1>1, <1>2, <1>3, <1>4 DEF Copies
<1>8. Cursors'
    <2>1. ASSUME NEW x \in Writers, NEW v \in Writers, x # v, Busy(x)', Busy(v)'
          PROVE  marred'[Line[x]]
        BY <2>1, <1>1, <1>2 DEF Cursors
    <2>2. ASSUME ~lost', NEW v \in Writers, pc'[v] = "data"
          PROVE  \/ cursor'.row = Row(Line[v]) /\ cursor'.col = seg'[v]
                 \/ marred'[Line[v]] /\ \E l \in Lines : marred'[l] /\ cursor'.row = Row(l)
        <3>1. v # w /\ pc[v] = "data" /\ ~lost
            BY <2>2, <1>1 DEF Types
        <3>2. marred[Line[v]] /\ marred[Line[w]]
            BY <3>1, <1>1 DEF Cursors, Busy
        <3>3. \E l \in Lines : marred[l] /\ cursor.row = Row(l)
            BY <3>1, <3>2, Layout DEF Cursors
        <3>4. cursor'.row = cursor.row
            BY <2>2, <1>1 DEF SendGlyph, Types
        <3> QED
            BY <3>2, <3>3, <3>4, <1>1
    <2> QED
        BY <2>1, <2>2 DEF Cursors
<1>9. Shown'
    <2> SUFFICES ASSUME ~lost'
                 PROVE  /\ \A l \in Lines : Idle(l) /\ ~marred[l] => panel'[Row(l)] = page[l]
                        /\ \A v \in Writers : Busy(v) /\ ~marred[Line[v]] =>
                              /\ \A c \in Cells :
                                    c < seg[v] \/ (~clearing[v] /\ c # seg[v]) =>
                                    panel'[Row(Line[v])][c] = page[Line[v]][c]
                              /\ pc'[v] = "copy" => panel'[Row(Line[v])][seg[v]] = Glyph(v)
                              /\ pc'[v] # "copy" /\ ~clearing[v] =>
                                    panel'[Row(Line[v])][seg[v]] = page[Line[v]][seg[v]]
        BY <1>1, <1>2, <1>3, <1>4 DEF Shown
    <2>1. ~lost /\ panel' = [panel EXCEPT ![cursor.row][cursor.col] = Glyph(w)]
        BY <1>1
    <2>2. ASSUME NEW l \in Lines, ~marred[l], l # Line[w]
          PROVE  panel'[Row(l)] = panel[Row(l)]
        <3>1. cursor.row # Row(l)
            BY <2>1, <2>2, <1>1, Layout DEF Cursors
        <3> QED
            BY <2>1, <3>1, Layout DEF Types
    <2>3. ASSUME NEW l \in Lines, Idle(l), ~marred[l]
          PROVE  panel'[Row(l)] = page[l]
        <3>1. l # Line[w]
            BY <2>3, <1>2 DEF Idle, Busy
        <3> QED
            BY <2>1, <2>2, <2>3, <3>1 DEF Shown
    <2>4. ASSUME NEW v \in Writers, Busy(v), ~marred[Line[v]]
          PROVE  /\ v = w
                 /\ cursor.row = Row(Line[w]) /\ cursor.col = seg[w]
        <3>1. v = w
            BY <2>4, <1>2 DEF Cursors
        <3> QED
            BY <2>1, <2>4, <3>1, <1>1 DEF Cursors
    <2>5. ASSUME ~marred[Line[w]]
          PROVE  /\ panel'[Row(Line[w])][seg[w]] = Glyph(w)
                 /\ \A c \in Cells : c # seg[w] =>
                       panel'[Row(Line[w])][c] = panel[Row(Line[w])][c]
        <3>1. cursor.row = Row(Line[w]) /\ cursor.col = seg[w]
            BY <2>5, <2>4, <1>2
        <3>2. /\ Row(Line[w]) \in Lines /\ seg[w] \in Cells
            BY Layout DEF Types
        <3> QED
            BY <2>1, <3>1, <3>2 DEF Types
    <2>6. ASSUME ~marred[Line[w]], NEW c \in Cells,
                 c < seg[w] \/ (~clearing[w] /\ c # seg[w])
          PROVE  panel'[Row(Line[w])][c] = page[Line[w]][c]
        <3>1. c # seg[w]
            BY <2>6, Constants DEF Types
        <3> QED
            BY <2>1, <2>5, <2>6, <3>1, <1>2 DEF Shown
    <2>7. pc'[w] = "copy"
        BY <1>1 DEF Types
    <2> QED
        BY <2>3, <2>4, <2>5, <2>6, <2>7
<1> QED
    BY <1>5, <1>6, <1>7, <1>8, <1>9

-----------------------------------------------------------------------------
\* A thread that copies a cell: the facts that its three ends share.
Copied(w) ==
    /\ pc[w] = "copy"
    /\ page' = [page EXCEPT ![Line[w]][seg[w]] = Glyph(w)]
    /\ UNCHANGED <<panel, cursor, mixed, marred, lost>>
    /\ Busy(w) /\ Line[w] \in Lines /\ seg[w] \in Cells /\ seg[w] < Width(w)
    /\ Width(w) \in 1 .. Cols /\ Glyph(w) \in Glyphs /\ text[w] \in Own[w]
    /\ text[w] \in Texts /\ TextLen[text[w]] \in Nat

\* Of the copy, only that cell changes.
LEMMA CopiedPage ==
    ASSUME DisplayInv, NEW w \in Writers, Copied(w)
    PROVE  /\ page' \in [Lines -> [Cells -> Glyphs]]
           /\ \A l \in Lines : l # Line[w] => page'[l] = page[l]
           /\ \A c \in Cells :
                 page'[Line[w]][c] = IF c = seg[w] THEN Glyph(w) ELSE page[Line[w]][c]
<1> DEFINE line == [page[Line[w]] EXCEPT ![seg[w]] = Glyph(w)]
<1>1. page' = [page EXCEPT ![Line[w]] = line]
    BY DEF Copied
<1>2. line \in [Cells -> Glyphs]
    BY DEF Copied, DisplayInv, Types
<1>3. \A c \in Cells : line[c] = IF c = seg[w] THEN Glyph(w) ELSE page[Line[w]][c]
    BY DEF Copied, DisplayInv, Types
<1> HIDE DEF line
<1> QED
    BY <1>1, <1>2, <1>3 DEF Copied, DisplayInv, Types

\* The locals of the other threads are left alone.
Others(w) ==
    \A v \in Writers : v # w => /\ seg'[v] = seg[v] /\ text'[v] = text[v]
                                /\ clearing'[v] = clearing[v] /\ pc'[v] = pc[v]

\* The other threads' places, and so all that is about them, stay.
LEMMA OthersKept ==
    ASSUME DisplayInv, NEW w \in Writers, Copied(w), Others(w), pc'[w] \in {"cursor", "idle"}
    PROVE  /\ \A v \in Writers : v # w /\ Busy(v) =>
                 Glyph(v)' = Glyph(v) /\ Width(v)' = Width(v)
           /\ \A v \in Writers : v # w => (Busy(v)' <=> Busy(v))
           /\ \A l \in Lines : l # Line[w] => (Idle(l)' <=> Idle(l))
           /\ \A v \in Writers : v # w /\ Busy(v) /\ ~mixed[Line[v]] => Line[v] # Line[w]
           /\ \A v \in Writers : v # w /\ Busy(v) => marred[Line[v]]
           /\ Cursors'
<1> USE DEF Copied, DisplayInv
<1>1. \A v \in Writers : v # w => (Busy(v)' <=> Busy(v))
    BY DEF Others, Busy
<1>2. Cursors'
    <2>1. ASSUME NEW x \in Writers, NEW v \in Writers, x # v, Busy(x)', Busy(v)'
          PROVE  marred'[Line[x]]
        BY <2>1, <1>1 DEF Cursors
    <2>2. ASSUME ~lost', NEW v \in Writers, pc'[v] = "data"
          PROVE  \/ cursor'.row = Row(Line[v]) /\ cursor'.col = seg'[v]
                 \/ marred'[Line[v]] /\ \E l \in Lines : marred'[l] /\ cursor'.row = Row(l)
        BY <2>2 DEF Cursors, Others
    <2> QED
        BY <2>1, <2>2 DEF Cursors
<1>3. \A l \in Lines : l # Line[w] => (Idle(l)' <=> Idle(l))
    BY DEF Idle, Others
<1>4. \A v \in Writers : v # w /\ Busy(v) /\ ~mixed[Line[v]] => Line[v] # Line[w]
    BY Layout DEF Turns
<1>5. \A v \in Writers : v # w /\ Busy(v) => marred[Line[v]]
    BY DEF Cursors
<1>6. \A v \in Writers : v # w => Glyph(v)' = Glyph(v) /\ Width(v)' = Width(v)
    BY DEF Others, Glyph, Width
<1> QED
    BY <1>1, <1>2, <1>3, <1>4, <1>5, <1>6

\* The next cell.
LEMMA NextCell ==
    ASSUME DisplayInv, NEW w \in Writers, Copied(w), seg[w] + 1 < Width(w),
           seg' = [seg EXCEPT ![w] = @ + 1], pc' = [pc EXCEPT ![w] = "cursor"],
           UNCHANGED <<up, clearing, text, last>>
    PROVE  DisplayInv'
<1> USE DEF DisplayInv
<1>1. /\ seg'[w] = seg[w] + 1 /\ pc'[w] = "cursor" /\ seg'[w] \in Cells
      /\ seg' \in [Writers -> Cells]
    BY Constants DEF Types, Copied
<1>2. Others(w)
    BY DEF Types, Others
<1>20. /\ page' \in [Lines -> [Cells -> Glyphs]]
       /\ \A l \in Lines : l # Line[w] => page'[l] = page[l]
       /\ \A c \in Cells :
             page'[Line[w]][c] = IF c = seg[w] THEN Glyph(w) ELSE page[Line[w]][c]
    BY CopiedPage
<1>21. /\ \A v \in Writers : v # w /\ Busy(v) =>
             Glyph(v)' = Glyph(v) /\ Width(v)' = Width(v)
       /\ \A v \in Writers : v # w => (Busy(v)' <=> Busy(v))
       /\ \A l \in Lines : l # Line[w] => (Idle(l)' <=> Idle(l))
       /\ \A v \in Writers : v # w /\ Busy(v) /\ ~mixed[Line[v]] => Line[v] # Line[w]
       /\ \A v \in Writers : v # w /\ Busy(v) => marred[Line[v]]
       /\ Cursors'
    BY <1>1, <1>2, OthersKept
<1>3. Busy(w)' /\ Glyph(w)' = Glyph(w) /\ Width(w)' = Width(w)
    BY <1>1 DEF Busy, Glyph, Width
<1>4. Types'
    BY <1>1, <1>20 DEF Types, Copied
<1>5. Turns'
    BY <1>1, <1>2, <1>3, <1>21, Layout DEF Turns, Others, Copied
<1>6. Copies'
    <2>1. ASSUME NEW l \in Lines, Idle(l)', ~mixed'[l]
          PROVE  page'[l] = Drawn(last'[l])
        <3>1. l # Line[w]
            BY <2>1, <1>3 DEF Idle, Busy
        <3> QED
            BY <2>1, <3>1, <1>1, <1>2, <1>20, <1>21 DEF Copies, Copied
    <2>2. ASSUME NEW v \in Writers, Busy(v)', ~mixed'[Line[v]], NEW c \in Cells
          PROVE  /\ c < seg'[v] => page'[Line[v]][c] = Glyph(v)'
                 /\ c >= Width(v)' => page'[Line[v]][c] = Blank
        <3>1. CASE v # w
            BY <2>2, <3>1, <1>1, <1>2, <1>20, <1>21, Layout
               DEF Copies, Copied, Others
        <3>2. CASE v = w
            BY <2>2, <3>2, <1>1, <1>3, <1>20, Constants DEF Copies, Copied
        <3> QED
            BY <3>1, <3>2
    <2> QED
        BY <2>1, <2>2 DEF Copies
<1>7. Shown'
    <2>1. ASSUME ~lost', NEW l \in Lines, Idle(l)', ~marred'[l]
          PROVE  panel'[Row(l)] = page'[l]
        <3>1. l # Line[w]
            BY <2>1, <1>3 DEF Idle, Busy
        <3> QED
            BY <2>1, <3>1, <1>1, <1>2, <1>20, <1>21 DEF Shown, Copied
    <2>2. ASSUME ~lost', NEW v \in Writers, Busy(v)', ~marred'[Line[v]]
          PROVE  v = w
        BY <2>2, <1>1, <1>2, <1>21 DEF Copied
    <2>3. ASSUME ~lost', ~marred'[Line[w]]
          PROVE  /\ \A c \in Cells : c < seg'[w] \/ (~clearing'[w] /\ c # seg'[w]) =>
                       panel'[Row(Line[w])][c] = page'[Line[w]][c]
                 /\ pc'[w] = "copy" => panel'[Row(Line[w])][seg'[w]] = Glyph(w)'
                 /\ pc'[w] # "copy" /\ ~clearing'[w] =>
                       panel'[Row(Line[w])][seg'[w]] = page'[Line[w]][seg'[w]]
        <3>1. /\ \A c \in Cells : c < seg[w] \/ (~clearing[w] /\ c # seg[w]) =>
                    panel[Row(Line[w])][c] = page[Line[w]][c]
              /\ panel[Row(Line[w])][seg[w]] = Glyph(w)
            BY <2>3 DEF Shown, Copied
        <3> QED
            BY <3>1, <1>1, <1>20, Constants DEF Copied
    <2> QED
        BY <2>1, <2>2, <2>3 DEF Shown
<1> QED
    BY <1>4, <1>5, <1>6, <1>7, <1>1, <1>2, <1>21

\* The line is clear and the text comes.
LEMMA LineCleared ==
    ASSUME DisplayInv, NEW w \in Writers, Copied(w), seg[w] + 1 = Width(w),
           clearing[w], Width(w) = Cols, Glyph(w) = Blank,
           seg' = [seg EXCEPT ![w] = 0], clearing' = [clearing EXCEPT ![w] = FALSE],
           pc' = [pc EXCEPT ![w] = "cursor"], UNCHANGED <<up, text, last>>
    PROVE  DisplayInv'
<1> USE DEF DisplayInv
<1>1. /\ seg'[w] = 0 /\ pc'[w] = "cursor" /\ ~clearing'[w]
      /\ seg' \in [Writers -> Cells] /\ clearing' \in [Writers -> BOOLEAN]
    BY Constants DEF Types, Copied
<1>2. Others(w)
    BY DEF Types, Others
<1>20. /\ page' \in [Lines -> [Cells -> Glyphs]]
       /\ \A l \in Lines : l # Line[w] => page'[l] = page[l]
       /\ \A c \in Cells :
             page'[Line[w]][c] = IF c = seg[w] THEN Glyph(w) ELSE page[Line[w]][c]
    BY CopiedPage
<1>21. /\ \A v \in Writers : v # w /\ Busy(v) =>
             Glyph(v)' = Glyph(v) /\ Width(v)' = Width(v)
       /\ \A v \in Writers : v # w => (Busy(v)' <=> Busy(v))
       /\ \A l \in Lines : l # Line[w] => (Idle(l)' <=> Idle(l))
       /\ \A v \in Writers : v # w /\ Busy(v) /\ ~mixed[Line[v]] => Line[v] # Line[w]
       /\ \A v \in Writers : v # w /\ Busy(v) => marred[Line[v]]
       /\ Cursors'
    BY <1>1, <1>2, OthersKept
<1>3. Busy(w)' /\ Width(w)' \in 1 .. Cols
    BY <1>1, Constants DEF Busy, Width, Copied
<1>4. Types'
    BY <1>1, <1>20 DEF Types, Copied
<1>5. Turns'
    <2>1. \A v \in Writers : Busy(v)' => text'[v] \in Own[v] /\ seg'[v] < Width(v)'
        BY <1>1, <1>2, <1>3, <1>21 DEF Turns, Others, Copied
    <2> QED
        BY <2>1, <1>1, <1>2, <1>3, <1>21, Layout DEF Turns, Others, Copied
<1>6. ~mixed[Line[w]] => \A c \in Cells : page'[Line[w]][c] = Blank
    BY <1>20, Constants DEF Copies, Copied, Types
<1>7. Copies'
    <2>1. ASSUME NEW l \in Lines, Idle(l)', ~mixed'[l]
          PROVE  page'[l] = Drawn(last'[l])
        <3>1. l # Line[w]
            BY <2>1, <1>3 DEF Idle, Busy
        <3> QED
            BY <2>1, <3>1, <1>1, <1>2, <1>20, <1>21 DEF Copies, Copied
    <2>2. ASSUME NEW v \in Writers, Busy(v)', ~mixed'[Line[v]], NEW c \in Cells
          PROVE  /\ c < seg'[v] => page'[Line[v]][c] = Glyph(v)'
                 /\ c >= Width(v)' => page'[Line[v]][c] = Blank
        <3>1. CASE v # w
            BY <2>2, <3>1, <1>1, <1>2, <1>20, <1>21, Layout
               DEF Copies, Copied, Others
        <3>2. CASE v = w
            BY <2>2, <3>2, <1>1, <1>6, Constants DEF Copied
        <3> QED
            BY <3>1, <3>2
    <2> QED
        BY <2>1, <2>2 DEF Copies
<1>8. Shown'
    <2>1. ASSUME ~lost', NEW l \in Lines, Idle(l)', ~marred'[l]
          PROVE  panel'[Row(l)] = page'[l]
        <3>1. l # Line[w]
            BY <2>1, <1>3 DEF Idle, Busy
        <3> QED
            BY <2>1, <3>1, <1>1, <1>2, <1>20, <1>21 DEF Shown, Copied
    <2>2. ASSUME ~lost', NEW v \in Writers, Busy(v)', ~marred'[Line[v]]
          PROVE  v = w
        BY <2>2, <1>1, <1>2, <1>21 DEF Copied
    <2>3. ASSUME ~lost', ~marred'[Line[w]], NEW c \in Cells
          PROVE  panel'[Row(Line[w])][c] = page'[Line[w]][c]
        <3>1. /\ \A d \in Cells : d < seg[w] => panel[Row(Line[w])][d] = page[Line[w]][d]
              /\ panel[Row(Line[w])][seg[w]] = Glyph(w)
            BY <2>3 DEF Shown, Copied
        <3>2. c < seg[w] \/ c = seg[w]
            BY Constants DEF Copied
        <3> QED
            BY <3>1, <3>2, <1>20, Constants DEF Copied
    <2>4. seg'[w] \in Cells
        BY <1>1
    <2> QED
        BY <2>1, <2>2, <2>3, <2>4, <1>1 DEF Shown
<1> QED
    BY <1>4, <1>5, <1>7, <1>8, <1>1, <1>2, <1>21

\* The text is drawn.
LEMMA TextDrawn ==
    ASSUME DisplayInv, NEW w \in Writers, Copied(w), seg[w] + 1 = Width(w), ~clearing[w],
           seg' = [seg EXCEPT ![w] = 0], clearing' = [clearing EXCEPT ![w] = FALSE],
           pc' = [pc EXCEPT ![w] = "idle"], text' = [text EXCEPT ![w] = Blank],
           up' = IF w = "main" THEN up + 1 ELSE up,
           last' = [last EXCEPT ![Line[w]] = text[w]]
    PROVE  DisplayInv'
<1> USE DEF DisplayInv
<1>1. /\ pc'[w] = "idle" /\ ~clearing'[w]
      /\ seg' \in [Writers -> Cells] /\ clearing' \in [Writers -> BOOLEAN]
      /\ pc' \in [Writers -> {"idle", "cursor", "data", "copy"}]
    BY Constants DEF Types
<1>2. Others(w)
    BY DEF Types, Others
<1>20. /\ page' \in [Lines -> [Cells -> Glyphs]]
       /\ \A l \in Lines : l # Line[w] => page'[l] = page[l]
       /\ \A c \in Cells :
             page'[Line[w]][c] = IF c = seg[w] THEN Glyph(w) ELSE page[Line[w]][c]
    BY CopiedPage
<1>21. /\ \A v \in Writers : v # w /\ Busy(v) =>
             Glyph(v)' = Glyph(v) /\ Width(v)' = Width(v)
       /\ \A v \in Writers : v # w => (Busy(v)' <=> Busy(v))
       /\ \A l \in Lines : l # Line[w] => (Idle(l)' <=> Idle(l))
       /\ \A v \in Writers : v # w /\ Busy(v) /\ ~mixed[Line[v]] => Line[v] # Line[w]
       /\ \A v \in Writers : v # w /\ Busy(v) => marred[Line[v]]
       /\ Cursors'
    BY <1>1, <1>2, OthersKept
<1>3. ~Busy(w)' /\ up' \in 0 .. 2 /\ up <= up'
    BY <1>1 DEF Busy, Types, Turns, Copied
<1>4. last' \in [Lines -> Glyphs] /\ text' \in [Writers -> Glyphs]
    BY DEF Types, Copied, Glyphs
<1>5. Types'
    BY <1>1, <1>3, <1>4, <1>20 DEF Types, Copied
<1>6. Turns'
    <2>1. \A v \in Writers : Busy(v)' => text'[v] \in Own[v] /\ seg'[v] < Width(v)'
        BY <1>1, <1>2, <1>3, <1>21 DEF Turns, Others
    <2>2. last'[3] \in MqttTexts \cup MainTexts \cup {Blank}
        BY Layout DEF Turns, Types, Copied, Own
    <2>3. \A l \in Lines : mixed'[l] => l = 3 /\ up' > 0
        BY <1>3 DEF Turns, Copied, Types
    <2>4. Busy("mqtt")' => up' > 0
        BY <1>1, <1>2, <1>3, <1>21, Layout DEF Turns, Types
    <2>5. Busy("main")' => up' < 2 /\ ~clearing'["main"]
        BY <1>1, <1>2, <1>3, <1>21, Layout DEF Turns, Others
    <2>6. Busy("mqtt")' /\ Busy("main")' => mixed'[3]
        BY <1>1, <1>2, <1>3, <1>21, Layout DEF Turns, Copied
    <2> QED
        BY <2>1, <2>2, <2>3, <2>4, <2>5, <2>6 DEF Turns
<1>7. ASSUME ~mixed[Line[w]]
      PROVE  page'[Line[w]] = Drawn(text[w])
    <2>1. ASSUME NEW c \in Cells
          PROVE  page'[Line[w]][c] = IF c < Width(w) THEN text[w] ELSE Blank
        <3>1. Glyph(w) = text[w]
            BY DEF Glyph
        <3>2. /\ c < seg[w] => page[Line[w]][c] = Glyph(w)
              /\ c >= Width(w) => page[Line[w]][c] = Blank
            BY <1>7 DEF Copies, Copied
        <3>3. page'[Line[w]][c] = IF c = seg[w] THEN Glyph(w) ELSE page[Line[w]][c]
            BY <1>20
        <3>4. c \in Int /\ seg[w] \in Int /\ Width(w) \in Int /\ seg[w] + 1 = Width(w)
            BY Constants DEF Copied
        <3> QED
            BY <3>1, <3>2, <3>3, <3>4
    <2>2. \A c \in Cells : c < Width(w) <=> c < TextLen[text[w]]
        BY Constants DEF Width, Copied
    <2>3. page'[Line[w]] = [c \in Cells |-> page'[Line[w]][c]]
        BY <1>20 DEF Copied
    <2> QED
        BY <2>1, <2>2, <2>3 DEF Drawn
<1>8. Copies'
    <2>1. ASSUME NEW l \in Lines, Idle(l)', ~mixed'[l]
          PROVE  page'[l] = Drawn(last'[l])
        <3>1. CASE l = Line[w]
            BY <2>1, <3>1, <1>7 DEF Types, Copied
        <3>2. CASE l # Line[w]
            BY <2>1, <3>2, <1>1, <1>2, <1>20, <1>21 DEF Copies, Copied, Types
        <3> QED
            BY <3>1, <3>2
    <2>2. ASSUME NEW v \in Writers, Busy(v)', ~mixed'[Line[v]], NEW c \in Cells
          PROVE  /\ c < seg'[v] => page'[Line[v]][c] = Glyph(v)'
                 /\ c >= Width(v)' => page'[Line[v]][c] = Blank
        <3>1. v # w
            BY <2>2, <1>3
        <3> QED
            BY <2>2, <3>1, <1>1, <1>2, <1>20, <1>21, Layout
               DEF Copies, Copied, Others
    <2> QED
        BY <2>1, <2>2 DEF Copies
<1>9. Shown'
    <2>1. ASSUME ~lost', NEW l \in Lines, Idle(l)', ~marred'[l], l # Line[w]
          PROVE  panel'[Row(l)] = page'[l]
        BY <2>1, <1>1, <1>2, <1>20, <1>21 DEF Shown, Copied
    <2>2. ASSUME ~lost', ~marred'[Line[w]]
          PROVE  panel'[Row(Line[w])] = page'[Line[w]]
        <3>1. /\ \A d \in Cells : d # seg[w] => panel[Row(Line[w])][d] = page[Line[w]][d]
              /\ panel[Row(Line[w])][seg[w]] = Glyph(w)
            BY <2>2 DEF Shown, Copied
        <3>2. \A d \in Cells : panel[Row(Line[w])][d] = page'[Line[w]][d]
            BY <3>1, <1>20
        <3>3. /\ panel[Row(Line[w])] \in [Cells -> Glyphs]
              /\ page'[Line[w]] \in [Cells -> Glyphs]
            BY <1>20, Layout DEF Types
        <3> QED
            BY <3>2, <3>3 DEF Copied
    <2>3. ASSUME ~lost', NEW v \in Writers, Busy(v)'
          PROVE  marred'[Line[v]]
        BY <2>3, <1>1, <1>2, <1>3, <1>21 DEF Copied
    <2> QED
        BY <2>1, <2>2, <2>3 DEF Shown
<1> QED
    BY <1>5, <1>6, <1>8, <1>9, <1>1, <1>2, <1>21

\* A cell is copied, and the next one, the text, or nothing more comes.
LEMMA CopyInv ==
    ASSUME DisplayInv, NEW w \in Writers, Copy(w)
    PROVE  DisplayInv'
<1> USE DEF DisplayInv
<1> DEFINE more == seg[w] + 1 < Width(w)
<1>1. /\ pc[w] = "copy"
      /\ page' = [page EXCEPT ![Line[w]][seg[w]] = Glyph(w)]
      /\ UNCHANGED <<panel, cursor, mixed, marred, lost>>
    BY DEF Copy
<1>2. /\ Busy(w) /\ Line[w] \in Lines /\ seg[w] \in Cells /\ seg[w] < Width(w)
      /\ Width(w) \in 1 .. Cols /\ Glyph(w) \in Glyphs /\ text[w] \in Own[w]
      /\ text[w] \in Texts /\ TextLen[text[w]] \in Nat
    BY <1>1, Widths, Layout DEF Types, Turns, Busy
<1>5. Copied(w)
    BY <1>1, <1>2 DEF Copied
<1>3. CASE more
    <2>1. /\ seg' = [seg EXCEPT ![w] = @ + 1]
          /\ pc' = [pc EXCEPT ![w] = "cursor"]
          /\ UNCHANGED <<up, clearing, text, last>>
        BY <1>3 DEF Copy
    <2> QED
        BY <2>1, <1>3, <1>5, NextCell
<1>4. CASE ~more
    <2>1. /\ seg' = [seg EXCEPT ![w] = 0]
          /\ clearing' = [clearing EXCEPT ![w] = FALSE]
          /\ pc' = [pc EXCEPT ![w] = IF clearing[w] THEN "cursor" ELSE "idle"]
          /\ text' = [text EXCEPT ![w] = IF clearing[w] THEN text[w] ELSE Blank]
          /\ up' = IF w = "main" THEN up + 1 ELSE up
          /\ last' = IF clearing[w] THEN last ELSE [last EXCEPT ![Line[w]] = text[w]]
        BY <1>4 DEF Copy, Types
    <2>2. seg[w] + 1 = Width(w)
        BY <1>2, <1>4, Constants
    <2>3. CASE clearing[w]
        <3>1. w # "main" /\ up' = up /\ last' = last
            BY <2>1, <2>3, <1>2 DEF Turns
        <3>2. text' = text /\ pc' = [pc EXCEPT ![w] = "cursor"]
            BY <2>1, <2>3 DEF Types
        <3>3. Width(w) = Cols /\ Glyph(w) = Blank
            BY <2>3 DEF Width, Glyph
        <3> QED
            BY <2>1, <2>2, <2>3, <3>1, <3>2, <3>3, <1>5, LineCleared
    <2>4. CASE ~clearing[w]
        <3>1. pc' = [pc EXCEPT ![w] = "idle"] /\ last' = [last EXCEPT ![Line[w]] = text[w]]
            BY <2>1, <2>4
        <3>2. text' = [text EXCEPT ![w] = Blank]
            BY <2>1, <2>4
        <3> QED
            BY <2>1, <2>2, <2>4, <3>1, <3>2, <1>5, TextDrawn
    <2> QED
        BY <2>3, <2>4
<1> QED
    BY <1>3, <1>4

-----------------------------------------------------------------------------
\* Every step keeps the invariant.
LEMMA NextInv == DisplayInv /\ [Next]_vars => DisplayInv'
<1> SUFFICES ASSUME DisplayInv, [Next]_vars PROVE DisplayInv'
    OBVIOUS
<1>1. CASE WsEvent
    BY <1>1, DrawInv, Layout DEF WsEvent, Begin, Own
<1>2. CASE MqttEvent
    BY <1>2, DrawInv, Layout DEF MqttEvent, Begin, Own
<1>3. CASE MainStarts
    BY <1>3, DrawInv, Layout DEF MainStarts, Own
<1>4. CASE \E w \in Writers : MoveCursor(w) \/ SendGlyph(w) \/ Copy(w)
    BY <1>4, CursorInv, GlyphInv, CopyInv
<1>5. CASE UNCHANGED vars
    <2>1. \A w \in Writers : Glyph(w)' = Glyph(w) /\ Width(w)' = Width(w)
        BY <1>5 DEF vars, Glyph, Width
    <2> QED
        BY <1>5, <2>1 DEF vars, DisplayInv, Types, Turns, Copies, Cursors, Shown, Busy, Idle
<1> QED
    BY <1>1, <1>2, <1>3, <1>4, <1>5 DEF Next

\* The inductive invariant holds.
THEOREM DisplayCorrect == Spec => []DisplayInv
<1> QED
    BY InitInv, NextInv, PTL DEF Spec

\* The driver's copy of a line is the text last drawn on it, whatever the bus
\* loses, but where the main thread draws on the running MQTT handler's line.
THEOREM CopyCorrect == Spec => []CopyIsText
<1>1. DisplayInv => CopyIsText
    BY Layout DEF DisplayInv, Turns, Copies, CopyIsText
<1> QED
    BY <1>1, DisplayCorrect, PTL

\* Drawings that overlap harm only the lines they draw on.
THEOREM DamageCorrect == Spec => []DamageIsLocal
<1>1. DisplayInv => DamageIsLocal
    BY DEF DisplayInv, Shown, DamageIsLocal
<1> QED
    BY <1>1, DisplayCorrect, PTL
=============================================================================
