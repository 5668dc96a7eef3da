----------------------------- MODULE ScreenText -----------------------------
(***************************************************************************)
(* Reading the emulator's screen: liveplay/vision/font_matcher.py, ocr.py, *)
(* hp_bar.py and regions.py.  Text is a sequence of glyphs; a glyph is a   *)
(* letter group the game prints as one unit ("used", "'s", "!", a digit),  *)
(* " " a space and NL the break between the two rows of the message box.   *)
(* An image row is a sequence of pixel columns: BLANK or the number of an  *)
(* ink pattern.  Nothing but the columns is visible to the reader.         *)
(***************************************************************************)
EXTENDS Integers, Sequences, SequencesExt, FiniteSets, FiniteSetsExt

CONSTANT Pixels    \* width of the opponent's HP bar (48 in the game)
ASSUME PixelsPositive == Pixels \in Nat \ {0}

BLANK == 0
NL == "/nl"
None == "None"
NoNumber == 0 - 1    \* None where a number is read
SpaceAdvance == 3

Digit == <<"0", "1", "2", "3", "4", "5", "6", "7", "8", "9">>
Letters ==
  <<"Zig", "Pooch", "Karp", "Foe", "Aqua", "Grunt", "TACKLE", "SPLASH", "STRUGGLE", "used", "fainted",
    "Go", "come", "back", "sent", "out", "Player", "defeated", "whited", "There", "no", "PP", "left",
    "for", "this", "move", "A", "critical", "hit", "HP", "ATTACK", "DEFENSE", "rose", "sharply", "fell",
    "harshly", "would", "like", "to", "battle", "What", "will", "do", "Choose", "a", "Pok", "Egg", "O">>
Marks == <<"!", "'s", ",", "?", ".", "/">>
Printable == Letters \o Marks \o Digit \o <<"Lv">>
Position(g, s) == CHOOSE i \in DOMAIN s : s[i] = g

(* _load: the template of a glyph is its ink columns without the spacing   *)
(* column.  In the small font the digit 0 and the letter O share one.      *)
Font == [f \in {"normal", "small"} |-> [g \in ToSet(Printable) |->
           LET i == Position(IF f = "small" /\ g = "0" THEN "O" ELSE g, Printable)
           IN  IF g = "Lv" THEN <<i, i>> ELSE <<i>>]]
Advance(f, g) == Len(Font[f][g]) + 1

(* External: the game's text printer.                                      *)
Draw(f, text) ==
  FlattenSeq([i \in DOMAIN text |-> IF text[i] = " " THEN [c \in 1..SpaceAdvance |-> BLANK]
                                    ELSE Append(Font[f][text[i]], BLANK)])

(* match_text, one position of the scan: the first candidate whose         *)
(* template equals the window wins and moves the scan by its advance; a    *)
(* run of blank columns as wide as a space, between two glyphs, is one.    *)
FitsAt(ink, cols, x) == /\ x + Len(ink) - 1 <= Len(cols)
                        /\ SubSeq(cols, x, x + Len(ink) - 1) = ink
Taken(f, spaced, st, x, g) ==
  [x |-> x + Advance(f, g), gap |-> 0,
   out |-> IF spaced /\ st.out # <<>> /\ st.gap >= SpaceAdvance THEN st.out \o <<" ", g>> ELSE Append(st.out, g)]
TakeFirst(f, chars, spaced, st, x, hits) ==
  IF hits = {} THEN [st EXCEPT !.x = x + 1, !.gap = @ + 1] ELSE Taken(f, spaced, st, x, chars[Min(hits)])
ScanAt(f, cols, chars, spaced, st, x) ==
  IF x < st.x THEN st
  ELSE TakeFirst(f, chars, spaced, st, x, {i \in DOMAIN chars : FitsAt(Font[f][chars[i]], cols, x)})

match_text(f, cols, chars, spaced) ==
  FoldLeft(LAMBDA st, x : ScanAt(f, cols, chars, spaced, st, x),
           [x |-> 1, gap |-> 0, out |-> <<>>], [x \in DOMAIN cols |-> x]).out

(* ----------------------------- message box ----------------------------- *)
Rows(text) ==
  LET cut == {i \in DOMAIN text : text[i] = NL}
  IN  IF cut = {} THEN <<text, <<>> >>
      ELSE <<SubSeq(text, 1, Min(cut) - 1), SubSeq(text, Min(cut) + 1, Len(text))>>

MessageChars == Letters \o Marks \o Digit

(* read_battle_message: both rows are scanned and joined by a space.       *)
JoinRows(top, bottom) == CASE top = <<>> -> bottom
                           [] bottom = <<>> -> top
                           [] OTHER -> top \o <<" ">> \o bottom
ReadRow(text) == match_text("normal", Draw("normal", text), MessageChars, TRUE)
read_battle_message(text) == JoinRows(ReadRow(Rows(text)[1]), ReadRow(Rows(text)[2]))

(* ------------------------------- HP boxes ------------------------------ *)
Numeral(n) == IF n < 10 THEN <<Digit[n + 1]>> ELSE <<Digit[(n \div 10) + 1], Digit[(n % 10) + 1]>>

(* _parse_int, _parse_hp_fraction: the run of digits as a number.          *)
DigitRun(s) == SelectSeq(s, LAMBDA g : g \in ToSet(Digit))
ParseInt(s) ==
  IF DigitRun(s) = <<>> THEN NoNumber
  ELSE FoldLeft(LAMBDA n, g : 10 * n + Position(g, Digit) - 1, 0, DigitRun(s))
HpFraction(s) ==
  LET slash == {i \in DOMAIN s : s[i] = "/"}
  IN  IF slash = {} THEN NoNumber ELSE ParseInt(SubSeq(s, 1, Min(slash) - 1))

NameSkip == {"HP", "Lv", "Foe", "A", "a"}
ExtractName(s) == LET names == {i \in DOMAIN s : s[i] \notin NameSkip}
                  IN  IF names = {} THEN None ELSE s[Min(names)]
(* _name_before_level: the scan stops at the level tile, since the level's *)
(* zero cannot be told from a trailing letter O of the name.               *)
NameBeforeLevel(s) == LET lv == {i \in DOMAIN s : s[i] = "Lv"}
                      IN  ExtractName(IF lv = {} THEN s ELSE SubSeq(s, 1, Min(lv) - 1))

NameRow(name, level) == Draw("small", <<name, "Lv">> \o Numeral(level))
HpBoxChars == <<"Lv">> \o Letters

(* read_player_info and read_opponent_info: the parts the loop uses.       *)
read_name(name, level) == NameBeforeLevel(match_text("small", NameRow(name, level), HpBoxChars, FALSE))
read_player_hp(hp, maxHp) ==
  HpFraction(match_text("small", Draw("small", Numeral(hp) \o <<"/">> \o Numeral(maxHp)), Digit \o <<"/">>, FALSE))

(* External: one pixel row of the bar; it shows at least one pixel while   *)
(* the mon lives.  An animating bar mixes two colours.                     *)
BarPixels(hp, maxHp) == IF hp = 0 THEN 0 ELSE Max({1, (hp * Pixels) \div maxHp})
BarRow(k, moving) ==
  LET colour(i) == IF i > k THEN "black" ELSE IF moving /\ i = 1 THEN "yellow" ELSE "green"
  IN  <<"white">> \o [i \in 1..Pixels |-> colour(i)] \o <<"white">>

(* read_opponent_hp_bar: both ends off-white, a colour other than that of  *)
(* the first pixel, or an unknown one make the reading None.               *)
read_opponent_hp_bar(row) ==
  LET body == SubSeq(row, 2, Len(row) - 1)
      kind == body[1]
  IN  IF \/ row[1] # "white" /\ row[Len(row)] # "white"
         \/ \E i \in DOMAIN body : body[i] \notin {kind, "black"} \/ body[i] = "invalid"
      THEN NoNumber
      ELSE Cardinality({i \in DOMAIN body : body[i] # "black"})

(* ------------------------------ party menu ----------------------------- *)
(* read_party_prompt: the prompt has its own palette, so the message box   *)
(* reads nothing there, and this scan reads nothing in a battle.           *)
AsksForMon(read) == Contains(read, "Choose") /\ Contains(read, "Pok")
read_party_prompt(text) == AsksForMon(match_text("normal", Draw("normal", text), Letters \o <<".">>, TRUE))

(* read_party_menu: one member per slot that shows a name or an HP value.  *)
read_party_menu(team) ==
  {[slot |-> i,
    name |-> ExtractName(match_text("small", Draw("small", <<team[i].name>>), Letters, FALSE)),
    hp |-> ParseInt(match_text("small", Draw("small", Numeral(team[i].hp)), Digit, FALSE))] : i \in DOMAIN team}
=============================================================================
