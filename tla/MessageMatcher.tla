--------------------------- MODULE MessageMatcher ---------------------------
(***************************************************************************)
(* Which battle message a read text is: liveplay/battle_message_matcher.py *)
(* over a selection of liveplay/battle_messages.py.  Text is the glyph     *)
(* sequence of ScreenText; the edit distance weighs a glyph by its length, *)
(* so two glyphs are assumed to share no letters.                          *)
(***************************************************************************)
EXTENDS ScreenText

Infinity == 1000

(* ----------------------------- edit distance --------------------------- *)
Weight(s) == FoldLeft(LAMBDA n, g : n + Len(g), 0, s)
SubstCost(g, h) == IF g = h THEN 0 ELSE Max({Len(g), Len(h)})

(* Levenshtein: one row of the table per glyph of a.                       *)
LevRow(prev, g, b) ==
  FoldLeft(LAMBDA row, j : Append(row, Min({prev[j + 1] + Len(g), row[j] + Len(b[j]),
                                            prev[j] + SubstCost(g, b[j])})),
           <<prev[1] + Len(g)>>, [j \in DOMAIN b |-> j])
(* No budget below exceeds Tolerance, so texts whose glyphs alone differ   *)
(* by more are not measured.                                               *)
Tolerance == 12
Missing(a, b) == Weight(SelectSeq(a, LAMBDA g : ~Contains(b, g)))
Lev(a, b) ==
  LET first == [j \in 1..(Len(b) + 1) |-> Weight(SubSeq(b, 1, j - 1))]
  IN  CASE a = b -> 0
        [] a # b /\ Max({Missing(a, b), Missing(b, a)}) > Tolerance -> Infinity
        [] OTHER -> Last(FoldLeft(LAMBDA prev, g : LevRow(prev, g, b), first, a))

_max_edits(n) == IF n <= 3 THEN 1 ELSE IF n <= 6 THEN 2 ELSE Max({3, n \div 5})

(* ------------------------------- words --------------------------------- *)
(* text.split(): a word is the glyphs between two spaces.                  *)
Split(text) ==
  FoldLeft(LAMBDA ws, g : IF g = " " THEN Append(ws, <<>>)
                          ELSE [ws EXCEPT ![Len(ws)] = Append(@, g)],
           << <<>> >>, text)
Words(text) == SelectSeq(Split(text), LAMBDA w : w # <<>>)
Joined(ws) == FlattenSeq([i \in DOMAIN ws |-> IF i = 1 THEN ws[i] ELSE <<" ">> \o ws[i]])

(* _preprocess_ocr and _literal_word_tokens: a "!" fused to a word is a    *)
(* word of its own.                                                        *)
SplitBang(w) == IF Len(w) > 1 /\ Last(w) = "!" THEN <<Front(w), <<"!">> >> ELSE <<w>>
_preprocess_ocr(ws) == FlattenSeq([i \in DOMAIN ws |-> SplitBang(ws[i])])

(* ------------------------------ templates ------------------------------ *)
LitTokens(ws) == [i \in DOMAIN ws |-> [k |-> "lit", word |-> ws[i]]]
Lit(text) == LitTokens(_preprocess_ocr(Words(text)))
Var(cat, ph) == << [k |-> "var", cat |-> cat, ph |-> ph] >>
EnumOf(choices, ph) == << [k |-> "enum", choices |-> choices, ph |-> ph] >>

Trainer == Var("trainer_class", "B_TRAINER1_CLASS") \o Var("trainer_name", "B_TRAINER1_NAME")
Mon(ph) == Var("pokemon_name", ph)
StatNames == {<<"HP">>, <<"ATTACK">>, <<"DEFENSE">>}
StatMessage(ph) == Mon(ph) \o Lit(<<"'s">>) \o Var("text", "B_BUFF1") \o Var("text", "B_BUFF2")

(* BATTLE_MESSAGES: one entry of each kind the loop and the ranking tell   *)
(* apart, in the order of the table.                                       *)
SendOutMessages ==
  << [id |-> "INTROMSG", toks |-> Trainer \o Lit(<<"would", " ", "like", " ", "to", " ", "battle", "!">>)],
     [id |-> "PLAYER_INTROSENDOUT", toks |-> Lit(<<"Go", "!">>) \o Mon("B_PLAYER_MON1_NAME") \o Lit(<<"!">>)],
     [id |-> "INTROSENDOUT",
      toks |-> Trainer \o Lit(<<"sent", " ", "out">>) \o Mon("B_OPPONENT_MON1_NAME") \o Lit(<<"!">>)],
     [id |-> "RETURNMON", toks |-> Mon("B_BUFF1") \o Lit(<<",", " ", "come", " ", "back", "!">>)],
     [id |-> "PLAYER_SWITCHINMON", toks |-> Lit(<<"Go", "!">>) \o Mon("B_BUFF1") \o Lit(<<"!">>)],
     [id |-> "SWITCHINMON",
      toks |-> Trainer \o Lit(<<"sent", " ", "out">>) \o Mon("B_BUFF1") \o Lit(<<"!">>)] >>
ActionMessages ==
  << [id |-> "USEDMOVE", toks |-> Mon("B_ATK_NAME_WITH_PREFIX") \o Lit(<<"used">>) \o Var("move_name", "B_BUFF2")],
     [id |-> "BATTLEEND", toks |-> Lit(<<"Player", " ", "defeated">>) \o Trainer \o Lit(<<"!">>)],
     [id |-> "TRAINER1LOSETEXT", toks |-> Var("text", "B_TRAINER1_LOSE_TEXT")] >>
OutcomeMessages ==
  << [id |-> "ATTACKERFAINTED", toks |-> Mon("B_ATK_NAME_WITH_PREFIX") \o Lit(<<"fainted", "!">>)],
     [id |-> "TARGETFAINTED", toks |-> Mon("B_DEF_NAME_WITH_PREFIX") \o Lit(<<"fainted", "!">>)],
     [id |-> "PLAYERWHITEOUT2", toks |-> Var("text", "B_PLAYER_NAME") \o Lit(<<"whited", " ", "out", "!">>)] >>
StatMessages ==
  << [id |-> "ATTACKERSSTATFELL", toks |-> StatMessage("B_ATK_NAME_WITH_PREFIX")],
     [id |-> "DEFENDERSSTATFELL", toks |-> StatMessage("B_DEF_NAME_WITH_PREFIX")] >>
PlainMessages ==
  << [id |-> "CRITICALHIT", toks |-> Lit(<<"A", " ", "critical", " ", "hit", "!">>)],
     [id |-> "NOPPLEFT",
      toks |-> Lit(<<"There", "'s", " ", "no", " ", "PP", " ", "left", " ", "for", " ", "this", " ", "move", "!">>)] >>
BATTLE_MESSAGES == SendOutMessages \o ActionMessages \o OutcomeMessages \o StatMessages \o PlainMessages

_ENUM_OVERRIDES == [id \in {"ATTACKERSSTATFELL", "DEFENDERSSTATFELL"} |-> [ph |-> "B_BUFF1", choices |-> StatNames]]
_LITERAL_DIRECTION_OVERRIDES ==
  [id \in {"ATTACKERSSTATFELL", "DEFENDERSSTATFELL"} |->
     [ph |-> "B_BUFF2", phrases |-> << <<"fell", "!">>, <<"harshly", " ", "fell", "!">> >>]]
_BUDGET_BONUS == [id \in {"ATTACKERFAINTED", "TARGETFAINTED"} |-> 2]
AtkPlaceholders == {"B_ATK_NAME_WITH_PREFIX", "B_PLAYER_MON1_NAME"}
DefPlaceholders == {"B_DEF_NAME_WITH_PREFIX", "B_OPPONENT_MON1_NAME"}
_ANY_PREFIX_PH == AtkPlaceholders \cup DefPlaceholders

IsVar(t) == t.k = "var"
IsEnum(t) == t.k = "enum"
IsLit(t) == t.k = "lit"

(* _foe_split: a variant with and without the literal Foe before every     *)
(* name that may carry it, bare first.                                     *)
_foe_split(toks) ==
  FoldLeft(LAMBDA vs, t : FlattenSeq([v \in DOMAIN vs |->
             IF IsVar(t) /\ t.ph \in _ANY_PREFIX_PH
             THEN << Append(vs[v], t), vs[v] \o Lit(<<"Foe">>) \o <<t>> >> ELSE << Append(vs[v], t) >>]),
           << <<>> >>, toks)

(* _build_templates: enum slots, the "!" the game adds to a used move, one *)
(* variant per direction phrase, then the Foe variants of each.            *)
WithEnums(m) ==
  [i \in DOMAIN m.toks |->
     IF /\ m.id \in DOMAIN _ENUM_OVERRIDES /\ IsVar(m.toks[i]) /\ m.toks[i].ph = _ENUM_OVERRIDES[m.id].ph
     THEN EnumOf(_ENUM_OVERRIDES[m.id].choices, m.toks[i].ph)[1] ELSE m.toks[i]]
WithBang(m, toks) == IF m.id = "USEDMOVE" THEN toks \o Lit(<<"!">>) ELSE toks
Directed(m, toks) ==
  IF m.id \notin DOMAIN _LITERAL_DIRECTION_OVERRIDES THEN <<toks>>
  ELSE LET o == _LITERAL_DIRECTION_OVERRIDES[m.id]
           pos == CHOOSE i \in DOMAIN toks : IsVar(toks[i]) /\ toks[i].ph = o.ph
       IN  [j \in DOMAIN o.phrases |->
              SubSeq(toks, 1, pos - 1) \o Lit(o.phrases[j]) \o SubSeq(toks, pos + 1, Len(toks))]
FoeVariants(vs) == FlattenSeq([j \in DOMAIN vs |-> _foe_split(vs[j])])
_build_templates(m) == FoeVariants(Directed(m, WithBang(m, WithEnums(m))))

(* _build_segments: consecutive literals are one phrase.                   *)
_build_segments(toks) ==
  FoldLeft(LAMBDA segs, t :
             IF IsLit(t) /\ segs # <<>> /\ IsLit(Last(segs)[1])
             THEN [segs EXCEPT ![Len(segs)] = Append(@, t)] ELSE Append(segs, <<t>>),
           <<>>, toks)
PhraseText(seg) == Joined([i \in DOMAIN seg |-> seg[i].word])

(* _compute_budget: the edits allowed over all phrases and enums.          *)
SegBudget(seg) == CASE IsLit(seg[1]) -> _max_edits(Weight(PhraseText(seg)))
                    [] IsEnum(seg[1]) -> _max_edits(Max({Weight(c) : c \in seg[1].choices}))
                    [] OTHER -> 0
Count(toks, Kind(_)) == Cardinality({i \in DOMAIN toks : Kind(toks[i])})

_compute_budget(id, segs) ==
  FoldLeft(LAMBDA n, s : n + SegBudget(s), IF id \in DOMAIN _BUDGET_BONUS THEN _BUDGET_BONUS[id] ELSE 0, segs)
TemplateOf(id, toks, segs) ==
  [id |-> id, toks |-> toks, segs |-> segs, lits |-> Count(toks, IsLit),
   enums |-> Count(toks, IsEnum), vars |-> Count(toks, IsVar), budget |-> _compute_budget(id, segs)]
TemplatesOf(id, vs) == [j \in DOMAIN vs |-> TemplateOf(id, vs[j], _build_segments(vs[j]))]
TemplatesFor(ms) == FlattenSeq([i \in DOMAIN ms |-> TemplatesOf(ms[i].id, _build_templates(ms[i]))])
Templates == TemplatesFor(BATTLE_MESSAGES)

(* -------------------------- names and constraints ---------------------- *)
(* Constraints: the names this battle can show; an empty list is None and  *)
(* means the global list.                                                  *)
POKEMON_NAMES == {<<"Zig">>, <<"Pooch">>, <<"Karp">>}
MOVE_NAMES == {<<"TACKLE">>, <<"SPLASH">>, <<"STRUGGLE">>}
TRAINER_NAMES == {<<"Aqua", " ", "Grunt">>}
NoConstraints == [pokemon |-> {}, moves |-> {}, trainer |-> {}, freeMoves |-> FALSE, freeNames |-> FALSE]
OrGlobal(list, all) == IF list = {} THEN all ELSE list

Closest(s, known) == {v \in known : /\ Lev(s, v) <= _max_edits(Weight(s))
                                    /\ \A u \in known : Lev(s, v) <= Lev(s, u)}
OneOf(vs, s) == IF vs = {} THEN s ELSE CHOOSE v \in vs : TRUE
_best_match(s, known) == OneOf(Closest(s, known), s)
_matches_any_constraint(s, known) == \E v \in known : Lev(s, v) <= _max_edits(Weight(v))
_is_struggle_span(s) == _matches_any_constraint(s, {<<"STRUGGLE">>})

FoePrefix(ws) == Len(ws) >= 2 /\ Lev(ws[1], <<"Foe">>) <= _max_edits(3)
WithoutFoe(s, ws) == IF FoePrefix(ws) THEN Joined(Tail(ws)) ELSE s
Bare(s) == WithoutFoe(s, Words(s))

_validate_pokemon_name(s) == /\ Len(Words(s)) = 1 \/ FoePrefix(Words(s))
                             /\ Closest(Bare(s), POKEMON_NAMES) # {}

(* _canonical_var_value: the nearest known name; a Foe read with the name  *)
(* is put back in front of it.                                             *)
_canonical_var_value(s, cat, c) ==
  CASE cat = "move_name" ->
         IF _is_struggle_span(s) THEN <<"STRUGGLE">>
         ELSE _best_match(s, OrGlobal(IF c.freeMoves THEN {} ELSE c.moves, MOVE_NAMES))
    [] cat = "pokemon_name" ->
         (IF FoePrefix(Words(s)) THEN <<"Foe", " ">> ELSE <<>>)
         \o _best_match(Bare(s), OrGlobal(c.pokemon, POKEMON_NAMES))
    [] OTHER -> s

_validate_one(s, cat, c) ==
  CASE cat = "pokemon_name" -> IF c.freeNames \/ c.pokemon = {} THEN _validate_pokemon_name(s)
                               ELSE _matches_any_constraint(Bare(s), c.pokemon)
    [] cat = "move_name" -> \/ _is_struggle_span(s)
                            \/ IF c.freeMoves \/ c.moves = {} THEN Closest(s, MOVE_NAMES) # {}
                               ELSE _matches_any_constraint(s, c.moves)
    [] OTHER -> TRUE

(* _validate_trainer_pair: how the DP splits class from name is arbitrary, *)
(* so the two are checked as one.                                          *)
_validate_trainer_pair(s, c) == IF c.trainer = {} THEN Closest(s, TRAINER_NAMES) # {}
                                ELSE _matches_any_constraint(s, c.trainer)

IsPair(slots, k) == /\ k \in 1..(Len(slots) - 1) /\ IsVar(slots[k]) /\ IsVar(slots[k + 1])
                    /\ slots[k].cat = "trainer_class" /\ slots[k + 1].cat = "trainer_name"
_validate_vars(slots, vals, c) ==
  \A k \in DOMAIN slots :
    CASE IsPair(slots, k) -> _validate_trainer_pair(vals[k] \o <<" ">> \o vals[k + 1], c)
      [] IsPair(slots, k - 1) \/ IsEnum(slots[k]) -> TRUE
      [] OTHER -> _validate_one(vals[k], slots[k].cat, c)

(* ------------------------------ alignment ------------------------------ *)
Span(ws, i, j) == Joined(SubSeq(ws, i + 1, j))

(* A phrase that starts with 's after a word that already ends in it: the  *)
(* name before swallowed the suffix, if it is a name at all.               *)
Fused(seg, ws, i) ==
  /\ i > 0 /\ seg[1].word = <<"'s">> /\ Last(ws[i]) = "'s"
  /\ Weight(Front(ws[i])) >= 3 /\ _validate_pokemon_name(Front(ws[i]))
FusedCost(seg, ws, i, j) ==
  CASE ~Fused(seg, ws, i) -> Infinity
    [] Len(seg) = 1 -> IF i = j THEN 0 ELSE Infinity
    [] OTHER -> IF j - i \in 1..(Len(seg) - 1) THEN Lev(Span(ws, i, j), PhraseText(Tail(seg))) ELSE Infinity

(* What it costs a segment to take words i+1 to j.                         *)
StepCost(seg, ws, i, j) ==
  CASE IsVar(seg[1]) -> IF j > i THEN 0 ELSE Infinity
    [] IsEnum(seg[1]) ->
         IF j - i \in 1..Max({Len(Words(ch)) : ch \in seg[1].choices})
         THEN Min({Lev(Span(ws, i, j), ch) : ch \in seg[1].choices}) ELSE Infinity
    [] OTHER -> Min({FusedCost(seg, ws, i, j),
                     IF j - i \in 1..(Len(seg) + 1) THEN Lev(Span(ws, i, j), PhraseText(seg)) ELSE Infinity})

(* One column of the DP table; the earliest predecessor wins a tie.        *)
Cell(cost, best) == [cost |-> Min({best, Infinity}), from |-> Min({i \in DOMAIN cost : cost[i] = best}) - 1]
Cheapest(cost) == Cell(cost, Min(ToSet(cost)))
AlignCell(seg, ws, row, j) ==
  Cheapest(<<>> \o [i \in 1..j |-> IF row[i].cost >= Infinity THEN Infinity
                                    ELSE row[i].cost + StepCost(seg, ws, i - 1, j - 1)])
AlignRow(seg, ws, row) == <<>> \o [j \in DOMAIN row |-> AlignCell(seg, ws, row, j)]
Table(segs, ws) ==
  FoldLeft(LAMBDA rows, seg : Append(rows, AlignRow(seg, ws, Last(rows))),
           << [j \in 1..(Len(ws) + 1) |-> [cost |-> IF j = 1 THEN 0 ELSE Infinity, from |-> 0]] >>, segs)

(* _traceback: where each segment starts, and what each slot captured.     *)
Cuts(rows, n) ==
  FoldLeft(LAMBDA cs, k : <<rows[Len(rows) - k + 1][cs[1] + 1].from>> \o cs, <<n>>,
           [k \in 1..(Len(rows) - 1) |-> k])
SlotValue(seg, s, c) ==
  IF IsVar(seg[1]) THEN _canonical_var_value(s, seg[1].cat, c)
  ELSE CHOOSE ch \in seg[1].choices : \A d \in seg[1].choices : Lev(s, ch) <= Lev(s, d)

HasFoe(t, k, val) == \/ k > 1 /\ IsLit(t.toks[k - 1]) /\ t.toks[k - 1].word = <<"Foe">>
                     \/ val # <<>> /\ val[1] = "Foe"
IsName(tok) == IsVar(tok) /\ tok.cat = "pokemon_name"

(* _context_score: names on the side the placeholder is not about.         *)
_context_score(t, slotPos, vals) ==
  Cardinality({k \in DOMAIN slotPos :
    LET tok == t.toks[slotPos[k]] IN
    /\ IsName(tok)
    /\ \/ HasFoe(t, slotPos[k], vals[k]) /\ tok.ph \in AtkPlaceholders
       \/ ~HasFoe(t, slotPos[k], vals[k]) /\ tok.ph \in DefPlaceholders})

(* _name_side_slots, _subject_side_hint: the side each name is on.         *)
_name_side_slots(t, slotPos, vals) ==
  [k \in {j \in DOMAIN slotPos : IsName(t.toks[slotPos[j]])} |-> IF HasFoe(t, slotPos[k], vals[k]) THEN 1 ELSE 0]

(* try_align: the set of the template's results, empty when it does not    *)
(* align within its budget or a captured value is not valid.               *)
OpenSegs(segs) == SelectSeq([s \in DOMAIN segs |-> s], LAMBDA s : ~IsLit(segs[s][1]))
SlotPos(toks) == SelectSeq([k \in DOMAIN toks |-> k], LAMBDA k : ~IsLit(toks[k]))
SlotTokens(toks, slotPos) == <<>> \o [k \in DOMAIN slotPos |-> toks[slotPos[k]]]
Values(t, ws, c, cuts, open) ==
  <<>> \o [k \in DOMAIN open |-> SlotValue(t.segs[open[k]], Span(ws, cuts[open[k]], cuts[open[k] + 1]), c)]
VarWords(segs, cuts) ==
  FoldLeft(LAMBDA n, s : IF IsVar(segs[s][1]) THEN n + cuts[s + 1] - cuts[s] ELSE n, 0, [s \in DOMAIN segs |-> s])
ResultOf(t, ws, c, cost, cuts, slotPos, slots, vals) ==
  IF ~_validate_vars(slots, vals, c) THEN {}
  ELSE {[id |-> t.id, vals |-> vals, labels |-> [k \in DOMAIN slots |-> slots[k].ph],
         score |-> cost, lits |-> t.lits, context |-> _context_score(t, slotPos, vals),
         sides |-> _name_side_slots(t, slotPos, vals),
         explained |-> Len(ws) - VarWords(t.segs, cuts), words |-> Len(ws)]}
Traced(t, ws, c, cost, cuts, slotPos) ==
  ResultOf(t, ws, c, cost, cuts, slotPos, SlotTokens(t.toks, slotPos), Values(t, ws, c, cuts, OpenSegs(t.segs)))
Aligned(t, ws, c, rows, cost) ==
  IF cost > t.budget THEN {} ELSE Traced(t, ws, c, cost, Cuts(rows, Len(ws)), SlotPos(t.toks))
AlignedBy(t, ws, c, rows) == Aligned(t, ws, c, rows, Last(rows)[Len(ws) + 1].cost)
try_align(t, ws, c) == AlignedBy(t, ws, c, Table(t.segs, ws))

(* _filter_candidates, and the templates without a literal or an enum.     *)
MinWords(t) == Cardinality({s \in DOMAIN t.segs : IsLit(t.segs[s][1])}) + t.enums + t.vars
_filter_candidates(ws) ==
  SelectSeq(Templates, LAMBDA t : /\ MinWords(t) <= Len(ws) /\ Len(ws) <= t.lits + 3 * t.enums + 3 * t.vars + 1
                                  /\ t.lits + t.enums > 0)

(* _try_full_match: fewest edits, then most literals, then best sides,     *)
(* then first in the table; a winner whose literals explain under 30% of   *)
(* the words gives way to the result that explains most.                   *)
Better(r, q) == \/ r.score < q.score
                \/ r.score = q.score /\ r.lits > q.lits
                \/ r.score = q.score /\ r.lits = q.lits /\ r.context < q.context
Covers(r, q) == \/ r.explained > q.explained
                \/ r.explained = q.explained /\ Better(r, q)
FirstBest(rs, Less(_, _)) ==
  FoldLeft(LAMBDA best, r : IF Less(r, best) THEN r ELSE best, rs[1], rs)
LowCoverage(r) == 10 * r.explained < 3 * r.words
Chosen(rs, best) == IF LowCoverage(best) THEN FirstBest(rs, Covers) ELSE best
Ranked(rs) == IF rs = <<>> THEN {} ELSE {Chosen(rs, FirstBest(rs, Better))}
Results(ts, ws, c) == FlattenSeq([k \in DOMAIN ts |-> SetToSeq(try_align(ts[k], ws, c))])
_try_full_match(ws, c) == Ranked(Results(_filter_candidates(ws), ws, c))

(* ------------------------------- screens ------------------------------- *)
Near(w, target) == Lev(w, target) <= 1
_is_choose_pokemon_prompt(ws) == Near(ws[1], <<"Choose">>) /\ \E i \in DOMAIN ws : ws[i][1] = "Pok"
_is_action_prompt(ws) ==
  /\ Len(ws) >= 3 /\ Near(ws[1], <<"What">>) /\ Near(ws[2], <<"will">>)
  /\ Near(SelectSeq(Last(ws), LAMBDA g : g # "?"), <<"do">>)
IsFraction(w) == \E k \in 2..(Len(w) - 1) : /\ w[k] = "/"
                                             /\ \A i \in DOMAIN w \ {k} : w[i] \in ToSet(Digit)
_detect_screen_type(ws) ==
  CASE _is_action_prompt(ws) -> "OPTION_SELECT"
    [] (\E i \in DOMAIN ws : ws[i] = <<"PP">>) /\ (\E i \in DOMAIN ws : IsFraction(ws[i])) -> "MOVE_SELECT"
    [] _is_choose_pokemon_prompt(ws) -> "PARTY_MENU"
    [] OTHER -> None
=============================================================================
