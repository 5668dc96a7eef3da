---------------------------- MODULE BattleScreen ----------------------------
(***************************************************************************)
(* External: the game as the play loop sees it.  A battle is a script of   *)
(* scenes: texts revealed a piece at a time, HP that runs down, mons that  *)
(* come in, and menus that wait for keys.  Two trainers, each with two     *)
(* mons; both of the opponent's have the same name, and three of the four  *)
(* are regional forms, shown under their base name.                        *)
(***************************************************************************)
EXTENDS BattleInit

MaxHp == 3
LEVEL == 10
Names == <<"Zig", "Pooch">>        \* the player's mons, as shown; the opponent's are all Karp

(* The player's party memory: an egg sits between the two mons.            *)
Line(species, egg, hp, alt, status) ==
  <<species, egg, TRUE, <<33, 150>>, <<5, 0>>, 7, 8, 9, alt, LEVEL, hp, MaxHp, status>>
PartyLines(hp) == <<Line("ZigGalar", FALSE, hp[1], 1, 64), Line("ZigGalar", TRUE, 0, 0, 0), Line("Pooch", FALSE, hp[2], 1, 0)>>
PartySlots(hp) == <<[name |-> "Zig", hp |-> hp[1]], [name |-> "Egg", hp |-> 0], [name |-> "Pooch", hp |-> hp[2]]>>
MonAt == <<1, 0, 2>>                                  \* the mon in each party slot
InitHp == << <<MaxHp, 1>>, <<MaxHp, MaxHp>> >>
TRAINER == [name |-> <<"Aqua", " ", "Grunt", " ", "[Boss]">>,
            pokemon |-> [i \in 1..2 |-> [name |-> "Karp_Alolan", ability |-> "SWIFTSWIM", moves |-> <<"SPLASH", "TACKLE">>,
                                         level |-> LEVEL, max_hp |-> MaxHp]]]
(* What those bytes mean to the game.                                      *)
TrueMon(species, ability, status) ==
  [species |-> species, ability |-> ability, status |-> status, moves |-> <<"TACKLE", "SPLASH">>, pp |-> <<5, 0>>,
   ivs |-> <<7, 9, 8>>, level |-> LEVEL, hp |-> 0, max_hp |-> MaxHp]
TrueFoe == [species |-> "KarpAlola", ability |-> "SWIFTSWIM", status |-> "NONE", moves |-> <<"SPLASH", "TACKLE">>,
            pp |-> <<64, 35>>, ivs |-> <<31, 31, 31>>, level |-> LEVEL, hp |-> 0, max_hp |-> MaxHp]
TrueTeam == << <<TrueMon("ZigGalar", "PICKUP", "PARALYSIS"), TrueMon("Pooch", "RATTLED", "NONE")>>, <<TrueFoe, TrueFoe>> >>

(* ------------------------------- messages ------------------------------ *)
(* side 2: the message names no mon on a side the text shows.              *)
Say(what, side, name, arg) == [what |-> what, side |-> side, name |-> name, arg |-> arg]
Used(side, name, move) == Say("used", side, name, move)
Fainted(side, name) == Say("fainted", side, name, None)
StatFell(side, name) == Say("fell", side, name, "ATTACK")
Crit == Say("critical", 2, None, None)
ComeBack(name) == Say("back", 2, name, None)
GoOut(name) == Say("go", 2, name, None)
SentOut == Say("sent", 2, "Karp", None)
NoPP == Say("noPP", 2, None, None)
Defeated == Say("defeated", 2, None, None)
WhitedOut == Say("whited", 2, None, None)
Challenge == Say("challenge", 2, None, None)
Speech == Say("speech", 2, None, None)
Messages == {Used(0, n, "TACKLE") : n \in ToSet(Names)} \cup {Used(1, "Karp", mv) : mv \in {"TACKLE", "SPLASH"}}
            \cup {Fainted(0, n) : n \in ToSet(Names)} \cup {Fainted(1, "Karp")}
            \cup {StatFell(0, n) : n \in ToSet(Names)}
            \cup {ComeBack(n) : n \in ToSet(Names)} \cup {GoOut(n) : n \in ToSet(Names)}
            \cup {Challenge, Crit, SentOut, NoPP, Defeated, WhitedOut, Speech}

Subject(m) == IF m.side = 1 THEN <<"Foe", " ", m.name>> ELSE <<m.name>>
TextOf(m) ==
  CASE m.what = "challenge" -> <<"Aqua", " ", "Grunt", NL, "would", " ", "like", " ", "to", " ", "battle", "!">>
    [] m.what = "used" -> Subject(m) \o <<" ", "used", NL, m.arg, "!">>
    [] m.what = "fainted" -> Subject(m) \o <<" ", "fainted", "!">>
    [] m.what = "fell" -> Subject(m) \o <<"'s", " ", m.arg, NL, "fell", "!">>
    [] m.what = "critical" -> <<"A", " ", "critical", " ", "hit", "!">>
    [] m.what = "back" -> <<m.name, ",", " ", "come", " ", "back", "!">>
    [] m.what = "go" -> <<"Go", "!", " ", m.name, "!">>
    [] m.what = "sent" -> <<"Aqua", " ", "Grunt", " ", "sent", " ", "out", NL, m.name, "!">>
    [] m.what = "noPP" -> <<"There", "'s", " ", "no", " ", "PP", " ", "left", " ", "for", NL, "this", " ", "move", "!">>
    [] m.what = "defeated" -> <<"Player", " ", "defeated", NL, "Aqua", " ", "Grunt", "!">>
    [] m.what = "whited" -> <<"Player", " ", "whited", " ", "out", "!">>
    [] OTHER -> <<"no", " ", "Pok", " ", "left", "!">>

(* The typewriter: nothing, the first word, everything.                    *)
Full == 2
Revealed(m, n) ==
  LET t == TextOf(m) IN LET gaps == {i \in DOMAIN t : t[i] \in {" ", NL}}
  IN  CASE n = 0 -> <<>> [] n = 1 -> SubSeq(t, 1, Min(gaps) - 1) [] OTHER -> t
Prompt == [n \in ToSet(Names) |-> <<"What", " ", "will", NL, n, " ", "do", "?">>]
MoveBox == <<"TACKLE", " ", "PP", " ", "5", "/", "3", "5">>
PartyPrompt == <<"Choose", " ", "a", " ", "Pok", ".">>

(* ------------------------------- scenes -------------------------------- *)
Text(m) == << [k |-> "text", m |-> m, wait |-> FALSE] >>
Waits(m) == << [k |-> "text", m |-> m, wait |-> TRUE] >>     \* stays until a button is pressed
FoeHp(hp) == << [k |-> "foeHp", hp |-> hp] >>
PlHp(hp) == << [k |-> "plHp", hp |-> hp] >>
FoeIn(i) == << [k |-> "foeIn", i |-> i] >>
PlIn(i) == << [k |-> "plIn", i |-> i] >>
Menu == << [k |-> "menu"] >>
MoveMenu == << [k |-> "moves"] >>
Party(want) == << [k |-> "party", want |-> want] >>   \* the mon chosen at the option menu, 0 after a faint
Over == << [k |-> "over"] >>

Intro == Text(Challenge) \o Text(SentOut) \o Text(GoOut("Zig")) \o Menu

(* The opponent's reply: it may do nothing, lower a stat, or hit for two.  *)
Replies(g) ==
  LET name == Names[g.pl]
      left == Max({g.hp[1][g.pl] - 2, 0})
      hit == Text(Used(1, "Karp", "TACKLE")) \o PlHp(left)
  IN  { Text(Used(1, "Karp", "SPLASH")) \o Menu, Text(Used(1, "Karp", "SPLASH")) \o Text(StatFell(0, name)) \o Menu,
        IF left > 0 THEN hit \o Menu
        ELSE hit \o Text(Fainted(0, name)) \o
             (IF \E i \in 1..2 : i # g.pl /\ g.hp[1][i] > 0 THEN Party(0)
              ELSE Waits(WhitedOut) \o Waits(Speech) \o Over) }

(* A move of two hits, each of them critical, or one that leaves the foe   *)
(* standing.  The next foe lowers a stat as it comes in.                   *)
MoveScripts(g) ==
  LET name == Names[g.pl]
      h == g.hp[2][g.foe]
      gone == Text(Fainted(1, "Karp")) \o
              (IF g.foe = 1 THEN Text(SentOut) \o FoeIn(2) \o Text(StatFell(0, name)) \o Menu
               ELSE Waits(Defeated) \o Waits(Speech) \o Over)
      used == Text(Used(0, name, "TACKLE"))
  IN  (IF h = MaxHp THEN {used \o FoeHp(h - 1) \o Text(Crit) \o FoeHp(0) \o Text(Crit) \o gone} ELSE {used \o FoeHp(0) \o gone})
      \cup (IF h = MaxHp THEN {used \o FoeHp(h - 1) \o r : r \in Replies(g)} ELSE {})
SwitchScripts(g, i) ==
  {Text(ComeBack(Names[g.pl])) \o Text(GoOut(Names[i])) \o PlIn(i) \o Text(Used(1, "Karp", "SPLASH")) \o Menu}
SendScripts(i) == {Text(GoOut(Names[i])) \o PlIn(i) \o Menu}
=============================================================================
