--------------------------- MODULE MCFirewallRule ---------------------------
(***************************************************************************)
(* _parse_firewall_rule() against the rule grammar of spec 4.4, over every *)
(* line of at most MaxWords words of a small alphabet.                     *)
(***************************************************************************)
EXTENDS FirewallRule, SequencesExt

CONSTANTS
  MinWords, MaxWords,  \* bounds on the number of non-blank words
  Trailing             \* subset of BOOLEAN: whether a line ends with a blank

MCWord == {"", "block", "drop", "allow", "log", "ulog", "to", "foo",
           "tcp", "port", "80", "10.0.0.0/8"}
MCProtoPrefixed == {"tcp"}
MCPortPrefixed == {"port"}
MCDigits == {"", "80"}
MCMaskChars == {"", "80", "10.0.0.0/8"}

(* Lines: non-empty words, followed by a trailing blank when Trailing     *)
(* allows one.  parse_firewall_ruleset() skips the blanks before the      *)
(* first word but keeps those before a '#' comment or the end of line.   *)
Lines == UNION {[1..n -> Word \ {""}] : n \in MinWords..MaxWords}
Inputs == {IF b THEN Append(ws, "") ELSE ws : ws \in Lines \ {<<>>}, b \in Trailing}
            \cup (Lines \cap {<<>>})

(* Rule lines without the alphabet's unknown words and "port", so that    *)
(* only what follows the last word tells the parsers apart.               *)
MCWordTail == {"", "block", "drop", "allow", "log", "ulog", "tcp", "to", "10.0.0.0/8"}
MCNoPort == {}
MCDigitsTail == {""}
MCMaskTail == {"", "10.0.0.0/8"}

VARIABLE line

Init == line \in Inputs
Next == UNCHANGED line

Spec == Init /\ [][Next]_line

(***************************************************************************)
(* The grammar of spec 4.4, stated as a split of the line into its         *)
(* optional parts:  target [protocol] ["port" port] ["to" mask], where a   *)
(* port is one or more digits and a mask is non-empty.  The first word is  *)
(* always the target ("an unrecognized non-empty target token is a parse  *)
(* failure"); only an empty line has none, and it means "block".          *)
(***************************************************************************)
Opt(S) == {<<>>} \cup {<<w>> : w \in S}
Grammar ==
  {g \in [t : Opt({"block"} \cup DOMAIN TargetOf), p : Opt(ProtoPrefixed),
          po : Opt(Digits \ {""}), m : Opt(MaskChars \ {""})] :
     g.t = <<>> => g.p = <<>> /\ g.po = <<>> /\ g.m = <<>>}
Words(g) == g.t \o g.p \o (IF g.po = <<>> THEN <<>> ELSE <<"port">> \o g.po)
                  \o (IF g.m = <<>> THEN <<>> ELSE <<"to">> \o g.m)
SpecRule(g) ==
  [target   |-> IF g.t \in {<<>>, <<"block">>} THEN "REJECT" ELSE TargetOf[g.t[1]],
   protocol |-> IF g.p = <<>> THEN NULL ELSE g.p[1],
   port     |-> IF g.po = <<>> THEN NULL ELSE g.po[1],
   mask     |-> IF g.m = <<>> THEN DefaultMask ELSE g.m[1]]

(***************************************************************************)
(* _parse_firewall_rule() accepts a line exactly when the grammar derives  *)
(* it, and then builds the rule the grammar gives it (spec 4.4 and the     *)
(* examples of spec 8: "block" alone is a reject rule, "foo" is refused). *)
(* The grammar is whitespace-delimited: a trailing blank is no word.       *)
(***************************************************************************)
RuleParserMatchesGrammar ==
  LET words == IF line # <<>> /\ line[Len(line)] = "" THEN Front(line) ELSE line
      res   == ParseFirewallRule(line)
      gs    == {g \in Grammar : Words(g) = words}
  IN  /\ (res.code = 1) = (gs # {})
      /\ \A g \in gs : res.rule = SpecRule(g)
=============================================================================
