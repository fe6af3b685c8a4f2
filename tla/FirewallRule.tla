---------------------------- MODULE FirewallRule ----------------------------
(***************************************************************************)
(* The firewall-rule mini-parser of conf.c, _parse_firewall_rule().        *)
(*                                                                         *)
(* The C function walks the (already lower-cased) remainder of a           *)
(* "FirewallRule ..." line with the TO_NEXT_WORD macro, which cuts the     *)
(* current word at the next blank, skips the blanks after it and sets      *)
(* `finished' when the word it cut ended the string.  A line is modelled   *)
(* as the sequence of its words; a trailing blank leaves an empty word ""  *)
(* at the end (TO_NEXT_WORD then stops on it without setting finished).    *)
(* With this representation `finished' holds exactly when no word is left, *)
(* so the parser below tracks only the words still to read.                *)
(*                                                                         *)
(* Words are abstract: the character-level tests of the code (prefix       *)
(* compares with strncmp, the isdigit loops) are given as the sets of the  *)
(* words that pass them.                                                   *)
(***************************************************************************)
EXTENDS Integers, Sequences

CONSTANTS
  Word,           \* the lower-cased words a rule line can contain ("" included)
  ProtoPrefixed,  \* words w with strncmp(w,"tcp",3)=0, "udp" or "icmp" (4)
  PortPrefixed,   \* words w with strncmp(w,"port",4)=0
  Digits,         \* words made of isdigit() characters only ("" included)
  MaskChars,      \* words made of digits, '.' and '/' only ("" included)
  NULL            \* a field the parser leaves unset

(* The empty word: what TO_NEXT_WORD leaves at the end of the string.     *)
EmptyWord == ""

ASSUME WordAssumption ==
  /\ EmptyWord \in Word
  /\ {"block", "drop", "allow", "log", "ulog", "to"} \subseteq Word
  /\ ProtoPrefixed \subseteq Word \ {EmptyWord}
  /\ PortPrefixed \subseteq Word \ {EmptyWord}
  /\ Digits \subseteq MaskChars
  /\ MaskChars \subseteq Word
  /\ EmptyWord \in Digits
  /\ NULL \notin Word

(* The rule targets of t_firewall_target. *)
Targets == {"REJECT", "DROP", "ACCEPT", "LOG", "ULOG"}

(* The strcasecmp chain on the first word, lines 649-656. *)
TargetOf == [drop |-> "DROP", allow |-> "ACCEPT", log |-> "LOG", ulog |-> "ULOG"]

(* The mask stored when the rule has no "to" clause (line 721). *)
DefaultMask == "0.0.0.0/0"

(* A t_firewall_rule record. *)
Rule == [target : Targets, protocol : Word \cup {NULL},
         port : Word \cup {NULL}, mask : Word \cup {DefaultMask}]

(* The word TO_NEXT_WORD is standing on, and what is left after it.         *)
Cur(ws) == IF ws = <<>> THEN EmptyWord ELSE Head(ws)
Adv(ws) == IF ws = <<>> THEN <<>> ELSE Tail(ws)

(***************************************************************************)
(* _parse_firewall_rule(ruleset, leftover), lines 620-725: the result code *)
(* (1 on success, -1 bad target, -3 bad port or mask, -4 bad "to" clause)  *)
(* and, on success, the rule record the code builds.  Appending the rule   *)
(* to its ruleset (lines 727-757) is part of the caller's action in        *)
(* ConfParse.                                                              *)
(***************************************************************************)
ParseFirewallRule(ws) ==
  LET token    == Cur(ws)
      l1       == Adv(ws)
      \* a lone word is taken as "block", whatever it is (line 647)
      target   == IF token = "block" \/ l1 = <<>> THEN "REJECT"
                  ELSE IF token \in DOMAIN TargetOf THEN TargetOf[token]
                  ELSE NULL
      hasProto == Cur(l1) \in ProtoPrefixed
      l2       == IF hasProto THEN Adv(l1) ELSE l1
      hasPort  == Cur(l2) \in PortPrefixed
      port     == Cur(Adv(l2))
      l3       == IF hasPort THEN Adv(Adv(l2)) ELSE l2
      \* the optional "to <mask>" clause, read only if words are left
      kw       == Cur(l3)
      mask     == Cur(Adv(l3))
      code     == IF target = NULL THEN -1
                  ELSE IF hasPort /\ port \notin Digits THEN -3
                  ELSE IF l3 # <<>> /\ (kw # "to" \/ Adv(l3) = <<>>) THEN -4
                  ELSE IF l3 # <<>> /\ mask \notin MaskChars THEN -3
                  ELSE 1
  IN  [code |-> code,
       rule |-> [target   |-> target,
                 protocol |-> IF hasProto THEN Cur(l1) ELSE NULL,
                 port     |-> IF hasPort THEN port ELSE NULL,
                 mask     |-> IF l3 = <<>> THEN DefaultMask ELSE mask]]

=============================================================================
