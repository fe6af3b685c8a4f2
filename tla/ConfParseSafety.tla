-------------------------- MODULE ConfParseSafety --------------------------
(***************************************************************************)
(* Safety of the configuration parser of ConfParse, for every value of the *)
(* constants: ruleset names stay unique, get_ruleset() returns the rules  *)
(* of the file, and the trusted list holds exactly the MACs handed to   *)
(* it.  The proofs rest on the typing invariant IInv of ConfParseProofs   *)
(* and on one frame lemma per action: which lists it leaves alone.        *)
(***************************************************************************)
EXTENDS ConfParseProofs

(* The invariant the theorems below are proved from. *)
SInv == IInv /\ RulesetNamesUnique /\ TrustedMacsComplete

-----------------------------------------------------------------------------
(* A top-level line leaves the rulesets and the trusted list alone.       *)
LEMMA ReadTopLineFrame ==
  ASSUME ReadTopLine
  PROVE  /\ UNCHANGED <<rulesets, trusted, seenMacs, accepted>>
<1>1. PICK l \in TopLines :
       LET op == OpOf(l.kw) IN
       IF l.val = NULL \/ l.kw = "#" THEN UNCHANGED <<mode, daemon, parseVars>>
       ELSE CASE op = "oBadOption" ->
                   mode' = "exited" /\ UNCHANGED <<daemon, parseVars>>
              [] op = "oDaemon" ->
                   /\ daemon' = IF daemon = -1 /\ ParseBoolean(l.val) # -1
                                THEN ParseBoolean(l.val) ELSE daemon
                   /\ UNCHANGED <<mode, parseVars>>
              [] op \in DOMAIN StrField ->
                   /\ str' = [str EXCEPT ![StrField[op]] = l.val]
                   /\ UNCHANGED <<mode, daemon, num, servers, blk, rulesets, rsname,
                                  trusted, pending, accepted, seenMacs, lineMacs,
                                  ruleError, blkLines, blocks>>
              [] op \in DOMAIN NumField ->
                   /\ num' = IF ScanInt[l.val] = NULL THEN num
                             ELSE [num EXCEPT ![NumField[op]] = ScanInt[l.val]]
                   /\ UNCHANGED <<mode, daemon, str, servers, blk, rulesets, rsname,
                                  trusted, pending, accepted, seenMacs, lineMacs,
                                  ruleError, blkLines, blocks>>
              [] op \in DOMAIN ServerKind ->
                   /\ mode' = "server"
                   /\ blk' = BlockStart(ServerKind[op])
                   /\ UNCHANGED <<daemon, str, num, servers, rulesets, rsname,
                                  trusted, pending, accepted, seenMacs, lineMacs,
                                  ruleError, blocks>>
                   /\ blkLines' = <<>>
              [] op = "oFirewallRuleSet" ->
                   /\ mode' = "ruleset" /\ rsname' = l.val
                   /\ UNCHANGED <<daemon, str, num, servers, blk, rulesets,
                                  trusted, pending, accepted, seenMacs, lineMacs,
                                  ruleError, blkLines, blocks>>
              [] op = "oTrustedMACList" ->
                   /\ mode' = "trusted" /\ pending' = l.val.word
                   /\ lineMacs' = lineMacs \cup
                        ({NormMac[t] : t \in Range(l.val.word \o l.val.rest)} \ {NULL})
                   /\ UNCHANGED <<daemon, str, num, servers, blk, rulesets, rsname,
                                  trusted, accepted, seenMacs,
                                  ruleError, blkLines, blocks>>
              [] OTHER -> UNCHANGED <<mode, daemon, parseVars>>
  BY ZenonT(30) DEF ReadTopLine
<1> DEFINE op == OpOf(l.kw)
<1>2. mode = "top"
  BY ZenonT(30) DEF ReadTopLine
<1>3. CASE l.val = NULL \/ l.kw = "#"
  BY <1>1, <1>2, <1>3, ZenonT(30) DEF StrField, NumField, ServerKind, parseVars
<1>4. CASE l.val # NULL /\ l.kw # "#" /\ op = "oBadOption"
  BY <1>1, <1>2, <1>4, ZenonT(30) DEF StrField, NumField, ServerKind, parseVars
<1>5. CASE l.val # NULL /\ l.kw # "#" /\ op = "oDaemon"
  BY <1>1, <1>2, <1>5, ZenonT(30) DEF StrField, NumField, ServerKind, parseVars
<1>6. CASE l.val # NULL /\ l.kw # "#" /\ op \in DOMAIN StrField
  BY <1>1, <1>2, <1>6, ZenonT(30) DEF StrField, NumField, ServerKind, parseVars
<1>7. CASE l.val # NULL /\ l.kw # "#" /\ op \in DOMAIN NumField
  BY <1>1, <1>2, <1>7, ZenonT(30) DEF StrField, NumField, ServerKind, parseVars
<1>8. CASE l.val # NULL /\ l.kw # "#" /\ op \in DOMAIN ServerKind
  BY <1>1, <1>2, <1>8, ZenonT(30) DEF StrField, NumField, ServerKind, parseVars
<1>9. CASE l.val # NULL /\ l.kw # "#" /\ op = "oFirewallRuleSet"
  BY <1>1, <1>2, <1>9, ZenonT(30) DEF StrField, NumField, ServerKind, parseVars
<1>10. CASE l.val # NULL /\ l.kw # "#" /\ op = "oTrustedMACList"
  BY <1>1, <1>2, <1>10, ZenonT(30) DEF StrField, NumField, ServerKind, parseVars
<1>11. CASE l.val # NULL /\ l.kw # "#" /\
            op \notin {"oBadOption", "oDaemon", "oFirewallRuleSet", "oTrustedMACList"}
               \cup DOMAIN StrField \cup DOMAIN NumField \cup DOMAIN ServerKind
  BY <1>1, <1>2, <1>11, ZenonT(30) DEF StrField, NumField, ServerKind, parseVars
<1>12. QED
  BY <1>3, <1>4, <1>5, <1>6, <1>7, <1>8, <1>9, <1>10, <1>11

(* A server block line changes only the block's locals and the mode.      *)
LEMMA ReadServerLineFrame ==
  ASSUME ReadServerLine
  PROVE  /\ UNCHANGED <<rulesets, trusted, seenMacs, accepted>>
<1>1. PICK l \in ServerLines :
        LET op == OpOf(l.kw) IN
        IF l.kw = EmptyWord THEN UNCHANGED <<mode, daemon, parseVars>>
        ELSE /\ CASE op = "oServHostname" -> blk' = [blk EXCEPT !.host = l.val]
                  [] op \in DOMAIN PathField ->
                       blk' = [blk EXCEPT !.paths[PathField[op]] = l.val]
                  [] op = "oServSSLPort"  -> blk' = [blk EXCEPT !.ssl_port = Atoi(l.val)]
                  [] op = "oServHTTPPort" -> blk' = [blk EXCEPT !.http_port = Atoi(l.val)]
                  [] op = "oServSSLAvailable" -> blk' = [blk EXCEPT !.use_ssl = SSLFlag(l.val)]
                  [] op = "oLogServPort" -> UNCHANGED blk
                  [] OTHER -> UNCHANGED blk
             /\ mode' = IF op \in {"oServHostname", "oServSSLPort", "oServHTTPPort",
                                   "oServSSLAvailable", "oLogServPort"} \cup DOMAIN PathField
                        THEN "server" ELSE "exited"
             /\ blkLines' = Append(blkLines, l)
             /\ UNCHANGED <<daemon, str, num, servers, rulesets, rsname, trusted,
                            pending, accepted, seenMacs, lineMacs, ruleError, blocks>>
  BY ZenonT(30) DEF ReadServerLine
<1>2. mode = "server"
  BY ZenonT(30) DEF ReadServerLine
<1>3. CASE l.kw = EmptyWord
  BY <1>1, <1>2, <1>3, ZenonT(30) DEF parseVars
<1>4. CASE l.kw # EmptyWord
  BY <1>1, <1>4, ZenonT(30) DEF StrField, NumField, ServerKind
<1>5. QED
  BY <1>3, <1>4

(* The end of a server block files the server and goes back to the top.   *)
LEMMA CloseServerFrame ==
  ASSUME CloseServer
  PROVE  /\ UNCHANGED <<rulesets, trusted, seenMacs, accepted>>
BY ZenonT(30) DEF CloseServer

(* A ruleset line appends a rule under rsname, to the rulesets and to its *)
(* history alike, or changes neither.                                      *)
LEMMA ReadRulesetLineFrame ==
  ASSUME ReadRulesetLine
  PROVE  /\ UNCHANGED <<trusted, seenMacs>>
         /\ \/ UNCHANGED <<rulesets, accepted>>
            \/ \E l \in RulesetLines :
                 /\ ParseFirewallRule(l.val).code = 1
                 /\ OpOf(l.kw) = "oFirewallRule"
                 /\ rulesets' = AddRule(rulesets, rsname, ParseFirewallRule(l.val).rule)
                 /\ accepted' = [accepted EXCEPT ![rsname] =
                                   Append(@, ParseFirewallRule(l.val).rule)]
<1>1. PICK l \in RulesetLines :
        LET res == ParseFirewallRule(l.val) IN
        CASE l.kw = EmptyWord -> UNCHANGED <<mode, daemon, parseVars>>
          [] l.kw # EmptyWord /\ OpOf(l.kw) = "oFirewallRule" /\ res.code = 1 ->
               /\ rulesets' = AddRule(rulesets, rsname, res.rule)
               /\ accepted' = [accepted EXCEPT ![rsname] = Append(@, res.rule)]
               /\ UNCHANGED <<mode, daemon, str, num, servers, blk, rsname, trusted,
                              pending, seenMacs, lineMacs, ruleError, blkLines, blocks>>
          [] l.kw # EmptyWord /\ OpOf(l.kw) = "oFirewallRule" /\ res.code # 1 ->
               /\ ruleError' = TRUE
               /\ UNCHANGED <<mode, daemon, str, num, servers, blk, rulesets, rsname,
                              trusted, pending, accepted, seenMacs, lineMacs,
                              blkLines, blocks>>
          [] OTHER -> mode' = "exited" /\ UNCHANGED <<daemon, parseVars>>
  BY ZenonT(30) DEF ReadRulesetLine
<1> DEFINE res == ParseFirewallRule(l.val)
<1>2. mode = "ruleset"
  BY ZenonT(30) DEF ReadRulesetLine
<1>3. CASE l.kw = EmptyWord
  BY <1>1, <1>2, <1>3, ZenonT(30) DEF parseVars
<1>4. CASE l.kw # EmptyWord /\ OpOf(l.kw) = "oFirewallRule" /\ res.code = 1
  <2>1. /\ rulesets' = AddRule(rulesets, rsname, res.rule)
        /\ accepted' = [accepted EXCEPT ![rsname] = Append(@, res.rule)]
        /\ UNCHANGED <<mode, trusted, seenMacs>>
    BY <1>1, <1>4, ZenonT(30)
  <2>2. QED
    BY <1>2, <1>4, <2>1, ZenonT(30)
<1>5. CASE l.kw # EmptyWord /\ OpOf(l.kw) = "oFirewallRule" /\ res.code # 1
  BY <1>1, <1>2, <1>5, ZenonT(30)
<1>6. CASE l.kw # EmptyWord /\ OpOf(l.kw) # "oFirewallRule"
  <2>1. mode' = "exited" /\ UNCHANGED parseVars
    BY <1>1, <1>6, ZenonT(30)
  <2>2. QED
    BY <2>1, ZenonT(30) DEF parseVars
<1>7. QED
  BY <1>3, <1>4, <1>5, <1>6

(* A trusted-list token changes only the list, its history and pending.   *)
LEMMA TrustedMacTokenFrame ==
  ASSUME TrustedMacToken
  PROVE  /\ UNCHANGED <<rulesets, accepted>>
BY ZenonT(30) DEF TrustedMacToken

-----------------------------------------------------------------------------
(* No two rulesets of a list share a name. *)
UniqueNames(rs) == \A i, j \in DOMAIN rs : rs[i].name = rs[j].name => i = j

(* Appending a rule under a name never creates a second ruleset with it:  *)
(* the search of lines 734-738 finds the ruleset if there is one.        *)
LEMMA AddRuleNames ==
  ASSUME NEW rs \in Seq(RuleSetRec), UniqueNames(rs), NEW n \in Name, NEW r
  PROVE  UniqueNames(AddRule(rs, n, r))
<1>1. CASE \E i \in DOMAIN rs : rs[i].name = n
  <2> DEFINE i == FirstNamed(rs, n)
          new == [rs EXCEPT ![i] = [rs[i] EXCEPT !.rules = Append(@, r)]]
  <2>1. AddRule(rs, n, r) = new
    BY <1>1, ZenonT(30) DEF AddRule
  <2>2. DOMAIN new = DOMAIN rs
    BY SMTT(30)
  <2>3. \A k \in DOMAIN rs : new[k].name = rs[k].name
    <3> TAKE k \in DOMAIN rs
    <3>1. CASE k = i
      <4>1. rs[i] \in RuleSetRec
        BY <3>1, SMTT(30)
      <4>2. new[k] = [rs[i] EXCEPT !.rules = Append(rs[i].rules, r)]
        BY <3>1, SMTT(30)
      <4>3. [rs[i] EXCEPT !.rules = Append(rs[i].rules, r)]
              = [name |-> rs[i].name, rules |-> Append(rs[i].rules, r)]
        BY <4>1, RulesExcept
      <4>4. QED
        BY <3>1, <4>2, <4>3, SMTT(30)
    <3>2. CASE k # i
      BY <3>2, SMTT(30)
    <3>3. QED
      BY <3>1, <3>2
  <2>4. QED
    BY <2>1, <2>2, <2>3, SMTT(30) DEF UniqueNames
<1>2. CASE ~\E i \in DOMAIN rs : rs[i].name = n
  <2>1. AddRule(rs, n, r) = Append(rs, [name |-> n, rules |-> <<r>>])
    BY <1>2, ZenonT(30) DEF AddRule
  <2>2. QED
    BY <1>2, <2>1, SMTT(30) DEF UniqueNames
<1>3. QED
  BY <1>1, <1>2

(* Inserting a MAC leaves the list holding the MACs it held and the new   *)
(* one: when the check of lines 995-1002 skips it, it is already there.   *)
LEMMA AddTrustedMacRange ==
  ASSUME NEW list \in Seq(Mac), NEW m
  PROVE  Range(AddTrustedMac(list, m)) = Range(list) \cup {m}
<1>1. CASE list = <<>>
  BY <1>1, SMTT(30) DEF AddTrustedMac, Range
<1>2. CASE list # <<>> /\ m \in {list[1]} \cup {list[i] : i \in 1..Len(list) - 1}
  <2>1. AddTrustedMac(list, m) = list
    BY <1>2, ZenonT(30) DEF AddTrustedMac
  <2>2. m \in Range(list)
    BY <1>2, SMTT(30) DEF Range
  <2>3. QED
    BY <2>1, <2>2, ZenonT(30)
<1>3. CASE list # <<>> /\ m \notin {list[1]} \cup {list[i] : i \in 1..Len(list) - 1}
  <2>1. AddTrustedMac(list, m) = Append(list, m)
    BY <1>3, ZenonT(30) DEF AddTrustedMac
  <2>2. QED
    BY <2>1, SMTT(30) DEF Range
<1>4. QED
  BY <1>1, <1>2, <1>3

(* get_ruleset() on a given list of rulesets. *)
RulesIn(rs, name) ==
  IF \E i \in DOMAIN rs : rs[i].name = name
  THEN rs[FirstNamed(rs, name)].rules
  ELSE <<>>

(* On a list without twins, the searches of lines 734-738 and 766-771    *)
(* stop at the one ruleset with the name.                                  *)
LEMMA FirstNamedIsOnly ==
  ASSUME NEW rs \in Seq(RuleSetRec), UniqueNames(rs), NEW m,
         NEW i \in DOMAIN rs, rs[i].name = m
  PROVE  FirstNamed(rs, m) = i
<1>1. \A j \in 1..i-1 : rs[j].name # m
  BY SMTT(30) DEF UniqueNames
<1>2. FirstNamed(rs, m) \in DOMAIN rs /\ rs[FirstNamed(rs, m)].name = m
  BY <1>1, ZenonT(30) DEF FirstNamed
<1>. QED BY <1>2, ZenonT(30) DEF UniqueNames

(* Appending rule r under name n adds r at the end of what get_ruleset(n) *)
(* returns, and changes what it returns for no other name.                 *)
LEMMA RulesInAddRule ==
  ASSUME NEW rs \in Seq(RuleSetRec), UniqueNames(rs), NEW n \in Name,
         NEW r \in Rule, NEW m \in Name
  PROVE  RulesIn(AddRule(rs, n, r), m) =
           IF m = n THEN Append(RulesIn(rs, m), r) ELSE RulesIn(rs, m)
<1> DEFINE new == AddRule(rs, n, r)
<1>1. new \in Seq(RuleSetRec) /\ UniqueNames(new)
  BY AddRuleType, AddRuleNames
<1>2. CASE \E i \in DOMAIN rs : rs[i].name = n
  <2>1. PICK k \in DOMAIN rs : rs[k].name = n
    BY <1>2
  <2>2. FirstNamed(rs, n) = k
    BY <2>1, FirstNamedIsOnly
  <2>3. new = [rs EXCEPT ![k] = [rs[k] EXCEPT !.rules = Append(@, r)]]
    BY <1>2, <2>2, ZenonT(30) DEF AddRule
  <2>4. [rs[k] EXCEPT !.rules = Append(rs[k].rules, r)]
          = [name |-> n, rules |-> Append(rs[k].rules, r)]
    <3>1. rs[k] \in RuleSetRec
      BY SMTT(30)
    <3>2. [rs[k] EXCEPT !.rules = Append(rs[k].rules, r)]
            = [name |-> rs[k].name, rules |-> Append(rs[k].rules, r)]
      BY <3>1, RulesExcept
    <3>. QED BY <2>1, <3>2, ZenonT(30)
  <2>5. /\ DOMAIN new = DOMAIN rs
        /\ new[k] = [name |-> n, rules |-> Append(rs[k].rules, r)]
        /\ \A j \in DOMAIN rs \ {k} : new[j] = rs[j]
    BY <2>3, <2>4, SMTT(30)
  <2>6. CASE \E i \in DOMAIN rs : rs[i].name = m
    <3>1. PICK j \in DOMAIN rs : rs[j].name = m
      BY <2>6
    <3>2. j \in DOMAIN new /\ new[j].name = m
      BY <2>1, <2>5, <3>1, SMTT(30)
    <3>3. FirstNamed(rs, m) = j /\ FirstNamed(new, m) = j
      BY <1>1, <3>1, <3>2, FirstNamedIsOnly
    <3>4. RulesIn(rs, m) = rs[j].rules /\ RulesIn(new, m) = new[j].rules
      BY <3>1, <3>2, <3>3, ZenonT(30) DEF RulesIn
    <3>5. CASE m = n
      <4>1. j = k
        BY <2>1, <3>1, <3>5, SMTT(30) DEF UniqueNames
      <4>. QED BY <2>5, <3>4, <3>5, <4>1, SMTT(30)
    <3>6. CASE m # n
      <4>1. j # k
        BY <2>1, <3>1, <3>6, SMTT(30)
      <4>. QED BY <2>5, <3>4, <3>6, <4>1, SMTT(30)
    <3>. QED BY <3>5, <3>6
  <2>7. CASE ~\E i \in DOMAIN rs : rs[i].name = m
    <3>1. m # n /\ ~\E i \in DOMAIN new : new[i].name = m
      BY <2>1, <2>5, <2>7, SMTT(30)
    <3>. QED BY <2>7, <3>1, ZenonT(30) DEF RulesIn
  <2>. QED BY <2>6, <2>7
<1>3. CASE ~\E i \in DOMAIN rs : rs[i].name = n
  <2>1. new = Append(rs, [name |-> n, rules |-> <<r>>])
    BY <1>3, ZenonT(30) DEF AddRule
  <2>2. /\ DOMAIN new = 1..Len(rs) + 1
        /\ new[Len(rs) + 1] = [name |-> n, rules |-> <<r>>]
        /\ \A j \in DOMAIN rs : new[j] = rs[j]
    BY <2>1, SMTT(30)
  <2>3. CASE m = n
    <3>1. FirstNamed(new, m) = Len(rs) + 1
      BY <1>1, <2>2, <2>3, FirstNamedIsOnly, SMTT(30)
    <3>2. RulesIn(new, m) = <<r>>
      BY <2>2, <2>3, <3>1, SMTT(30) DEF RulesIn
    <3>3. RulesIn(rs, m) = <<>>
      BY <1>3, <2>3, ZenonT(30) DEF RulesIn
    <3>. QED BY <2>3, <3>2, <3>3, SMTT(30)
  <2>4. CASE m # n
    <3>1. CASE \E i \in DOMAIN rs : rs[i].name = m
      <4>1. PICK j \in DOMAIN rs : rs[j].name = m
        BY <3>1
      <4>2. j \in DOMAIN new /\ new[j] = rs[j]
        BY <2>2, SMTT(30)
      <4>3. FirstNamed(rs, m) = j /\ FirstNamed(new, m) = j
        BY <1>1, <4>1, <4>2, FirstNamedIsOnly
      <4>. QED BY <2>4, <4>1, <4>2, <4>3, ZenonT(30) DEF RulesIn
    <3>2. CASE ~\E i \in DOMAIN rs : rs[i].name = m
      <4>1. ~\E i \in DOMAIN new : new[i].name = m
        BY <2>2, <2>4, <3>2, SMTT(30)
      <4>. QED BY <2>4, <3>2, <4>1, ZenonT(30) DEF RulesIn
    <3>. QED BY <3>1, <3>2
  <2>. QED BY <2>3, <2>4
<1>. QED BY <1>2, <1>3

-----------------------------------------------------------------------------
(* config_init() starts with no ruleset, an empty trusted list and no      *)
(* finished parse.                                                         *)
LEMMA InitSInv == Init => SInv
<1> SUFFICES ASSUME Init PROVE SInv
  OBVIOUS
<1>1. rulesets = <<>> /\ trusted = <<>> /\ seenMacs = {} /\ mode = "top"
  BY ZenonT(30) DEF Init
<1>2. RulesetNamesUnique /\ TrustedMacsComplete
  BY <1>1, SMTT(30) DEF RulesetNamesUnique, TrustedMacsComplete, Range
<1>3. QED
  BY <1>2, InitIInv, ZenonT(30) DEF SInv

(* A step that leaves the rulesets and the trusted list alone keeps the   *)
(* invariant.                                                             *)
LEMMA UntouchedListsStep ==
  ASSUME SInv, IInv', UNCHANGED <<rulesets, trusted, seenMacs>>
  PROVE  SInv'
BY ZenonT(30) DEF SInv, RulesetNamesUnique, TrustedMacsComplete

(* A line of a FirewallRuleSet block files its rule under the ruleset of  *)
(* that name, so names stay unique.                                       *)
LEMMA ReadRulesetLineSInv ==
  ASSUME SInv, IInv', ReadRulesetLine
  PROVE  SInv'
<1>1. UNCHANGED <<trusted, seenMacs>>
  BY ReadRulesetLineFrame
<1>2. RulesetNamesUnique'
  <2>1. CASE UNCHANGED <<rulesets, accepted>>
    BY <2>1, ZenonT(30) DEF SInv, RulesetNamesUnique
  <2>2. CASE ~UNCHANGED <<rulesets, accepted>>
    <3>1. PICK l \in RulesetLines :
            rulesets' = AddRule(rulesets, rsname, ParseFirewallRule(l.val).rule)
      BY <2>2, ReadRulesetLineFrame
    <3>2. rulesets \in Seq(RuleSetRec) /\ rsname \in Name
      BY SMTT(30) DEF SInv, IInv, TypeOK, RuleSetRec, ReadRulesetLine
    <3>3. UniqueNames(rulesets)
      BY ZenonT(30) DEF SInv, RulesetNamesUnique, UniqueNames
    <3>4. UniqueNames(rulesets')
      BY <3>1, <3>2, <3>3, AddRuleNames
    <3>5. QED
      BY <3>4, ZenonT(30) DEF RulesetNamesUnique, UniqueNames
  <2>3. QED
    BY <2>1, <2>2
<1>3. QED
  BY <1>1, <1>2, ZenonT(30) DEF SInv, TrustedMacsComplete

(* A token of parse_trusted_mac_list() puts the MAC it normalised to, if  *)
(* any, into the list and into its history alike.                         *)
LEMMA TrustedMacTokenSInv ==
  ASSUME SInv, IInv', TrustedMacToken
  PROVE  SInv'
<1> DEFINE m == NormMac[Head(pending)]
<1>1. /\ trusted' = IF m = NULL THEN trusted ELSE AddTrustedMac(trusted, m)
      /\ seenMacs' = IF m = NULL THEN seenMacs ELSE seenMacs \cup {m}
  BY ZenonT(30) DEF TrustedMacToken
<1>2. trusted \in Seq(Mac) /\ Range(trusted) = seenMacs
  BY ZenonT(30) DEF SInv, IInv, TypeOK, TrustedMacsComplete
<1>3. TrustedMacsComplete'
  <2>1. CASE m = NULL
    BY <1>1, <1>2, <2>1, ZenonT(30) DEF TrustedMacsComplete
  <2>2. CASE m # NULL
    <3>1. Range(AddTrustedMac(trusted, m)) = Range(trusted) \cup {m}
      BY <1>2, AddTrustedMacRange
    <3>2. QED
      BY <1>1, <1>2, <2>2, <3>1, ZenonT(30) DEF TrustedMacsComplete
  <2>3. QED
    BY <2>1, <2>2
<1>4. UNCHANGED <<rulesets, accepted>>
  BY TrustedMacTokenFrame
<1>5. QED
  BY <1>3, <1>4, ZenonT(30) DEF SInv, RulesetNamesUnique

(* The end of config_read() and config_validate() change only the mode. *)
LEMMA ConfigChecksSInv ==
  ASSUME SInv, IInv', ConfigReadEnd \/ ConfigValidate
  PROVE  SInv'
<1>1. UNCHANGED parseVars
  BY ZenonT(30) DEF ConfigReadEnd, ConfigValidate
<1>2. QED
  BY <1>1, ZenonT(30) DEF SInv, RulesetNamesUnique, TrustedMacsComplete, parseVars

(* config_init_override() only resolves the daemon flag.                  *)
LEMMA ConfigInitOverrideSInv ==
  ASSUME SInv, IInv', ConfigInitOverride
  PROVE  SInv'
<1>1. UNCHANGED <<mode, parseVars>>
  BY ZenonT(30) DEF ConfigInitOverride
<1>2. QED
  BY <1>1, ZenonT(30) DEF SInv, RulesetNamesUnique, TrustedMacsComplete, parseVars

(* Every step of the parser, or a stutter, keeps the invariant.           *)
LEMMA NextSInv == SInv /\ [Next]_vars => SInv'
<1> SUFFICES ASSUME SInv, [Next]_vars PROVE SInv'
  OBVIOUS
<1>1. IInv'
  BY NextIInv DEF SInv
<1>2. CASE ReadTopLine
  BY <1>1, <1>2, ReadTopLineFrame, UntouchedListsStep
<1>3. CASE ReadServerLine
  BY <1>1, <1>3, ReadServerLineFrame, UntouchedListsStep
<1>4. CASE CloseServer
  BY <1>1, <1>4, CloseServerFrame, UntouchedListsStep
<1>5. CASE CloseRuleset
  <2>1. UNCHANGED <<rulesets, trusted, seenMacs>>
    BY <1>5, ZenonT(30) DEF CloseRuleset, parseVars
  <2>2. QED
    BY <1>1, <2>1, UntouchedListsStep
<1>6. CASE ReadRulesetLine
  BY <1>1, <1>6, ReadRulesetLineSInv
<1>7. CASE TrustedMacToken
  BY <1>1, <1>7, TrustedMacTokenSInv
<1>8. CASE ConfigReadEnd
  BY <1>1, <1>8, ConfigChecksSInv
<1>9. CASE ConfigValidate
  BY <1>1, <1>9, ConfigChecksSInv
<1>10. CASE ConfigInitOverride
  BY <1>1, <1>10, ConfigInitOverrideSInv
<1>11. CASE UNCHANGED vars
  <2>1. UNCHANGED <<rulesets, trusted, seenMacs>>
    BY <1>11, ZenonT(30) DEF vars
  <2>2. RulesetNamesUnique' /\ TrustedMacsComplete'
    BY <2>1, ZenonT(30) DEF SInv, RulesetNamesUnique, TrustedMacsComplete
  <2>3. QED
    BY <1>1, <2>2, ZenonT(30) DEF SInv
<1>12. QED
  BY <1>2, <1>3, <1>4, <1>5, <1>6, <1>7, <1>8, <1>9, <1>10, <1>11 DEF Next

-----------------------------------------------------------------------------
(***************************************************************************)
(* get_ruleset() can trust its first match: however the file reopens and  *)
(* interleaves FirewallRuleSet blocks, config.rulesets never holds two    *)
(* rulesets of one name (spec 3).                                         *)
(***************************************************************************)
THEOREM RulesetNamesStayUnique == Spec => []RulesetNamesUnique
<1>1. SInv => RulesetNamesUnique
  BY ZenonT(30) DEF SInv
<1>2. QED
  BY <1>1, InitSInv, NextSInv, PTL DEF Spec

(***************************************************************************)
(* The duplicate check of parse_trusted_mac_list() never drops a MAC that *)
(* is not yet trusted: the list holds exactly the MACs its tokens         *)
(* normalised to.                                                         *)
(***************************************************************************)
THEOREM TrustedListComplete == Spec => []TrustedMacsComplete
<1>1. SInv => TrustedMacsComplete
  BY ZenonT(30) DEF SInv
<1>2. QED
  BY <1>1, InitSInv, NextSInv, PTL DEF Spec

-----------------------------------------------------------------------------
(* RulesetsFollowFile rests on SInv: get_ruleset() trusts its first match *)
(* only because the names are unique.                                     *)
FInv == SInv /\ RulesetsFollowFile

(* Before the first line, no ruleset exists and no rule was read. *)
LEMMA InitFollow == Init => RulesetsFollowFile
<1> SUFFICES ASSUME Init PROVE RulesetsFollowFile
  OBVIOUS
<1>1. rulesets = <<>> /\ accepted = [n \in Name |-> <<>>]
  BY ZenonT(30) DEF Init
<1>2. \A n \in Name : GetRuleset(n) = <<>>
  BY <1>1, SMTT(30) DEF GetRuleset
<1>. QED BY <1>1, <1>2, ZenonT(30) DEF RulesetsFollowFile, RulesOfFile

(* Every step but an accepted firewall rule leaves both the rulesets and  *)
(* the history alone.                                                      *)
LEMMA FollowFrame ==
  ASSUME [Next]_vars, ~ReadRulesetLine
  PROVE  UNCHANGED <<rulesets, accepted>>
<1>1. CASE ReadTopLine
  BY <1>1, ReadTopLineFrame, ZenonT(30)
<1>2. CASE ReadServerLine
  BY <1>2, ReadServerLineFrame, ZenonT(30)
<1>3. CASE CloseServer
  BY <1>3, CloseServerFrame, ZenonT(30)
<1>4. CASE TrustedMacToken
  BY <1>4, TrustedMacTokenFrame, ZenonT(30)
<1>5. CASE CloseRuleset \/ ConfigReadEnd \/ ConfigValidate \/ ConfigInitOverride
  BY <1>5, ZenonT(30) DEF CloseRuleset, ConfigReadEnd, ConfigValidate,
                     ConfigInitOverride, parseVars
<1>6. CASE UNCHANGED vars
  BY <1>6, ZenonT(30) DEF vars
<1>. QED BY <1>1, <1>2, <1>3, <1>4, <1>5, <1>6 DEF Next

(* A step keeps the rulesets in line with the file. *)
LEMMA NextFollow == FInv /\ [Next]_vars => RulesetsFollowFile'
<1> SUFFICES ASSUME FInv, [Next]_vars PROVE RulesetsFollowFile'
  OBVIOUS
<1>1. CASE UNCHANGED <<rulesets, accepted>>
  BY <1>1, ZenonT(30) DEF FInv, RulesetsFollowFile, GetRuleset, RulesOfFile
<1>2. CASE ~UNCHANGED <<rulesets, accepted>>
  <2>1. ReadRulesetLine
    BY <1>2, FollowFrame
  <2>2. PICK l \in RulesetLines :
          /\ ParseFirewallRule(l.val).code = 1
          /\ OpOf(l.kw) = "oFirewallRule"
          /\ rulesets' = AddRule(rulesets, rsname, ParseFirewallRule(l.val).rule)
          /\ accepted' = [accepted EXCEPT ![rsname] =
                            Append(@, ParseFirewallRule(l.val).rule)]
    BY <1>2, <2>1, ReadRulesetLineFrame
  <2> DEFINE r == ParseFirewallRule(l.val).rule
  <2>3. r \in Rule
    BY <2>2, ConstAssumption, ParseRuleType, ZenonT(30)
  <2>4. /\ rulesets \in Seq(RuleSetRec) /\ rsname \in Name
        /\ accepted \in [Name -> Seq(Rule)]
    BY <2>1, SMTT(30) DEF FInv, SInv, IInv, TypeOK, RuleSetRec, ReadRulesetLine
  <2>5. UniqueNames(rulesets)
    BY ZenonT(30) DEF FInv, SInv, RulesetNamesUnique, UniqueNames
  <2>6. SUFFICES ASSUME NEW m \in Name PROVE GetRuleset(m)' = RulesOfFile(m)'
    BY ZenonT(30) DEF RulesetsFollowFile
  <2>7. GetRuleset(m)' = RulesIn(AddRule(rulesets, rsname, r), m)
    BY <2>2, ZenonT(30) DEF GetRuleset, RulesIn
  <2>8. RulesIn(AddRule(rulesets, rsname, r), m) =
          IF m = rsname THEN Append(RulesIn(rulesets, m), r) ELSE RulesIn(rulesets, m)
    BY <2>3, <2>4, <2>5, RulesInAddRule
  <2>9. RulesIn(rulesets, m) = accepted[m]
    BY ZenonT(30) DEF FInv, RulesetsFollowFile, GetRuleset, RulesIn, RulesOfFile
  <2>10. RulesOfFile(m)' =
           IF m = rsname THEN Append(accepted[m], r) ELSE accepted[m]
    BY <2>2, <2>4, SMTT(30) DEF RulesOfFile
  <2>. QED BY <2>7, <2>8, <2>9, <2>10, ZenonT(30)
<1>. QED BY <1>1, <1>2

(***************************************************************************)
(* What the firewall executor gets from get_ruleset(n) is exactly the     *)
(* rules parse_firewall_ruleset() accepted under n, in file order, for    *)
(* every name and however the FirewallRuleSet blocks of n are split and  *)
(* interleaved with other blocks (spec 3).                                *)
(***************************************************************************)
THEOREM RulesetsAlwaysFollowFile == Spec => []RulesetsFollowFile
<1>1. Init => FInv
  BY InitSInv, InitFollow DEF FInv
<1>2. FInv /\ [Next]_vars => FInv'
  BY NextSInv, NextFollow DEF FInv
<1>3. FInv => RulesetsFollowFile
  BY DEF FInv
<1>. QED BY <1>1, <1>2, <1>3, PTL DEF Spec

=============================================================================
