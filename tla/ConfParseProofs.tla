-------------------------- MODULE ConfParseProofs --------------------------
(***************************************************************************)
(* Proofs about the configuration parser of ConfParse.                     *)
(***************************************************************************)
EXTENDS ConfParse, TLAPS

(* A ruleset record of config.rulesets. *)
RuleSetRec == [name : Name, rules : Seq(Rule)]

(* The locals of parse_server(). *)
BlkRec == [kind : {"auth", "portal", "plat", NULL}, host : Value \cup {NULL},
           use_ssl : {0, 1, DEFAULT}, paths : [Range(PathField) -> Value \cup {DEFAULT}],
           http_port : Int \cup {DEFAULT}, ssl_port : Int \cup {DEFAULT}]

(***************************************************************************)
(* TypeOK is not inductive by itself: the token loop takes the head of     *)
(* `pending', the ruleset loop files rules under `rsname' and the server   *)
(* block appends to the list of `blk.kind', so each loop needs the value   *)
(* its opener set up.                                                      *)
(***************************************************************************)
IInv ==
  /\ TypeOK
  /\ mode = "trusted" => pending # <<>>
  /\ mode = "ruleset" => rsname \in Name
  /\ mode = "server" => blk.kind \in {"auth", "portal", "plat"}

-----------------------------------------------------------------------------
(* The word the rule parser stands on is a word, and what follows it too. *)
LEMMA CurAdvType ==
  ASSUME NEW ws \in Seq(Word)
  PROVE  Cur(ws) \in Word /\ Adv(ws) \in Seq(Word)
BY WordAssumption, SMTT(30) DEF Cur, Adv

(* A rule the mini-parser accepts is a well-formed t_firewall_rule.       *)
LEMMA ParseRuleType ==
  ASSUME NEW ws \in Seq(Word), ParseFirewallRule(ws).code = 1
  PROVE  ParseFirewallRule(ws).rule \in Rule
<1> DEFINE l1 == Adv(ws)
           l2 == IF Cur(l1) \in ProtoPrefixed THEN Adv(l1) ELSE l1
           l3 == IF Cur(l2) \in PortPrefixed THEN Adv(Adv(l2)) ELSE l2
<1>1. l1 \in Seq(Word) /\ l2 \in Seq(Word) /\ l3 \in Seq(Word)
  BY CurAdvType
<1>2. Cur(l1) \in Word /\ Cur(Adv(l2)) \in Word /\ Cur(Adv(l3)) \in Word
  BY <1>1, CurAdvType
<1> DEFINE tg == IF Cur(ws) = "block" \/ l1 = <<>> THEN "REJECT"
                 ELSE IF Cur(ws) \in DOMAIN TargetOf THEN TargetOf[Cur(ws)]
                 ELSE NULL
<1>3. ParseFirewallRule(ws).rule =
        [target   |-> tg,
         protocol |-> IF Cur(l1) \in ProtoPrefixed THEN Cur(l1) ELSE NULL,
         port     |-> IF Cur(l2) \in PortPrefixed THEN Cur(Adv(l2)) ELSE NULL,
         mask     |-> IF l3 = <<>> THEN DefaultMask ELSE Cur(Adv(l3))]
  BY ZenonT(30) DEF ParseFirewallRule
<1>4. tg # NULL
  BY SMTT(30) DEF ParseFirewallRule
<1>5. tg \in Targets
  BY <1>4, SMTT(30) DEF Targets, TargetOf
<1>6. QED
  BY <1>2, <1>3, <1>5, SMTT(30) DEF Rule

(* Overwriting an entry of a sequence, at an index inside or outside its  *)
(* domain, leaves a sequence over the same set.                           *)
LEMMA ExceptSeq ==
  ASSUME NEW S, NEW s \in Seq(S), NEW k, NEW x \in S
  PROVE  [s EXCEPT ![k] = x] \in Seq(S)
<1>1. CASE k \in DOMAIN s
  BY <1>1, SMTT(30)
<1>2. CASE k \notin DOMAIN s
  <2>1. [s EXCEPT ![k] = x] = s
    BY <1>2, SMTT(30)
  <2>2. QED
    BY <2>1
<1>3. QED
  BY <1>1, <1>2

(* Replacing the rules of a ruleset record keeps its name.                *)
LEMMA RulesExcept ==
  ASSUME NEW y \in RuleSetRec, NEW v
  PROVE  [y EXCEPT !.rules = v] = [name |-> y.name, rules |-> v]
BY SMTT(30) DEF RuleSetRec

(* Appending a rule keeps config.rulesets a list of rulesets.             *)
LEMMA AddRuleType ==
  ASSUME NEW rs \in Seq(RuleSetRec), NEW n \in Name, NEW r \in Rule
  PROVE  AddRule(rs, n, r) \in Seq(RuleSetRec)
<1>1. CASE \E i \in DOMAIN rs : rs[i].name = n
  <2> DEFINE i == FirstNamed(rs, n)
  <2>1. AddRule(rs, n, r) = [rs EXCEPT ![i] = [rs[i] EXCEPT !.rules = Append(@, r)]]
    BY <1>1, ZenonT(30) DEF AddRule
  <2>2. CASE i \in DOMAIN rs
    <3> DEFINE x == [rs[i] EXCEPT !.rules = Append(@, r)]
    <3>1. rs[i] \in RuleSetRec
      BY <2>2, SMTT(30)
    <3>2. x = [name |-> rs[i].name, rules |-> Append(rs[i].rules, r)]
      BY <3>1, RulesExcept
    <3>3. x \in RuleSetRec
      <4>1. rs[i].name \in Name /\ rs[i].rules \in Seq(Rule)
        BY <3>1, ZenonT(30) DEF RuleSetRec
      <4>2. Append(rs[i].rules, r) \in Seq(Rule)
        BY <4>1, SMTT(30)
      <4>3. QED
        BY <3>2, <4>1, <4>2, ZenonT(30) DEF RuleSetRec
    <3>4. [rs EXCEPT ![i] = x] \in Seq(RuleSetRec)
      BY <3>3, ExceptSeq
    <3>5. QED
      BY <2>1, <3>4
  <2>3. CASE i \notin DOMAIN rs
    <3>1. [rs EXCEPT ![i] = [rs[i] EXCEPT !.rules = Append(@, r)]] = rs
      BY <2>3, SMTT(30)
    <3>2. QED
      BY <2>1, <3>1
  <2>4. QED
    BY <2>2, <2>3
<1>2. CASE ~\E i \in DOMAIN rs : rs[i].name = n
  <2>1. AddRule(rs, n, r) = Append(rs, [name |-> n, rules |-> <<r>>])
    BY <1>2, ZenonT(30) DEF AddRule
  <2>2. [name |-> n, rules |-> <<r>>] \in RuleSetRec
    BY SMTT(30) DEF RuleSetRec
  <2>3. QED
    BY <2>1, <2>2, SMTT(30)
<1>3. QED
  BY <1>1, <1>2

(* Inserting a MAC keeps config.trustedmaclist a list of MACs.            *)
LEMMA AddTrustedMacType ==
  ASSUME NEW list \in Seq(Mac), NEW m \in Mac
  PROVE  AddTrustedMac(list, m) \in Seq(Mac)
BY SMTT(30) DEF AddTrustedMac

-----------------------------------------------------------------------------
(* config_init() leaves every field of the configuration well typed.      *)
LEMMA InitIInv == Init => IInv
<1> SUFFICES ASSUME Init PROVE IInv
  OBVIOUS
<1>1. DefaultServer \in Server
  BY ConstAssumption, SMTT(30) DEF DefaultServer, Server
<1>2. BlockStart(NULL) \in [kind : {"auth", "portal", "plat", NULL}, host : Value \cup {NULL},
        use_ssl : {0, 1, DEFAULT}, paths : [Range(PathField) -> Value \cup {DEFAULT}],
        http_port : Int \cup {DEFAULT}, ssl_port : Int \cup {DEFAULT}]
  BY SMTT(30) DEF BlockStart
<1>3. servers \in [Kinds -> Seq(Server)]
  BY <1>1, SMTT(30) DEF Init
<1>4. str \in [Range(StrField) -> Value \cup {NULL, DEFAULT}]
  BY SMTT(30) DEF Init
<1>5. num \in [Range(NumField) -> Int \cup {DEFAULT}]
  BY SMTT(30) DEF Init
<1>6. linenum \in 0..MaxLines /\ daemon \in {-1, 0, 1, DEFAULT}
  BY ConstAssumption, SMTT(30) DEF Init
<1>7. /\ rulesets \in Seq([name : Name, rules : Seq(Rule)])
      /\ rsname \in Name \cup {NULL} /\ trusted \in Seq(Mac)
      /\ pending \in Seq(Token) /\ accepted \in [Name -> Seq(Rule)]
      /\ seenMacs \subseteq Mac /\ lineMacs \subseteq Mac /\ ruleError \in BOOLEAN
  <2>1. /\ rulesets = <<>> /\ rsname = NULL /\ trusted = <<>> /\ pending = <<>>
        /\ accepted = [n \in Name |-> <<>>] /\ seenMacs = {} /\ lineMacs = {} /\ ruleError = FALSE
    BY ZenonT(30) DEF Init
  <2>2. rulesets \in Seq([name : Name, rules : Seq(Rule)])
    BY <2>1, SMTT(30)
  <2>3. accepted \in [Name -> Seq(Rule)]
    BY <2>1, SMTT(30)
  <2>4. trusted \in Seq(Mac) /\ pending \in Seq(Token)
    BY <2>1, SMTT(30)
  <2>5. QED
    BY <2>1, <2>2, <2>3, <2>4, ZenonT(30)
<1>8. mode = "top" /\ blk = BlockStart(NULL)
  BY ZenonT(30) DEF Init
<1>h1. blkLines = <<>> /\ blocks = [k \in Range(ServerKind) |-> <<>>]
  BY ZenonT(30) DEF Init
<1>h2. /\ blkLines \in Seq(ServerLines)
       /\ blocks \in [Range(ServerKind) -> Seq(Seq(ServerLines))]
  BY <1>h1, SMTT(30)
<1>9. TypeOK
  BY <1>2, <1>3, <1>4, <1>5, <1>6, <1>7, <1>8, <1>h2, SMTT(30) DEF TypeOK, Modes
<1>10. QED
  BY <1>8, <1>9, SMTT(30) DEF IInv


-----------------------------------------------------------------------------
(* A step that changes only the mode, the line count and the daemon flag, *)
(* and leaves no loop in progress, keeps the invariant.                   *)
LEMMA ModeOnly ==
  ASSUME IInv, mode' \in {"top", "eof", "read", "exited", "running"},
         linenum' \in 0..MaxLines, daemon' \in {-1, 0, 1, DEFAULT},
         UNCHANGED parseVars
  PROVE  IInv'
<1>1. /\ str' = str /\ num' = num /\ servers' = servers /\ blk' = blk
      /\ rulesets' = rulesets /\ rsname' = rsname /\ trusted' = trusted
      /\ pending' = pending /\ accepted' = accepted /\ seenMacs' = seenMacs
      /\ lineMacs' = lineMacs /\ ruleError' = ruleError
      /\ blkLines' = blkLines /\ blocks' = blocks
  BY ZenonT(30) DEF parseVars
<1>2. mode' \in Modes
  BY SMTT(30) DEF Modes
<1>3. TypeOK'
  BY <1>1, <1>2, SMTT(30) DEF IInv, TypeOK
<1>4. QED
  BY <1>3, SMTT(30) DEF IInv

(* The steps after the last line: config_read()'s end, config_validate()  *)
(* and config_init_override().                                            *)
LEMMA ConfigEndIInv ==
  ASSUME IInv, ConfigReadEnd \/ ConfigValidate \/ ConfigInitOverride \/ CloseRuleset
  PROVE  IInv'
<1>1. linenum' \in 0..MaxLines /\ UNCHANGED parseVars
  BY ZenonT(30) DEF IInv, TypeOK, ConfigReadEnd, ConfigValidate, ConfigInitOverride,
                CloseRuleset
<1>2. mode' \in {"top", "eof", "read", "exited", "running"}
  BY SMTT(30) DEF IInv, TypeOK, ConfigReadEnd, ConfigValidate, ConfigInitOverride,
             CloseRuleset
<1>3. daemon' \in {-1, 0, 1, DEFAULT}
  BY ZenonT(30) DEF IInv, TypeOK, ConfigReadEnd, ConfigValidate, ConfigInitOverride,
               CloseRuleset
<1>4. QED
  BY <1>1, <1>2, <1>3, ModeOnly


(* One token of parse_trusted_mac_list(): `pending' is not empty while the *)
(* loop runs, so its head is a token and the normalised MAC a MAC or NULL. *)
LEMMA TrustedMacTokenIInv ==
  ASSUME IInv, TrustedMacToken
  PROVE  IInv'
<1> DEFINE m == NormMac[Head(pending)]
<1>1. pending # <<>> /\ pending \in Seq(Token) /\ trusted \in Seq(Mac)
  BY ZenonT(30) DEF IInv, TypeOK, TrustedMacToken
<1>2. m \in Mac \cup {NULL}
  BY <1>1, ConstAssumption, SMTT(30)
<1>3. trusted' \in Seq(Mac)
  <2>1. CASE m = NULL
    BY <1>1, <2>1, ZenonT(30) DEF TrustedMacToken
  <2>2. CASE m # NULL
    <3>1. m \in Mac
      BY <1>2, <2>2, ZenonT(30)
    <3>2. QED
      BY <1>1, <2>2, <3>1, AddTrustedMacType, ZenonT(30) DEF TrustedMacToken
  <2>3. QED
    BY <2>1, <2>2
<1>4. seenMacs' \subseteq Mac
  BY <1>2, SMTT(30) DEF IInv, TypeOK, TrustedMacToken
<1>5. pending' \in Seq(Token) /\ (mode' = "trusted" => pending' # <<>>)
      /\ mode' \in {"top", "trusted"}
  BY <1>1, SMTT(30) DEF TrustedMacToken
<1>6. /\ linenum' = linenum /\ daemon' = daemon /\ str' = str /\ num' = num
      /\ servers' = servers /\ blk' = blk /\ rulesets' = rulesets
      /\ rsname' = rsname /\ accepted' = accepted /\ lineMacs' = lineMacs
      /\ ruleError' = ruleError /\ blkLines' = blkLines /\ blocks' = blocks
  BY ZenonT(30) DEF TrustedMacToken
<1>7. mode' \in Modes
  BY <1>5, SMTT(30) DEF Modes
<1>8. TypeOK'
  BY <1>3, <1>4, <1>5, <1>6, <1>7, SMTT(30) DEF IInv, TypeOK
<1>9. QED
  BY <1>5, <1>6, <1>8, SMTT(30) DEF IInv


(* The kinds a server block opener can give. *)
LEMMA ServerKindRange == Range(ServerKind) = {"auth", "portal", "plat"}
<1>1. DOMAIN ServerKind = {"oAuthServer", "oPortalServer", "oPlatServer"}
  BY ZenonT(30) DEF ServerKind
<1>2. /\ ServerKind["oAuthServer"] = "auth" /\ ServerKind["oPortalServer"] = "portal"
      /\ ServerKind["oPlatServer"] = "plat"
  BY ZenonT(30) DEF ServerKind
<1>3. QED
  BY <1>1, <1>2, ZenonT(30) DEF Range

(* The end of a server block files a well-formed t_serv under the list of *)
(* the block's kind, which the opener set to auth, portal or platform.    *)
LEMMA CloseServerIInv ==
  ASSUME IInv, CloseServer
  PROVE  IInv'
<1>1. PICK atEOF \in BOOLEAN, ip \in IP \cup {NULL} :
        /\ mode' = IF atEOF THEN "eof" ELSE "top"
        /\ servers' =
             IF blk.host = NULL THEN servers
             ELSE [servers EXCEPT ![blk.kind] = Append(@,
                     [host |-> blk.host, use_ssl |-> blk.use_ssl, paths |-> blk.paths,
                      http_port |-> blk.http_port, ssl_port |-> blk.ssl_port,
                      last_ip |-> IF blk.kind = "auth" THEN NULL ELSE ip])]
  BY ZenonT(30) DEF CloseServer
<1> DEFINE srv == [host |-> blk.host, use_ssl |-> blk.use_ssl, paths |-> blk.paths,
                   http_port |-> blk.http_port, ssl_port |-> blk.ssl_port,
                   last_ip |-> IF blk.kind = "auth" THEN NULL ELSE ip]
<1>2. blk.kind \in {"auth", "portal", "plat"} /\ servers \in [Kinds -> Seq(Server)]
  BY ZenonT(30) DEF IInv, TypeOK, CloseServer
<1>3. blk.host # NULL => srv \in Server
  BY ConstAssumption, SMTT(30) DEF IInv, TypeOK, Server
<1>4. servers' \in [Kinds -> Seq(Server)]
  <2>1. CASE blk.host = NULL
    BY <1>1, <1>2, <2>1, ZenonT(30)
  <2>2. CASE blk.host # NULL
    <3>1. servers' = [servers EXCEPT ![blk.kind] = Append(servers[blk.kind], srv)]
      BY <1>1, <2>2, ZenonT(30)
    <3>2. srv \in Server
      BY <1>3, <2>2
    <3>3. blk.kind \in Kinds
      BY <1>2, SMTT(30) DEF Kinds
    <3>4. QED
      BY <1>2, <3>1, <3>2, <3>3, SMTT(30)
  <2>3. QED
    BY <2>1, <2>2
<1>5. mode' \in {"top", "eof"}
  BY <1>1, SMTT(30)
<1>6. /\ linenum' = linenum /\ daemon' = daemon /\ str' = str /\ num' = num
      /\ blk' = blk /\ rulesets' = rulesets /\ rsname' = rsname
      /\ trusted' = trusted /\ pending' = pending /\ accepted' = accepted
      /\ seenMacs' = seenMacs /\ lineMacs' = lineMacs /\ ruleError' = ruleError
      /\ blkLines' = blkLines
  BY ZenonT(30) DEF CloseServer
<1>7. mode' \in Modes
  BY <1>5, SMTT(30) DEF Modes
<1>h. blocks' \in [Range(ServerKind) -> Seq(Seq(ServerLines))]
  <2>1. blocks' = [blocks EXCEPT ![blk.kind] = Append(blocks[blk.kind], blkLines)]
    BY ZenonT(30) DEF CloseServer
  <2>2. blk.kind \in Range(ServerKind)
    BY <1>2, ServerKindRange, ZenonT(30)
  <2>3. blocks \in [Range(ServerKind) -> Seq(Seq(ServerLines))]
        /\ blkLines \in Seq(ServerLines)
    BY ZenonT(30) DEF IInv, TypeOK
  <2>4. QED
    BY <2>1, <2>2, <2>3, SMTT(30)
<1>8. TypeOK'
  BY <1>4, <1>6, <1>7, <1>h, SMTT(30) DEF IInv, TypeOK
<1>9. QED
  BY <1>5, <1>8, SMTT(30) DEF IInv


(* A blank block line is no keyword of the table.                         *)
LEMMA EmptyWordNoKeyword == OpOf(EmptyWord) = "oBadOption"
BY ZenonT(30) DEF EmptyWord, OpOf, Keywords

(* One line of a FirewallRuleSet block: an accepted rule is well formed   *)
(* and is filed under the name the opener set.                            *)
LEMMA ReadRulesetLineIInv ==
  ASSUME IInv, ReadRulesetLine
  PROVE  IInv'
<1>1. PICK l \in RulesetLines :
        LET res == ParseFirewallRule(l.val) IN
        CASE l.kw = EmptyWord -> UNCHANGED <<mode, daemon, parseVars>>
          [] l.kw # EmptyWord /\ OpOf(l.kw) = "oFirewallRule" /\ res.code = 1 ->
               /\ rulesets' = AddRule(rulesets, rsname, res.rule)
               /\ accepted' = [accepted EXCEPT ![rsname] = Append(@, res.rule)]
               /\ UNCHANGED <<mode, daemon, str, num, servers, blk, rsname, trusted,
                              pending, seenMacs, lineMacs, ruleError, blkLines, blocks>>
          [] l.kw # EmptyWord /\ OpOf(l.kw) = "oFirewallRule" /\ res.code # 1 ->
               /\ ruleError' = TRUE
               /\ UNCHANGED <<mode, daemon, str, num, servers, blk, rulesets, rsname,
                              trusted, pending, accepted, seenMacs, lineMacs,
                              blkLines, blocks>>
          [] OTHER -> mode' = "exited" /\ UNCHANGED <<daemon, parseVars>>
  BY ZenonT(30) DEF ReadRulesetLine
<1> DEFINE res == ParseFirewallRule(l.val)
<1>a. linenum < MaxLines /\ linenum' = linenum + 1
  BY ZenonT(30) DEF ReadRulesetLine
<1>b. linenum \in 0..MaxLines
  BY ZenonT(30) DEF IInv, TypeOK
<1>2. linenum' \in 0..MaxLines
  BY <1>a, <1>b, ConstAssumption, SMTT(30)
<1>3. mode = "ruleset" /\ rsname \in Name
  BY SMTT(30) DEF IInv, ReadRulesetLine
<1>4. CASE l.kw = EmptyWord
  <2>1. OpOf(l.kw) # "oFirewallRule"
    BY <1>4, EmptyWordNoKeyword
  <2>2. UNCHANGED <<mode, daemon, parseVars>>
    BY <1>1, <1>4, <2>1, ZenonT(30)
  <2>3. QED
    BY <1>2, <1>3, <2>2, SMTT(30) DEF IInv, TypeOK, parseVars
<1>5. CASE l.kw # EmptyWord /\ OpOf(l.kw) = "oFirewallRule" /\ res.code = 1
  <2>1. /\ rulesets' = AddRule(rulesets, rsname, res.rule)
        /\ accepted' = [accepted EXCEPT ![rsname] = Append(@, res.rule)]
        /\ UNCHANGED <<mode, daemon, str, num, servers, blk, rsname, trusted,
                       pending, seenMacs, lineMacs, ruleError, blkLines, blocks>>
    BY <1>1, <1>5, ZenonT(30) DEF StrField, NumField, ServerKind
  <2>2. res.rule \in Rule
    BY <1>5, ConstAssumption, ParseRuleType, ZenonT(30)
  <2>3. rulesets' \in Seq(RuleSetRec)
    BY <1>3, <2>1, <2>2, AddRuleType, ZenonT(30) DEF IInv, TypeOK, RuleSetRec
  <2>4. accepted' \in [Name -> Seq(Rule)]
    BY <1>3, <2>1, <2>2, SMTT(30) DEF IInv, TypeOK
  <2>5. /\ mode' = mode /\ daemon' = daemon /\ str' = str /\ num' = num
        /\ servers' = servers /\ blk' = blk /\ rsname' = rsname
        /\ trusted' = trusted /\ pending' = pending /\ seenMacs' = seenMacs
        /\ lineMacs' = lineMacs /\ ruleError' = ruleError
        /\ blkLines' = blkLines /\ blocks' = blocks
    BY <2>1, ZenonT(30)
  <2>6. TypeOK'
    BY <1>2, <1>3, <2>3, <2>4, <2>5, SMTT(30) DEF IInv, TypeOK, RuleSetRec
  <2>7. QED
    BY <1>3, <2>5, <2>6, ZenonT(30) DEF IInv
<1>6. CASE l.kw # EmptyWord /\ OpOf(l.kw) = "oFirewallRule" /\ res.code # 1
  <2>1. /\ ruleError' = TRUE
        /\ UNCHANGED <<mode, daemon, str, num, servers, blk, rulesets, rsname,
                       trusted, pending, accepted, seenMacs, lineMacs,
                       blkLines, blocks>>
    BY <1>1, <1>6, ZenonT(30) DEF StrField, NumField, ServerKind
  <2>2. QED
    BY <1>2, <1>3, <2>1, SMTT(30) DEF IInv, TypeOK
<1>7. CASE l.kw # EmptyWord /\ OpOf(l.kw) # "oFirewallRule"
  <2>1. mode' = "exited" /\ UNCHANGED <<daemon, parseVars>>
    BY <1>1, <1>7, ZenonT(30)
  <2>2. mode' \in {"top", "eof", "read", "exited", "running"} /\ daemon' \in {-1, 0, 1, DEFAULT}
    BY <2>1, SMTT(30) DEF IInv, TypeOK
  <2>3. QED
    BY <1>2, <2>1, <2>2, ModeOnly
<1>8. QED
  BY <1>4, <1>5, <1>6, <1>7


(* One line of a server block sets one field of parse_server()'s locals   *)
(* to a value of its type, and never the kind of the block.               *)
LEMMA ReadServerLineIInv ==
  ASSUME IInv, ReadServerLine
  PROVE  IInv'
<1>1. PICK l \in ServerLines :
        LET op == OpOf(l.kw) IN
        IF l.kw = EmptyWord THEN UNCHANGED <<mode, daemon, parseVars>>
        ELSE /\ CASE op = "oServHostname" -> blk' = [blk EXCEPT !.host = l.val]
                  [] op \in DOMAIN PathField ->
                       blk' = [blk EXCEPT !.paths[PathField[op]] = l.val]
                  [] op = "oServSSLPort"  -> blk' = [blk EXCEPT !.ssl_port = Atoi(l.val)]
                  [] op = "oServHTTPPort" -> blk' = [blk EXCEPT !.http_port = Atoi(l.val)]
                  [] op = "oServSSLAvailable" -> blk' = [blk EXCEPT !.use_ssl = SSLFlag(l.val)]
                  [] op = "oLogServPort" -> UNCHANGED blk
                  [] OTHER -> UNCHANGED blk
             /\ mode' = IF op \in {"oServHostname", "oServSSLPort", "oServHTTPPort",
                                   "oServSSLAvailable", "oLogServPort"} \cup DOMAIN PathField
                        THEN "server" ELSE "exited"
             /\ blkLines' = Append(blkLines, l)
             /\ UNCHANGED <<daemon, str, num, servers, rulesets, rsname, trusted,
                            pending, accepted, seenMacs, lineMacs, ruleError, blocks>>
  BY ZenonT(30) DEF ReadServerLine
<1> DEFINE op == OpOf(l.kw)
<1>2. linenum' \in 0..MaxLines
  BY ConstAssumption, SMTT(30) DEF IInv, TypeOK, ReadServerLine
<1>3. mode = "server" /\ blk \in BlkRec /\ blk.kind \in {"auth", "portal", "plat"}
      /\ l.val \in Value
  BY ConstAssumption, ZenonT(30) DEF IInv, TypeOK, ReadServerLine, BlkRec
<1>4. CASE l.kw = EmptyWord
  BY <1>1, <1>2, <1>3, <1>4, ZenonT(30) DEF IInv, TypeOK, parseVars
<1>5. CASE l.kw # EmptyWord
  <2>0. (CASE op = "oServHostname" -> blk' = [blk EXCEPT !.host = l.val]
          [] op \in DOMAIN PathField ->
               blk' = [blk EXCEPT !.paths[PathField[op]] = l.val]
          [] op = "oServSSLPort"  -> blk' = [blk EXCEPT !.ssl_port = Atoi(l.val)]
          [] op = "oServHTTPPort" -> blk' = [blk EXCEPT !.http_port = Atoi(l.val)]
          [] op = "oServSSLAvailable" -> blk' = [blk EXCEPT !.use_ssl = SSLFlag(l.val)]
          [] op = "oLogServPort" -> UNCHANGED blk
          [] OTHER -> UNCHANGED blk)
    BY <1>1, <1>5, ZenonT(30)
  <2>1. blk' \in BlkRec /\ blk'.kind = blk.kind
    BY <2>0, <1>3, ConstAssumption, SMTT(30)
       DEF BlkRec, PathField, Range, Atoi, SSLFlag, ParseBoolean
  <2>2. mode' \in {"server", "exited"}
    BY <1>1, <1>5, ZenonT(30) DEF StrField, NumField, ServerKind
  <2>3. /\ daemon' = daemon /\ str' = str /\ num' = num /\ servers' = servers
        /\ rulesets' = rulesets /\ rsname' = rsname /\ trusted' = trusted
        /\ pending' = pending /\ accepted' = accepted /\ seenMacs' = seenMacs
        /\ lineMacs' = lineMacs /\ ruleError' = ruleError /\ blocks' = blocks
    BY <1>1, <1>5, ZenonT(30) DEF StrField, NumField, ServerKind
  <2>4. mode' \in Modes
    BY <2>2, SMTT(30) DEF Modes
  <2>h1. blkLines' = Append(blkLines, l) /\ blkLines \in Seq(ServerLines)
    BY <1>1, <1>5, ZenonT(30) DEF IInv, TypeOK
  <2>h2. blkLines' \in Seq(ServerLines)
    BY <2>h1, SMTT(30)
  <2>5. TypeOK'
    BY <1>2, <2>1, <2>3, <2>4, <2>h2, ZenonT(30) DEF IInv, TypeOK, BlkRec
  <2>6. QED
    BY <1>3, <2>1, <2>2, <2>5, SMTT(30) DEF IInv
<1>6. QED
  BY <1>4, <1>5


(* Overwriting one value of a function keeps it in its function set.     *)
LEMMA ExceptFun ==
  ASSUME NEW S, NEW T, NEW f \in [S -> T], NEW k, NEW v \in T
  PROVE  [f EXCEPT ![k] = v] \in [S -> T]
<1>1. CASE k \in S
  BY <1>1, SMTT(30)
<1>2. CASE k \notin S
  <2>1. [f EXCEPT ![k] = v] = f
    BY <1>2, SMTT(30)
  <2>2. QED
    BY <2>1
<1>3. QED
  BY <1>1, <1>2

(* The entries of a sequence over S are in S.                             *)
LEMMA RangeSeq ==
  ASSUME NEW S, NEW s \in Seq(S)
  PROVE  Range(s) \subseteq S
BY SMTT(30) DEF Range

(* What the dispatcher of config_read() can be handed, by ConstAssumption. *)
LEMMA TopLineValue ==
  ASSUME NEW l \in TopLines, l.val # NULL
  PROVE  /\ OpOf(l.kw) = "oTrustedMACList" =>
              l.val \in [word : Seq(Token) \ {<<>>}, rest : Seq(Token)]
         /\ OpOf(l.kw) = "oFirewallRuleSet" => l.val \in Name
         /\ OpOf(l.kw) \notin {"oTrustedMACList", "oFirewallRuleSet"} => l.val \in Value
<1>1. CASE OpOf(l.kw) = "oTrustedMACList"
  BY <1>1, ConstAssumption, ZenonT(30)
<1>2. CASE OpOf(l.kw) = "oFirewallRuleSet"
  BY <1>2, ConstAssumption, ZenonT(30)
<1>3. CASE OpOf(l.kw) \notin {"oTrustedMACList", "oFirewallRuleSet"}
  BY <1>3, ConstAssumption, ZenonT(30)
<1>4. QED
  BY <1>1, <1>2, <1>3


(* One top-level line: each directive sets a field to a value of its type, *)
(* and each block opener sets up what its loop needs.                      *)
(* The fresh locals of parse_server() (lines 321-329) are well typed. *)
LEMMA BlockStartType ==
  ASSUME NEW k \in {"auth", "portal", "plat", NULL}
  PROVE  BlockStart(k) \in BlkRec /\ BlockStart(k).kind = k
<1>1. [p \in Range(PathField) |-> DEFAULT] \in [Range(PathField) -> Value \cup {DEFAULT}]
  BY ZenonT(30)
<1>2. BlockStart(k) \in BlkRec
  BY <1>1, ZenonT(30) DEF BlockStart, BlkRec
<1>3. BlockStart(k).kind = k
  BY ZenonT(30) DEF BlockStart
<1>. QED BY <1>2, <1>3

LEMMA ReadTopLineIInv ==
  ASSUME IInv, ReadTopLine
  PROVE  IInv'
<1>1. PICK l \in TopLines :
       LET op == OpOf(l.kw) IN
       IF l.val = NULL \/ l.kw = "#" THEN UNCHANGED <<mode, daemon, parseVars>>
       ELSE CASE op = "oBadOption" ->
                   mode' = "exited" /\ UNCHANGED <<daemon, parseVars>>
              [] op = "oDaemon" ->
                   /\ daemon' = IF daemon = -1 /\ ParseBoolean(l.val) # -1
                                THEN ParseBoolean(l.val) ELSE daemon
                   /\ UNCHANGED <<mode, parseVars>>
              [] op \in DOMAIN StrField ->
                   /\ str' = [str EXCEPT ![StrField[op]] = l.val]
                   /\ UNCHANGED <<mode, daemon, num, servers, blk, rulesets, rsname,
                                  trusted, pending, accepted, seenMacs, lineMacs,
                                  ruleError, blkLines, blocks>>
              [] op \in DOMAIN NumField ->
                   /\ num' = IF ScanInt[l.val] = NULL THEN num
                             ELSE [num EXCEPT ![NumField[op]] = ScanInt[l.val]]
                   /\ UNCHANGED <<mode, daemon, str, servers, blk, rulesets, rsname,
                                  trusted, pending, accepted, seenMacs, lineMacs,
                                  ruleError, blkLines, blocks>>
              [] op \in DOMAIN ServerKind ->
                   /\ mode' = "server"
                   /\ blk' = BlockStart(ServerKind[op])
                   /\ UNCHANGED <<daemon, str, num, servers, rulesets, rsname,
                                  trusted, pending, accepted, seenMacs, lineMacs,
                                  ruleError, blocks>>
                   /\ blkLines' = <<>>
              [] op = "oFirewallRuleSet" ->
                   /\ mode' = "ruleset" /\ rsname' = l.val
                   /\ UNCHANGED <<daemon, str, num, servers, blk, rulesets,
                                  trusted, pending, accepted, seenMacs, lineMacs,
                                  ruleError, blkLines, blocks>>
              [] op = "oTrustedMACList" ->
                   /\ mode' = "trusted" /\ pending' = l.val.word
                   /\ lineMacs' = lineMacs \cup
                        ({NormMac[t] : t \in Range(l.val.word \o l.val.rest)} \ {NULL})
                   /\ UNCHANGED <<daemon, str, num, servers, blk, rulesets, rsname,
                                  trusted, accepted, seenMacs,
                                  ruleError, blkLines, blocks>>
              [] OTHER -> UNCHANGED <<mode, daemon, parseVars>>
  BY ZenonT(30) DEF ReadTopLine
<1> DEFINE op == OpOf(l.kw)
<1>a. mode = "top" /\ linenum < MaxLines /\ linenum' = linenum + 1
  BY ZenonT(30) DEF ReadTopLine
<1>b. linenum \in 0..MaxLines
  BY ZenonT(30) DEF IInv, TypeOK
<1>2. linenum' \in 0..MaxLines /\ mode = "top"
  BY <1>a, <1>b, ConstAssumption, SMTT(30)
<1>3. TypeOK
  BY DEF IInv
<1>4. CASE l.val = NULL \/ l.kw = "#"
  <2>1. UNCHANGED <<mode, daemon, parseVars>>
    BY <1>1, <1>4, ZenonT(30)
  <2>2. mode' \in {"top"} /\ daemon' \in {-1, 0, 1, DEFAULT}
    BY <1>2, <1>3, <2>1, ZenonT(30) DEF TypeOK
  <2>3. QED
    BY <1>2, <2>1, <2>2, ModeOnly, ZenonT(30)
<1>5. CASE l.val # NULL /\ l.kw # "#" /\ op = "oBadOption"
  <2>1. mode' = "exited" /\ UNCHANGED <<daemon, parseVars>>
    BY <1>1, <1>5, ZenonT(30) DEF StrField, NumField, ServerKind
  <2>2. QED
    BY <1>2, <1>3, <2>1, ModeOnly, SMTT(30) DEF TypeOK
<1>6. CASE l.val # NULL /\ l.kw # "#" /\ op = "oDaemon"
  <2>1. /\ daemon' = IF daemon = -1 /\ ParseBoolean(l.val) # -1
                     THEN ParseBoolean(l.val) ELSE daemon
        /\ UNCHANGED <<mode, parseVars>>
    BY <1>1, <1>6, ZenonT(30) DEF StrField, NumField, ServerKind
  <2>a. daemon \in {-1, 0, 1, DEFAULT}
    BY <1>3, ZenonT(30) DEF TypeOK
  <2>b. ParseBoolean(l.val) \in {-1, 0, 1}
    BY SMTT(30) DEF ParseBoolean
  <2>2. daemon' \in {-1, 0, 1, DEFAULT}
    BY <2>1, <2>a, <2>b, ZenonT(30)
  <2>3. QED
    BY <1>2, <2>1, <2>2, ModeOnly
<1>7. CASE l.val # NULL /\ l.kw # "#" /\ op \in DOMAIN StrField
  <2>1. /\ str' = [str EXCEPT ![StrField[op]] = l.val]
        /\ UNCHANGED <<mode, daemon, num, servers, blk, rulesets, rsname,
                       trusted, pending, accepted, seenMacs, lineMacs,
                       ruleError, blkLines, blocks>>
    BY <1>1, <1>7, ZenonT(30) DEF StrField, NumField, ServerKind
  <2>2. l.val \in Value
    BY <1>7, TopLineValue, ZenonT(30) DEF StrField
  <2>3. str' \in [Range(StrField) -> Value \cup {NULL, DEFAULT}]
    <3>1. str \in [Range(StrField) -> Value \cup {NULL, DEFAULT}]
      BY <1>3, ZenonT(30) DEF TypeOK
    <3>2. QED
      BY <2>1, <2>2, <3>1, ExceptFun, ZenonT(30)
  <2>4. QED
    BY <1>2, <1>3, <2>1, <2>3, SMTT(30) DEF IInv, TypeOK
<1>8. CASE l.val # NULL /\ l.kw # "#" /\ op \in DOMAIN NumField
  <2>1. /\ num' = IF ScanInt[l.val] = NULL THEN num
                  ELSE [num EXCEPT ![NumField[op]] = ScanInt[l.val]]
        /\ UNCHANGED <<mode, daemon, str, servers, blk, rulesets, rsname,
                       trusted, pending, accepted, seenMacs, lineMacs,
                       ruleError, blkLines, blocks>>
    BY <1>1, <1>8, ZenonT(30) DEF StrField, NumField, ServerKind
  <2>2. l.val \in Value
    BY <1>8, TopLineValue, ZenonT(30) DEF NumField
  <2>3. num' \in [Range(NumField) -> Int \cup {DEFAULT}]
    <3>1. num \in [Range(NumField) -> Int \cup {DEFAULT}]
      BY <1>3, ZenonT(30) DEF TypeOK
    <3>2. ScanInt[l.val] # NULL => ScanInt[l.val] \in Int \cup {DEFAULT}
      BY <2>2, ConstAssumption, SMTT(30)
    <3>3. CASE ScanInt[l.val] = NULL
      BY <2>1, <3>1, <3>3, ZenonT(30)
    <3>4. CASE ScanInt[l.val] # NULL
      <4>1. [num EXCEPT ![NumField[op]] = ScanInt[l.val]] \in [Range(NumField) -> Int \cup {DEFAULT}]
        BY <3>1, <3>2, <3>4, ExceptFun, ZenonT(30)
      <4>2. QED
        BY <2>1, <3>4, <4>1, ZenonT(30)
    <3>5. QED
      BY <3>3, <3>4
  <2>4. QED
    BY <1>2, <1>3, <2>1, <2>3, SMTT(30) DEF IInv, TypeOK
<1>9. CASE l.val # NULL /\ l.kw # "#" /\ op \in DOMAIN ServerKind
  <2>1. /\ mode' = "server"
        /\ blk' = BlockStart(ServerKind[op])
        /\ UNCHANGED <<daemon, str, num, servers, rulesets, rsname,
                       trusted, pending, accepted, seenMacs, lineMacs,
                       ruleError, blocks>>
        /\ blkLines' = <<>>
    BY <1>1, <1>9, ZenonT(30) DEF StrField, NumField, ServerKind
  <2>2. ServerKind[op] \in {"auth", "portal", "plat"}
    BY <1>9, SMTT(30) DEF ServerKind
  <2>3. blk' \in BlkRec /\ blk'.kind \in {"auth", "portal", "plat"}
    BY <2>1, <2>2, BlockStartType, ZenonT(30)
  <2>4. /\ daemon' = daemon /\ str' = str /\ num' = num /\ servers' = servers
        /\ rulesets' = rulesets /\ rsname' = rsname /\ trusted' = trusted
        /\ pending' = pending /\ accepted' = accepted /\ seenMacs' = seenMacs
        /\ lineMacs' = lineMacs /\ ruleError' = ruleError /\ blocks' = blocks
    BY <2>1, ZenonT(30)
  <2>h1. blkLines' = <<>>
    BY <2>1, ZenonT(30)
  <2>h2. blkLines' \in Seq(ServerLines)
    BY <2>h1, SMTT(30)
  <2>5. TypeOK'
    BY <1>2, <1>3, <2>1, <2>3, <2>4, <2>h2, ZenonT(30) DEF TypeOK, BlkRec, Modes
  <2>6. QED
    BY <2>1, <2>3, <2>5, ZenonT(30) DEF IInv
<1>10. CASE l.val # NULL /\ l.kw # "#" /\ op = "oFirewallRuleSet"
  <2>1. /\ mode' = "ruleset" /\ rsname' = l.val
        /\ UNCHANGED <<daemon, str, num, servers, blk, rulesets,
                       trusted, pending, accepted, seenMacs, lineMacs,
                       ruleError, blkLines, blocks>>
    BY <1>1, <1>10, ZenonT(30) DEF StrField, NumField, ServerKind
  <2>2. l.val \in Name
    BY <1>10, TopLineValue
  <2>a. /\ daemon' = daemon /\ str' = str /\ num' = num /\ servers' = servers
        /\ blk' = blk /\ rulesets' = rulesets /\ trusted' = trusted
        /\ pending' = pending /\ accepted' = accepted /\ seenMacs' = seenMacs
        /\ lineMacs' = lineMacs /\ ruleError' = ruleError
        /\ blkLines' = blkLines /\ blocks' = blocks
    BY <2>1, ZenonT(30)
  <2>3. TypeOK'
    BY <1>2, <1>3, <2>1, <2>2, <2>a, ZenonT(30) DEF TypeOK, Modes
  <2>4. QED
    BY <2>1, <2>2, <2>3, ZenonT(30) DEF IInv
<1>11. CASE l.val # NULL /\ l.kw # "#" /\ op = "oTrustedMACList"
  <2>1. /\ mode' = "trusted" /\ pending' = l.val.word
        /\ lineMacs' = lineMacs \cup
             ({NormMac[t] : t \in Range(l.val.word \o l.val.rest)} \ {NULL})
        /\ UNCHANGED <<daemon, str, num, servers, blk, rulesets, rsname,
                       trusted, accepted, seenMacs, ruleError, blkLines, blocks>>
    BY <1>1, <1>11, ZenonT(30) DEF StrField, NumField, ServerKind
  <2>2. l.val \in [word : Seq(Token) \ {<<>>}, rest : Seq(Token)]
    BY <1>11, TopLineValue
  <2>3. pending' \in Seq(Token) /\ pending' # <<>>
    BY <2>1, <2>2, ZenonT(30)
  <2>4. lineMacs' \subseteq Mac
    <3>1. Range(l.val.word \o l.val.rest) \subseteq Token
      <4>1. l.val.word \o l.val.rest \in Seq(Token)
        BY <2>2, SMTT(30)
      <4>2. QED
        BY <4>1, RangeSeq
    <3>2. {NormMac[t] : t \in Range(l.val.word \o l.val.rest)} \ {NULL} \subseteq Mac
      BY <3>1, ConstAssumption, ZenonT(30)
    <3>3. QED
      BY <1>3, <2>1, <3>2, ZenonT(30) DEF TypeOK
  <2>5. /\ daemon' = daemon /\ str' = str /\ num' = num /\ servers' = servers
        /\ blk' = blk /\ rulesets' = rulesets /\ rsname' = rsname
        /\ trusted' = trusted /\ accepted' = accepted /\ seenMacs' = seenMacs
        /\ ruleError' = ruleError /\ blkLines' = blkLines /\ blocks' = blocks
    BY <2>1, ZenonT(30)
  <2>6. TypeOK'
    BY <1>2, <1>3, <2>1, <2>3, <2>4, <2>5, ZenonT(30) DEF TypeOK, Modes
  <2>7. QED
    BY <2>1, <2>3, <2>6, ZenonT(30) DEF IInv
<1>12. CASE l.val # NULL /\ l.kw # "#" /\
            op \notin {"oBadOption", "oDaemon", "oFirewallRuleSet", "oTrustedMACList"}
               \cup DOMAIN StrField \cup DOMAIN NumField \cup DOMAIN ServerKind
  <2>1. UNCHANGED <<mode, daemon, parseVars>>
    BY <1>1, <1>12, ZenonT(30)
  <2>2. mode' \in {"top"} /\ daemon' \in {-1, 0, 1, DEFAULT}
    BY <1>2, <1>3, <2>1, ZenonT(30) DEF TypeOK
  <2>3. QED
    BY <1>2, <2>1, <2>2, ModeOnly, ZenonT(30)
<1>13. QED
  BY <1>4, <1>5, <1>6, <1>7, <1>8, <1>9, <1>10, <1>11, <1>12


-----------------------------------------------------------------------------
(* Every step of the parser, or a stutter, keeps the invariant.           *)
LEMMA NextIInv == IInv /\ [Next]_vars => IInv'
<1> SUFFICES ASSUME IInv, [Next]_vars PROVE IInv'
  OBVIOUS
<1>1. CASE ReadTopLine
  BY <1>1, ReadTopLineIInv
<1>2. CASE ReadServerLine
  BY <1>2, ReadServerLineIInv
<1>3. CASE CloseServer
  BY <1>3, CloseServerIInv
<1>4. CASE ReadRulesetLine
  BY <1>4, ReadRulesetLineIInv
<1>5. CASE TrustedMacToken
  BY <1>5, TrustedMacTokenIInv
<1>6. CASE CloseRuleset \/ ConfigReadEnd \/ ConfigValidate \/ ConfigInitOverride
  BY <1>6, ConfigEndIInv, ZenonT(30)
<1>7. CASE UNCHANGED vars
  BY <1>7, SMTT(30) DEF vars, IInv, TypeOK
<1>8. QED
  BY <1>1, <1>2, <1>3, <1>4, <1>5, <1>6, <1>7 DEF Next

(***************************************************************************)
(* Type correctness of the parser: in every run of config_init() and       *)
(* config_read(), whatever lines the file holds, every field of the        *)
(* configuration, every server list, the rulesets and the trusted list     *)
(* hold values of their C types.                                           *)
(***************************************************************************)
THEOREM TypeCorrect == Spec => []TypeOK
<1>1. Init => IInv
  BY InitIInv
<1>2. IInv /\ [Next]_vars => IInv'
  BY NextIInv
<1>3. IInv => TypeOK
  BY DEF IInv
<1>4. QED
  BY <1>1, <1>2, <1>3, PTL DEF Spec

=============================================================================
