----------------------------- MODULE ConfParse -----------------------------
(***************************************************************************)
(* The configuration parser of conf.c: config_init(), the line loop of     *)
(* config_read() with its directive dispatch, the nested block parsers     *)
(* parse_server() and parse_firewall_ruleset(), the token loop of          *)
(* parse_trusted_mac_list(), and config_validate().                        *)
(*                                                                         *)
(* The file is not fixed in advance: each step that reads a line picks it  *)
(* from the input alphabet of the current parser (TopLines, ServerLines,   *)
(* RulesetLines), or hits end of file.  A line is a record                *)
(* [kw |-> first word, val |-> what the code passes on]:                   *)
(*   - kw "#" is a top-level line whose first word starts with '#';        *)
(*   - kw "}" is a block line that contains '}' anywhere (strchr test);    *)
(*   - kw "" is a block line left empty after stripping blanks/comments;   *)
(*   - val NULL is a top-level line with no word after the keyword;        *)
(*   - a TrustedMACList val is [word, rest]: the comma-separated tokens of *)
(*     its first space-free word, and the tokens after the first space;    *)
(*   - a FirewallRule val is the sequence of words of the rule.            *)
(* Keywords are matched against the code's keyword table.                  *)
(***************************************************************************)
EXTENDS Integers, Sequences, FiniteSets, Functions, FirewallRule

CONSTANTS
  Value,        \* directive values (strings the code copies with strdup)
  Name,         \* firewall ruleset names
  Token,        \* raw tokens of a TrustedMACList value
  Mac,          \* normalised MAC strings
  NormMac,      \* [Token -> Mac \cup {NULL}]: sscanf(" %17[A-Fa-f0-9:]")
  ScanInt,      \* [Value -> Int \cup {NULL}]: sscanf("%d"), NULL if no digits
  IP,           \* addresses wd_gethostbyname() can return
  DEFAULT,      \* a compiled-in default of conf.h
  TopLines, ServerLines, RulesetLines,
  MaxLines      \* bound on the number of lines read

(***************************************************************************)
(* The keyword table keywords[] of lines 109-152 (lower-case names; the    *)
(* lookup is strcasecmp) and config_parse_token() of lines 290-302.        *)
(***************************************************************************)
Keywords ==
  [daemon |-> "oDaemon", debuglevel |-> "oDebugLevel",
   externalinterface |-> "oExternalInterface", gatewayid |-> "oGatewayID",
   devid |-> "oDevID", gatewayinterface |-> "oGatewayInterface",
   gatewayaddress |-> "oGatewayAddress", gatewayport |-> "oGatewayPort",
   authserver |-> "oAuthServer", portalserver |-> "oPortalServer",
   platformserver |-> "oPlatServer", logserver |-> "oLogServer",
   httpdmaxconn |-> "oHTTPDMaxConn", httpdname |-> "oHTTPDName",
   httpdrealm |-> "oHTTPDRealm", httpdusername |-> "oHTTPDUsername",
   httpdpassword |-> "oHTTPDPassword", clienttimeout |-> "oClientTimeout",
   checkinterval |-> "oCheckInterval", authinterval |-> "oAuthInterval",
   syslogfacility |-> "oSyslogFacility", wdctlsocket |-> "oWdctlSocket",
   hostname |-> "oServHostname", sslavailable |-> "oServSSLAvailable",
   sslport |-> "oServSSLPort", httpport |-> "oServHTTPPort",
   logport |-> "oLogServPort", path |-> "oServPath",
   loginscriptpathfragment |-> "oServLoginScriptPathFragment",
   portalscriptpathfragment |-> "oServPortalScriptPathFragment",
   msgscriptpathfragment |-> "oServMsgScriptPathFragment",
   pingscriptpathfragment |-> "oServPingScriptPathFragment",
   authscriptpathfragment |-> "oServAuthScriptPathFragment",
   firewallruleset |-> "oFirewallRuleSet", firewallrule |-> "oFirewallRule",
   trustedmaclist |-> "oTrustedMACList", htmlmessagefile |-> "oHtmlMessageFile",
   proxyport |-> "oProxyPort"]

OpOf(kw) == IF kw \in DOMAIN Keywords THEN Keywords[kw] ELSE "oBadOption"

(* The string fields of s_config that config_read() sets with strdup.      *)
StrField ==
  [oExternalInterface |-> "external_interface", oGatewayID |-> "gw_id",
   oDevID |-> "dev_id", oGatewayInterface |-> "gw_interface",
   oGatewayAddress |-> "gw_address", oHTTPDName |-> "httpdname",
   oHTTPDRealm |-> "httpdrealm", oHTTPDUsername |-> "httpdusername",
   oHTTPDPassword |-> "httpdpassword", oWdctlSocket |-> "wdctl_sock",
   oHtmlMessageFile |-> "htmlmsgfile"]

(* The int fields of s_config that config_read() sets with sscanf("%d").   *)
NumField ==
  [oGatewayPort |-> "gw_port", oHTTPDMaxConn |-> "httpdmaxconn",
   oCheckInterval |-> "checkinterval", oAuthInterval |-> "authinterval",
   oClientTimeout |-> "clienttimeout", oSyslogFacility |-> "syslog_facility",
   oProxyPort |-> "proxy_port"]

(* The path fields of a server block, set with free + strdup.              *)
PathField ==
  [oServPath |-> "path", oServLoginScriptPathFragment |-> "login",
   oServPortalScriptPathFragment |-> "portal",
   oServMsgScriptPathFragment |-> "msg", oServPingScriptPathFragment |-> "ping",
   oServAuthScriptPathFragment |-> "auth"]

(* The server list each block opener appends to (parse_server's `type'). *)
ServerKind == [oAuthServer |-> "auth", oPortalServer |-> "portal",
               oPlatServer |-> "plat"]

Kinds == {"auth", "portal", "plat", "log", "update"}

ASSUME ConstAssumption ==
  /\ NULL \notin Value \cup Name \cup Mac \cup IP /\ DEFAULT \notin Value \cup {NULL}
  /\ NormMac \in [Token -> Mac \cup {NULL}]
  /\ ScanInt \in [Value -> Int \cup {NULL}]
  /\ MaxLines \in Nat
  /\ \A l \in TopLines :
       CASE OpOf(l.kw) = "oTrustedMACList" /\ l.val # NULL ->
              l.val \in [word : Seq(Token) \ {<<>>}, rest : Seq(Token)]
         [] OpOf(l.kw) = "oFirewallRuleSet" -> l.val \in Name \cup {NULL}
         [] OTHER -> l.val \in Value \cup {NULL}
  /\ \A l \in ServerLines : l.val \in Value
  /\ \A l \in RulesetLines : OpOf(l.kw) = "oFirewallRule" => l.val \in Seq(Word)

(***************************************************************************)
(* parse_boolean_value(), lines 944-961: yes/no in any case, "1", "0".     *)
(***************************************************************************)
YesSpellings == {"yes", "yeS", "yEs", "yES", "Yes", "YeS", "YEs", "YES"}
NoSpellings  == {"no", "nO", "No", "NO"}
ParseBoolean(v) == CASE v \in YesSpellings \cup {"1"} -> 1
                     [] v \in NoSpellings \cup {"0"}  -> 0
                     [] OTHER                         -> -1

(* atoi(): the leading integer, 0 when there is none. *)
Atoi(v) == IF ScanInt[v] = NULL THEN 0 ELSE ScanInt[v]

(* The clamp of a bad SSLAvailable value forgotten: the -1 of            *)
(* parse_boolean_value() is stored.                                         *)
SSLFlagUnclamped(v) == ParseBoolean(v)

(* SSLAvailable in a server block, lines 402-405: a bad value counts as no. *)
SSLFlag(v) == IF ParseBoolean(v) < 0 THEN 0 ELSE ParseBoolean(v)

(* A t_serv record, with path and fragments as one function. *)
Server == [host : Value \cup {DEFAULT}, use_ssl : {0, 1, DEFAULT},
           paths : [Range(PathField) -> Value \cup {DEFAULT}],
           http_port : Int \cup {DEFAULT}, ssl_port : Int \cup {DEFAULT},
           last_ip : IP \cup {NULL}]

(* The locals of parse_server() with their defaults, lines 327-336.       *)
BlockStart(kind) ==
  [kind |-> kind, host |-> NULL, use_ssl |-> DEFAULT,
   paths |-> [p \in Range(PathField) |-> DEFAULT],
   http_port |-> DEFAULT, ssl_port |-> DEFAULT]

(* The default log and update server of config_init(), lines 219-273.      *)
DefaultServer ==
  [host |-> DEFAULT, use_ssl |-> DEFAULT, paths |-> [p \in Range(PathField) |-> DEFAULT],
   http_port |-> DEFAULT, ssl_port |-> DEFAULT, last_ip |-> NULL]

VARIABLES
  mode,       \* which loop of the parser runs, or how parsing ended
  linenum,    \* lines read so far
  daemon,     \* config.daemon: -1 unset, 0 or 1
  str,        \* the string fields of config (NULL when unset)
  num,        \* the int fields of config
  servers,    \* [Kinds -> Seq(Server)]: the five server lists
  blk,        \* parse_server()'s locals while a server block is read
  rulesets,   \* config.rulesets: Seq([name, rules])
  rsname,     \* the name passed to parse_firewall_ruleset()
  trusted,    \* config.trustedmaclist: Seq(Mac)
  pending,    \* tokens strsep() has still to return in parse_trusted_mac_list
  accepted,   \* history: accepted[n], the rules appended under name n, in file order
  seenMacs,   \* history: every MAC handed to the trusted-list insertion
  lineMacs,   \* history: every MAC written on a TrustedMACList line
  ruleError,  \* history: a FirewallRule line was rejected by the mini-parser
  blkLines,   \* history: the lines of the server block being read
  blocks      \* history: blocks[k], the line lists of the closed blocks of kind k

vars == <<mode, linenum, daemon, str, num, servers, blk, rulesets, rsname,
          trusted, pending, accepted, seenMacs, lineMacs, ruleError, blkLines, blocks>>

parseVars == <<str, num, servers, blk, rulesets, rsname, trusted, pending,
               accepted, seenMacs, lineMacs, ruleError, blkLines, blocks>>

Modes == {"top", "server", "ruleset", "trusted", "eof", "read", "exited", "running"}

(***************************************************************************)
(* config_init(), lines 172-249.  main() parses the command line, which    *)
(* may set config.daemon, before config_read(): daemon starts as -1, 0 or 1 *)
(***************************************************************************)
Init ==
  /\ mode = "top"
  /\ linenum = 0
  /\ daemon \in {-1, 0, 1}
  /\ str = [f \in Range(StrField) |->
              IF f \in {"dev_id", "httpdrealm", "wdctl_sock", "htmlmsgfile"}
              THEN DEFAULT ELSE NULL]
  /\ num = [f \in Range(NumField) |-> IF f = "proxy_port" THEN 0 ELSE DEFAULT]
  /\ servers = [k \in Kinds |-> IF k \in {"log", "update"}
                                THEN <<DefaultServer>> ELSE <<>>]
  /\ blk = BlockStart(NULL)
  /\ rulesets = <<>>
  /\ rsname = NULL
  /\ trusted = <<>>
  /\ pending = <<>>
  /\ accepted = [n \in Name |-> <<>>]
  /\ seenMacs = {}
  /\ lineMacs = {}
  /\ ruleError = FALSE
  /\ blkLines = <<>>
  /\ blocks = [k \in Range(ServerKind) |-> <<>>]

-----------------------------------------------------------------------------
(***************************************************************************)
(* One iteration of config_read()'s loop, lines 794-930.  A line with no   *)
(* value or whose first word starts with '#' is skipped; an unknown        *)
(* keyword is fatal; keywords that only make sense inside a block fall     *)
(* through the switch and are ignored.                                     *)
(***************************************************************************)
ReadTopLine ==
  /\ mode = "top" /\ linenum < MaxLines
  /\ linenum' = linenum + 1
  /\ \E l \in TopLines :
       LET op == OpOf(l.kw) IN
       IF l.val = NULL \/ l.kw = "#" THEN UNCHANGED <<mode, daemon, parseVars>>
       ELSE CASE op = "oBadOption" ->
                   mode' = "exited" /\ UNCHANGED <<daemon, parseVars>>
              [] op = "oDaemon" ->
                   /\ daemon' = IF daemon = -1 /\ ParseBoolean(l.val) # -1
                                THEN ParseBoolean(l.val) ELSE daemon
                   /\ UNCHANGED <<mode, parseVars>>
              [] op \in DOMAIN StrField ->
                   /\ str' = [str EXCEPT ![StrField[op]] = l.val]
                   /\ UNCHANGED <<mode, daemon, num, servers, blk, rulesets, rsname,
                                  trusted, pending, accepted, seenMacs, lineMacs,
                                  ruleError, blkLines, blocks>>
              [] op \in DOMAIN NumField ->
                   /\ num' = IF ScanInt[l.val] = NULL THEN num
                             ELSE [num EXCEPT ![NumField[op]] = ScanInt[l.val]]
                   /\ UNCHANGED <<mode, daemon, str, servers, blk, rulesets, rsname,
                                  trusted, pending, accepted, seenMacs, lineMacs,
                                  ruleError, blkLines, blocks>>
              [] op \in DOMAIN ServerKind ->
                   /\ mode' = "server"
                   /\ blk' = BlockStart(ServerKind[op])
                   /\ UNCHANGED <<daemon, str, num, servers, rulesets, rsname,
                                  trusted, pending, accepted, seenMacs, lineMacs,
                                  ruleError, blocks>>
                   /\ blkLines' = <<>>
              [] op = "oFirewallRuleSet" ->
                   /\ mode' = "ruleset" /\ rsname' = l.val
                   /\ UNCHANGED <<daemon, str, num, servers, blk, rulesets,
                                  trusted, pending, accepted, seenMacs, lineMacs,
                                  ruleError, blkLines, blocks>>
              [] op = "oTrustedMACList" ->
                   \* only the first space-free word reaches the list parser
                   /\ mode' = "trusted" /\ pending' = l.val.word
                   /\ lineMacs' = lineMacs \cup
                        ({NormMac[t] : t \in Range(l.val.word \o l.val.rest)} \ {NULL})
                   /\ UNCHANGED <<daemon, str, num, servers, blk, rulesets, rsname,
                                  trusted, accepted, seenMacs,
                                  ruleError, blkLines, blocks>>
              [] OTHER -> UNCHANGED <<mode, daemon, parseVars>>

(***************************************************************************)
(* One iteration of parse_server()'s loop, lines 340-424, on a line that   *)
(* holds no '}'.  Every opcode outside the server subset is fatal.         *)
(***************************************************************************)
ReadServerLine ==
  /\ mode = "server" /\ linenum < MaxLines
  /\ linenum' = linenum + 1
  /\ \E l \in ServerLines :
       LET op == OpOf(l.kw) IN
       IF l.kw = EmptyWord THEN UNCHANGED <<mode, daemon, parseVars>>
       ELSE /\ CASE op = "oServHostname" -> blk' = [blk EXCEPT !.host = l.val]
                 [] op \in DOMAIN PathField ->
                      blk' = [blk EXCEPT !.paths[PathField[op]] = l.val]
                 [] op = "oServSSLPort"  -> blk' = [blk EXCEPT !.ssl_port = Atoi(l.val)]
                 [] op = "oServHTTPPort" -> blk' = [blk EXCEPT !.http_port = Atoi(l.val)]
                 [] op = "oServSSLAvailable" -> blk' = [blk EXCEPT !.use_ssl = SSLFlag(l.val)]
                 [] op = "oLogServPort" -> UNCHANGED blk
                 [] OTHER -> UNCHANGED blk
            /\ mode' = IF op \in {"oServHostname", "oServSSLPort", "oServHTTPPort",
                                  "oServSSLAvailable", "oLogServPort"} \cup DOMAIN PathField
                       THEN "server" ELSE "exited"
            /\ blkLines' = Append(blkLines, l)
            /\ UNCHANGED <<daemon, str, num, servers, rulesets, rsname, trusted,
                           pending, accepted, seenMacs, lineMacs, ruleError, blocks>>

(* The end of parse_server() without the test of line 427: a block with   *)
(* no Hostname is appended too.                                            *)
CloseServerKeepsHostless ==
  /\ mode = "server"
  /\ \E atEOF \in BOOLEAN, ip \in IP \cup {NULL} :
       /\ mode' = IF atEOF THEN "eof" ELSE "top"
       /\ servers' = [servers EXCEPT ![blk.kind] = Append(@,
                       [host |-> blk.host, use_ssl |-> blk.use_ssl, paths |-> blk.paths,
                        http_port |-> blk.http_port, ssl_port |-> blk.ssl_port,
                        last_ip |-> IF blk.kind = "auth" THEN NULL ELSE ip])]
       /\ (blk.host = NULL \/ blk.kind = "auth") => ip = NULL
  /\ blocks' = [blocks EXCEPT ![blk.kind] = Append(@, blkLines)]
  /\ UNCHANGED <<linenum, daemon, str, num, blk, rulesets, rsname, trusted,
                 pending, accepted, seenMacs, lineMacs, ruleError, blkLines>>

(***************************************************************************)
(* The end of parse_server(), lines 426-520: the loop ends on a line with  *)
(* '}' or at end of file.  A block without Hostname is dropped; otherwise  *)
(* the server is appended to its list, and portal and platform servers     *)
(* get the address wd_gethostbyname() returns, if it returns one.         *)
(***************************************************************************)
CloseServer ==
  /\ mode = "server"
  /\ \E atEOF \in BOOLEAN, ip \in IP \cup {NULL} :
       /\ mode' = IF atEOF THEN "eof" ELSE "top"
       /\ servers' =
            IF blk.host = NULL THEN servers
            ELSE [servers EXCEPT ![blk.kind] = Append(@,
                    [host |-> blk.host, use_ssl |-> blk.use_ssl, paths |-> blk.paths,
                     http_port |-> blk.http_port, ssl_port |-> blk.ssl_port,
                     last_ip |-> IF blk.kind = "auth" THEN NULL ELSE ip])]
       /\ (blk.host = NULL \/ blk.kind = "auth") => ip = NULL
  /\ blocks' = [blocks EXCEPT ![blk.kind] = Append(@, blkLines)]
  /\ UNCHANGED <<linenum, daemon, str, num, blk, rulesets, rsname, trusted,
                 pending, accepted, seenMacs, lineMacs, ruleError, blkLines>>

(***************************************************************************)
(* Appending a parsed rule, lines 727-757: the rule goes to the end of the *)
(* first ruleset with that name, or to a new ruleset at the end of the     *)
(* list.                                                                   *)
(***************************************************************************)
FirstNamed(rs, name) ==
  CHOOSE i \in DOMAIN rs : rs[i].name = name /\ \A j \in 1..i-1 : rs[j].name # name

(* The search for the ruleset written as a test of the first one only.    *)
AddRuleFirstOnly(rs, name, r) ==
  IF rs # <<>> /\ rs[1].name = name
  THEN [rs EXCEPT ![1].rules = Append(@, r)]
  ELSE Append(rs, [name |-> name, rules |-> <<r>>])

(* The rule linked in at the head of the ruleset's list, not at its tail. *)
AddRuleAtHead(rs, name, r) ==
  IF \E i \in DOMAIN rs : rs[i].name = name
  THEN [rs EXCEPT ![FirstNamed(rs, name)].rules = <<r>> \o @]
  ELSE Append(rs, [name |-> name, rules |-> <<r>>])

AddRule(rs, name, r) ==
  IF \E i \in DOMAIN rs : rs[i].name = name
  THEN [rs EXCEPT ![FirstNamed(rs, name)].rules = Append(@, r)]
  ELSE Append(rs, [name |-> name, rules |-> <<r>>])

(***************************************************************************)
(* One iteration of parse_firewall_ruleset()'s loop, lines 562-612, on a   *)
(* line that holds no '}': a FirewallRule line goes to the mini-parser,    *)
(* whose result code the caller ignores (line 599); any other keyword is   *)
(* fatal.                                                                  *)
(***************************************************************************)
ReadRulesetLine ==
  /\ mode = "ruleset" /\ linenum < MaxLines
  /\ linenum' = linenum + 1
  /\ \E l \in RulesetLines :
       LET res == ParseFirewallRule(l.val) IN
       CASE l.kw = EmptyWord -> UNCHANGED <<mode, daemon, parseVars>>
         [] l.kw # EmptyWord /\ OpOf(l.kw) = "oFirewallRule" /\ res.code = 1 ->
              /\ rulesets' = AddRule(rulesets, rsname, res.rule)
              /\ accepted' = [accepted EXCEPT ![rsname] = Append(@, res.rule)]
              /\ UNCHANGED <<mode, daemon, str, num, servers, blk, rsname, trusted,
                             pending, seenMacs, lineMacs, ruleError, blkLines, blocks>>
         [] l.kw # EmptyWord /\ OpOf(l.kw) = "oFirewallRule" /\ res.code # 1 ->
              /\ ruleError' = TRUE
              /\ UNCHANGED <<mode, daemon, str, num, servers, blk, rulesets, rsname,
                             trusted, pending, accepted, seenMacs, lineMacs,
                             blkLines, blocks>>
         [] OTHER -> mode' = "exited" /\ UNCHANGED <<daemon, parseVars>>

(* The end of parse_firewall_ruleset(): a '}' line or end of file.        *)
CloseRuleset ==
  /\ mode = "ruleset"
  /\ \E atEOF \in BOOLEAN : mode' = IF atEOF THEN "eof" ELSE "top"
  /\ UNCHANGED <<linenum, daemon, parseVars>>

(***************************************************************************)
(* Inserting a MAC into the trusted list, lines 982-1010.  The duplicate  *)
(* check compares the head, then every entry that has a successor: the     *)
(* last entry of a list of two or more is never compared.                  *)
(***************************************************************************)
(* The first comparison inverted: any MAC other than the head is skipped. *)
AddTrustedMacInverted(list, m) ==
  IF list = <<>> THEN <<m>>
  ELSE IF m # list[1] \/ m \in {list[i] : i \in 1..Len(list) - 1} THEN list
  ELSE Append(list, m)

AddTrustedMac(list, m) ==
  IF list = <<>> THEN <<m>>
  ELSE IF m \in {list[1]} \cup {list[i] : i \in 1..Len(list) - 1} THEN list
  ELSE Append(list, m)

(***************************************************************************)
(* One iteration of parse_trusted_mac_list()'s strsep loop, lines 976-1013:*)
(* the token is normalised by sscanf and, if that yields a MAC, inserted.  *)
(***************************************************************************)
TrustedMacToken ==
  /\ mode = "trusted"
  /\ LET m == NormMac[Head(pending)] IN
       /\ trusted' = IF m = NULL THEN trusted ELSE AddTrustedMac(trusted, m)
       /\ seenMacs' = IF m = NULL THEN seenMacs ELSE seenMacs \cup {m}
  /\ pending' = Tail(pending)
  /\ mode' = IF Tail(pending) = <<>> THEN "top" ELSE "trusted"
  /\ UNCHANGED <<linenum, daemon, str, num, servers, blk, rulesets, rsname,
                 accepted, lineMacs, ruleError, blkLines, blocks>>

(***************************************************************************)
(* The end of config_read(), lines 933-938: HTTPDUserName without          *)
(* HTTPDPassword is fatal.                                                 *)
(***************************************************************************)
ConfigReadEnd ==
  /\ mode \in {"top", "eof"}
  /\ mode' = IF str["httpdusername"] # NULL /\ str["httpdpassword"] = NULL
             THEN "exited" ELSE "read"
  /\ UNCHANGED <<linenum, daemon, parseVars>>

(***************************************************************************)
(* config_validate() and config_notnull(), lines 1022-1044: a missing      *)
(* GatewayInterface or an empty auth server list is fatal.                 *)
(***************************************************************************)
ConfigValidate ==
  /\ mode = "read"
  /\ mode' = IF str["gw_interface"] = NULL \/ servers["auth"] = <<>>
             THEN "exited" ELSE "running"
  /\ UNCHANGED <<linenum, daemon, parseVars>>

(***************************************************************************)
(* config_init_override(), lines 282-285, called by main() once the file   *)
(* is read: an unset daemon flag takes the default.                        *)
(***************************************************************************)
ConfigInitOverride ==
  /\ mode \in {"read", "running"} /\ daemon = -1
  /\ daemon' = DEFAULT
  /\ UNCHANGED <<mode, linenum, parseVars>>

Next ==
  \/ ReadTopLine \/ ReadServerLine \/ CloseServer
  \/ ReadRulesetLine \/ CloseRuleset \/ TrustedMacToken
  \/ ConfigReadEnd \/ ConfigValidate \/ ConfigInitOverride

Spec == Init /\ [][Next]_vars

-----------------------------------------------------------------------------
(* The shape of every variable. *)
TypeOK ==
  /\ mode \in Modes
  /\ linenum \in 0..MaxLines
  /\ daemon \in {-1, 0, 1, DEFAULT}
  /\ str \in [Range(StrField) -> Value \cup {NULL, DEFAULT}]
  /\ num \in [Range(NumField) -> Int \cup {DEFAULT}]
  /\ servers \in [Kinds -> Seq(Server)]
  /\ blk \in [kind : {"auth", "portal", "plat", NULL}, host : Value \cup {NULL},
              use_ssl : {0, 1, DEFAULT}, paths : [Range(PathField) -> Value \cup {DEFAULT}],
              http_port : Int \cup {DEFAULT}, ssl_port : Int \cup {DEFAULT}]
  /\ rulesets \in Seq([name : Name, rules : Seq(Rule)])
  /\ rsname \in Name \cup {NULL}
  /\ trusted \in Seq(Mac)
  /\ pending \in Seq(Token)
  /\ accepted \in [Name -> Seq(Rule)]
  /\ seenMacs \subseteq Mac
  /\ lineMacs \subseteq Mac
  /\ ruleError \in BOOLEAN
  /\ blkLines \in Seq(ServerLines)
  /\ blocks \in [Range(ServerKind) -> Seq(Seq(ServerLines))]

(***************************************************************************)
(* get_ruleset(), lines 762-774: the rules of the first ruleset so named.  *)
(***************************************************************************)
GetRuleset(name) ==
  IF \E i \in DOMAIN rulesets : rulesets[i].name = name
  THEN rulesets[FirstNamed(rulesets, name)].rules
  ELSE <<>>

(* The rules the file gave ruleset `name', in the order the file gave them. *)
RulesOfFile(name) == accepted[name]

(***************************************************************************)
(* The firewall executor asks get_ruleset() for a ruleset by name and      *)
(* evaluates its rules in order.  Across any number of FirewallRuleSet     *)
(* blocks, reopened or interleaved, the list it gets is exactly the rules  *)
(* the file gave that name, in file order (spec 4.4 and 8).                *)
(***************************************************************************)
RulesetsFollowFile ==
  \A n \in Name : GetRuleset(n) = RulesOfFile(n)

(***************************************************************************)
(* config.rulesets is keyed by name (spec 3): however often a name is     *)
(* reopened, the append of lines 733-745 never creates a second ruleset   *)
(* with it, so get_ruleset() cannot miss rules filed under a later twin.  *)
(***************************************************************************)
RulesetNamesUnique ==
  \A i, j \in DOMAIN rulesets : rulesets[i].name = rulesets[j].name => i = j

(***************************************************************************)
(* A server block read by itself: each field takes the value of the last  *)
(* line of the block that sets it, converted as parse_server() converts   *)
(* it, or its default when no line does (spec 3 and 4.2).                 *)
(***************************************************************************)
SetBy(ls, op) == {i \in DOMAIN ls : OpOf(ls[i].kw) = op}

LastSet(ls, op, dflt, Conv(_)) ==
  IF SetBy(ls, op) = {} THEN dflt
  ELSE Conv(ls[CHOOSE i \in SetBy(ls, op) : \A j \in SetBy(ls, op) : j <= i].val)

FromBlock(ls) ==
  [host |-> LastSet(ls, "oServHostname", NULL, LAMBDA v : v),
   use_ssl |-> LastSet(ls, "oServSSLAvailable", DEFAULT, SSLFlag),
   paths |-> [p \in Range(PathField) |->
                LastSet(ls, CHOOSE o \in DOMAIN PathField : PathField[o] = p,
                        DEFAULT, LAMBDA v : v)],
   http_port |-> LastSet(ls, "oServHTTPPort", DEFAULT, Atoi),
   ssl_port |-> LastSet(ls, "oServSSLPort", DEFAULT, Atoi)]

(* The closed blocks of kind k that named a host, in file order. *)
KeptBlocks(k) == SelectSeq(blocks[k], LAMBDA ls : SetBy(ls, "oServHostname") # {})

(* A server record without the address the resolver filled in. *)
Parsed(srv) == [f \in {"host", "use_ssl", "paths", "http_port", "ssl_port"} |-> srv[f]]

(***************************************************************************)
(* Auth, portal and platform servers are exactly the blocks of the file   *)
(* that named a Hostname, in file order, each built from its own lines    *)
(* only: parse_server() reseeds every default at each block, lets a later *)
(* line override an earlier one, drops a block without Hostname (line     *)
(* 427) and appends at the tail of the list.                              *)
(***************************************************************************)
ServersFollowFile ==
  \A k \in Range(ServerKind) :
    /\ Len(servers[k]) = Len(KeptBlocks(k))
    /\ \A i \in 1..Len(servers[k]) : Parsed(servers[k][i]) = FromBlock(KeptBlocks(k)[i])

(***************************************************************************)
(* Every MAC that a TrustedMACList token normalised to is in the trusted   *)
(* list, and nothing else is: the duplicate check of parse_trusted_mac_list *)
(* never drops a new address.                                              *)
(***************************************************************************)
TrustedMacsComplete == Range(trusted) = seenMacs

(***************************************************************************)
(* The trusted list holds each normalised MAC once (spec 3 and 4.6: a      *)
(* value is inserted only if no existing entry equals it).                 *)
(***************************************************************************)
TrustedMacsDistinct == IsInjective(trusted)

(***************************************************************************)
(* Every MAC written on a TrustedMACList line, with tokens separated by    *)
(* commas or spaces, is trusted once the line is parsed (spec 4.6).       *)
(***************************************************************************)
TrustedListKeepsAllTokens == mode # "trusted" => lineMacs \subseteq Range(trusted)

(***************************************************************************)
(* A firewall rule the mini-parser rejects aborts the process: the parser *)
(* never carries on after one (spec 7).                                    *)
(***************************************************************************)
InvalidRuleIsFatal == ruleError => mode = "exited"

=============================================================================
