------------------------------ MODULE RulePanels ------------------------------
(***************************************************************************)
(* The two panels of the dashboard that change what the detection does:    *)
(* the configuration sheet (frontend/src/components/DetectionConfig.tsx),  *)
(* with its tabs of thresholds and suppression rules, and the incidents    *)
(* (IncidentsPanel.tsx), which suppress a source through a dialog.  Both   *)
(* work on the configuration of the backend; what the endpoints do, one    *)
(* request at a time, is in Apply, and how they do it is RuntimeConfig.    *)
(*                                                                         *)
(* A step is a handler up to its next await, what follows an answer, or    *)
(* the server taking up a request.  Requests are served, and answered, in  *)
(* any order; one may fail before the server sees it or after.             *)
(*                                                                         *)
(* The analyst of a behaviour changes thresholds, or rules in the sheet,   *)
(* or suppresses sources of incidents; what of the panels no such change   *)
(* concerns is not loaded.                                                 *)
(*                                                                         *)
(* The names of the specification start with Panels: the proofs extend     *)
(* this module beside AlertTable.                                          *)
(***************************************************************************)
EXTENDS Naturals, FiniteSets

CONSTANTS Thresholds, Values, Default,
          Sources,      \* addresses: of incidents, and an analyst's input
          LongV6,       \* those that are written with colons and no "::"
          Cut,          \* what extractCleanIp leaves of such a one
          RuleIds,      \* 1..n
          Blank,
          MaxClicks,    \* bound on the changes an analyst asks for
          MaxFailures   \* bound on the requests that fail

ASSUME PanelsAssumption ==
    /\ LongV6 \subseteq Sources /\ Cut \notin Sources /\ Blank \notin Sources \cup Values \cup {Cut}
    /\ Default \in Values /\ RuleIds = 1..Cardinality(RuleIds)
    /\ MaxClicks \in Nat /\ MaxFailures \in Nat

VARIABLES
    editing,                  \* what the analyst changes
    values, rules,            \* the server's thresholds and suppression rules
    open,                     \* DetectionConfig: the sheet is shown
    config, rows,             \* ... the thresholds, the state of each row
    list, adding,             \* ... the rules, "Adding..."
    suppressed, modal,        \* IncidentsPanel: suppressedIps, the dialog
    reqs,                     \* requests in flight
    clicks, failures,         \* how many changes were asked for, and requests failed
    asked,                    \* history: the value last saved for each threshold
    unsure                    \* history: tabs whose requests overlapped or failed

server   == <<values, rules>>
tab1     == <<config, rows>>
tab2     == <<list, adding>>
sheet    == <<open, tab1, tab2>>
panel    == <<suppressed, modal>>
panelsVars == <<editing, server, sheet, panel, reqs, clicks, failures, asked, unsure>>

Types    == {"source_ip", "destination_ip"}
Rule     == [type : Types, source : Sources \cup {Blank}, enabled : BOOLEAN]
NotYet   == [type |-> "not yet"]
Gone     == [type |-> "gone"]

\* The rules there are, each with its id: what GET answers.
Listing(rs) == {[id |-> i, rule |-> rs[i]] : i \in {j \in RuleIds : rs[j] \in Rule}}

NoModal  == [open |-> FALSE, ip |-> Blank, loading |-> FALSE]
Request(op, arg, n) == [op |-> op, arg |-> arg, n |-> n, got |-> "asked", ans |-> Blank]

PanelsInit ==
    /\ editing \in {"thresholds", "rules", "incidents"}
    /\ values = [t \in Thresholds |-> Default]
    /\ \E r \in {NotYet} \cup {x \in Rule : x.type = "source_ip" /\ x.source \in Sources \ LongV6} :
          rules = [i \in RuleIds |-> IF i = 1 /\ editing # "thresholds" THEN r ELSE NotYet]
    /\ open = FALSE /\ config = Blank
    /\ rows = [t \in Thresholds |-> "idle"]
    /\ list = {} /\ adding = FALSE
    /\ suppressed = {} /\ modal = NoModal
    /\ reqs = IF editing = "incidents" THEN {Request("mount", Blank, 0)} ELSE {}
    /\ clicks = 0 /\ failures = 0
    /\ asked = [t \in Thresholds |-> Blank] /\ unsure = {"thresholds", "rules"}

Tab(op) == CASE op \in {"load", "put"} -> "thresholds"
             [] op = "mount"           -> "incidents"
             [] OTHER                  -> "rules"

\* A handler sends requests.  An answer that holds all of a tab, to a request
\* that is alone in its tab, is what the tab will show.
Send(new, others) ==
    /\ reqs' = others \cup new
    /\ LET alone == {q \in new : \A r \in others : Tab(r.op) # Tab(q.op)}
       IN unsure' = (unsure \ {Tab(q.op) : q \in {x \in alone : x.op \in {"load", "put", "list"}}})
                        \cup {Tab(q.op) : q \in new \ alone}

Click(new) == clicks < MaxClicks /\ clicks' = clicks + 1 /\ Send(new, reqs)
Next1      == clicks + 1

\* Requests that may still make a rule; RuleIds bounds them.
RoomForRule ==
    Cardinality({r \in reqs : r.op \in {"post", "confirm"} /\ r.got = "asked"})
        < Cardinality({i \in RuleIds : rules[i] = NotYet})
----------------------------------------------------------------------------
(* The server.                                                             *)

\* update_detection_threshold, create_, update_ and delete_suppression_rule.
\* The addresses of a rule are validated, and a PATCH or DELETE of a rule that
\* is gone is answered 404.
Valid(r) ==
    CASE r.op \in {"post", "confirm"}  -> /\ r.arg.source # Cut
                                          /\ r.arg.type = "source_ip" => r.arg.source # Blank
      [] r.op \in {"patch", "delete"}  -> rules[r.arg.id] \in Rule
      [] OTHER                         -> TRUE

NewId == CHOOSE i \in RuleIds : rules[i] = NotYet

Apply(r) ==
    /\ values' = IF r.op = "put" THEN [values EXCEPT ![r.arg.t] = r.arg.v] ELSE values
    /\ rules' = CASE r.op \in {"post", "confirm"} -> [rules EXCEPT ![NewId] = r.arg]
                  [] r.op = "patch"  -> [rules EXCEPT ![r.arg.id].enabled = r.arg.enabled]
                  [] r.op = "delete" -> [rules EXCEPT ![r.arg.id] = Gone]
                  [] OTHER           -> rules

Got(r, got, ans) == reqs' = (reqs \ {r}) \cup {[r EXCEPT !.got = got, !.ans = ans]}

\* The answer is lost, or the request never comes, or is refused.
Serve(r) ==
    /\ r.got = "asked"
    /\ \/ /\ Valid(r) /\ Apply(r)
          /\ Got(r, "ok", IF Tab(r.op) = "thresholds" THEN values' ELSE Listing(rules'))
          /\ UNCHANGED failures
       \/ /\ failures < MaxFailures /\ failures' = failures + 1
          /\ (Valid(r) /\ Apply(r)) \/ UNCHANGED server
          /\ Got(r, "failed", Blank)
       \/ ~Valid(r) /\ Got(r, "failed", Blank) /\ UNCHANGED <<server, failures>>
    /\ UNCHANGED <<editing, sheet, panel, clicks, asked, unsure>>
----------------------------------------------------------------------------
(* DetectionConfig.                                                        *)

\* Opening the sheet loads both tabs; nothing of it is reset.  A dialog covers
\* the button, and the sheet the incidents.  A load of an opening is not begun
\* beside another one, which bounds them.
Open ==
    /\ ~open /\ ~modal.open /\ open' = TRUE
    /\ \A r \in reqs : r.n = 0 => r.op = "mount"
    /\ Send({IF editing = "thresholds" THEN Request("load", Blank, 0) ELSE Request("list", "open", 0)}, reqs)
    /\ UNCHANGED <<editing, server, tab1, tab2, panel, clicks, failures, asked>>

Close ==
    /\ open /\ open' = FALSE
    /\ UNCHANGED <<editing, server, tab1, tab2, panel, reqs, clicks, failures, asked, unsure>>

\* What is known of a tab when a request of it has failed.
Failed(r) == unsure' = unsure \cup {Tab(r.op)}

Done(r) == r.got # "asked" /\ reqs' = reqs \ {r}

\* loadThresholds
LoadedThresholds(r) ==
    /\ r.op = "load" /\ Done(r)
    /\ \/ r.got = "ok" /\ config' = r.ans /\ UNCHANGED unsure
       \/ r.got = "failed" /\ Failed(r) /\ UNCHANGED config
    /\ UNCHANGED <<editing, server, open, rows, tab2, panel, clicks, failures, asked>>

\* loadRules, called by Open and after each change; addRule ends with it.
LoadedRules(r) ==
    /\ r.op = "list" /\ Done(r)
    /\ \/ r.got = "ok" /\ list' = r.ans /\ UNCHANGED unsure
       \/ r.got = "failed" /\ Failed(r) /\ UNCHANGED list
    /\ adding' = (adding /\ r.arg # "add")
    /\ UNCHANGED <<editing, server, open, tab1, panel, clicks, failures, asked>>

\* A bug: the button is never disabled.
CanSaveAlways(t) == open /\ config # Blank

\* The Save button of a row.
CanSave(t) == open /\ config # Blank /\ rows[t] # "saving"

\* saveThreshold: what the input holds, typed or shown.
Save(t, v) ==
    /\ CanSave(t)
    /\ Click({Request("put", [t |-> t, v |-> v], Next1)})
    /\ asked' = [asked EXCEPT ![t] = v]
    /\ rows' = [rows EXCEPT ![t] = "saving"]
    /\ UNCHANGED <<editing, server, open, config, tab2, panel, failures>>

\* ... the answer is the whole configuration.
Saved(r) ==
    /\ r.op = "put" /\ Done(r)
    /\ \/ /\ r.got = "ok" /\ config' = r.ans
          /\ rows' = [rows EXCEPT ![r.arg.t] = "saved"] /\ UNCHANGED unsure
       \/ /\ r.got = "failed" /\ Failed(r)
          /\ rows' = [rows EXCEPT ![r.arg.t] = "error"] /\ UNCHANGED config
    /\ UNCHANGED <<editing, server, open, tab2, panel, clicks, failures, asked>>

\* What the form for a new rule may hold.  A source typed for one type of rule
\* stays, out of sight, when the type is changed, and is sent.
Form == [type : Types, source : Sources \cup {Blank}, enabled : {TRUE}]

CanAdd == open /\ editing = "rules" /\ ~adding /\ RoomForRule

\* addRule
AddRule ==
    /\ CanAdd
    /\ \E x \in Form : Click({Request("post", x, Next1)})
    /\ adding' = TRUE
    /\ UNCHANGED <<editing, server, open, tab1, list, panel, failures, asked>>

\* A bug: a rule that was refused leaves the form as it is.
AddedNoFinally(r) ==
    /\ r.op = "post" /\ r.got # "asked"
    /\ \/ r.got = "ok" /\ Send({Request("list", "add", r.n)}, reqs \ {r})
       \/ r.got = "failed" /\ Done(r) /\ Failed(r)
    /\ UNCHANGED <<editing, server, open, tab1, list, adding, panel, clicks, failures, asked>>

\* ... the rules are loaded, or the form keeps what it holds, with the error.
Added(r) ==
    /\ r.op = "post" /\ r.got # "asked"
    /\ \/ r.got = "ok" /\ Send({Request("list", "add", r.n)}, reqs \ {r}) /\ UNCHANGED adding
       \/ r.got = "failed" /\ Done(r) /\ Failed(r) /\ adding' = FALSE
    /\ UNCHANGED <<editing, server, open, tab1, list, panel, clicks, failures, asked>>

\* The buttons of a rule that is listed are never disabled.
\* toggleRule: what the button says, not what the rule is by then.
ToggleRule ==
    /\ open /\ editing = "rules"
    /\ \E x \in list : Click({Request("patch", [id |-> x.id, enabled |-> ~x.rule.enabled], Next1)})
    /\ UNCHANGED <<editing, server, open, tab1, tab2, panel, failures, asked>>

\* deleteRule
DeleteRule ==
    /\ open /\ editing = "rules"
    /\ \E x \in list : Click({Request("delete", [id |-> x.id], Next1)})
    /\ UNCHANGED <<editing, server, open, tab1, tab2, panel, failures, asked>>

\* A bug: the rules are not loaded after a change.
ChangedSilently(r) ==
    /\ r.op \in {"patch", "delete"} /\ Done(r)
    /\ IF r.got = "failed" THEN Failed(r) ELSE UNCHANGED unsure
    /\ UNCHANGED <<editing, server, open, tab1, tab2, panel, clicks, failures, asked>>

\* ... the rules are loaded.
Changed(r) ==
    /\ r.op \in {"patch", "delete"} /\ r.got # "asked"
    /\ \/ r.got = "ok" /\ Send({Request("list", "change", r.n)}, reqs \ {r})
       \/ r.got = "failed" /\ Done(r) /\ Failed(r)
    /\ UNCHANGED <<editing, server, open, tab1, tab2, panel, clicks, failures, asked>>
----------------------------------------------------------------------------
(* IncidentsPanel.                                                         *)

\* The load of the panel's mount; a failure leaves the set as it is, or, for an
\* answer that is not ok, empty.
LoadedSuppressed(r) ==
    /\ r.op = "mount" /\ Done(r)
    /\ \/ /\ r.got = "ok"
          /\ suppressed' = {x.rule.source : x \in {y \in r.ans : y.rule.enabled}} \ {Blank}
       \/ r.got = "failed" /\ suppressed' \in {suppressed, {}}
    /\ UNCHANGED <<editing, server, sheet, modal, clicks, failures, asked, unsure>>

\* extractCleanIp; incidents name addresses without a port.
Clean(s) == IF s \in LongV6 THEN Cut ELSE s

\* The incidents, if listed, whose rows offer SUPPRESS and do not say SUPPRESSED.
Offered == Sources \ suppressed

\* openSuppressModal
OpenModal ==
    /\ ~modal.open /\ ~open /\ editing = "incidents"
    /\ \E s \in Offered : modal' = [modal EXCEPT !.open = TRUE, !.ip = Clean(s)]
    /\ UNCHANGED <<editing, server, sheet, suppressed, reqs, clicks, failures, asked, unsure>>

\* Escape, the backdrop, the cross and Cancel.
CloseModal ==
    /\ modal.open /\ ~modal.loading
    /\ modal' = NoModal
    /\ UNCHANGED <<editing, server, sheet, suppressed, reqs, clicks, failures, asked, unsure>>

\* The input of the dialog holds the source, or what the analyst made of it.
CanConfirm(ip) == modal.open /\ ~modal.loading /\ ip \in Sources \cup {modal.ip} /\ RoomForRule

\* handleConfirmSuppress; the sheet is not told.
Confirm(ip) ==
    /\ CanConfirm(ip)
    /\ clicks < MaxClicks /\ clicks' = clicks + 1
    /\ reqs' = reqs \cup {Request("confirm", [type |-> "source_ip", source |-> ip, enabled |-> TRUE], Next1)}
    /\ modal' = [modal EXCEPT !.ip = ip, !.loading = TRUE]
    /\ unsure' = unsure \cup {"rules"}
    /\ UNCHANGED <<editing, server, sheet, suppressed, failures, asked>>

\* A bug: the source is shown as suppressed whatever the answer says.
ConfirmedAnyway(r) ==
    /\ r.op = "confirm" /\ Done(r)
    /\ suppressed' = suppressed \cup {r.arg.source}
    /\ modal' = IF r.got = "ok" THEN NoModal ELSE [modal EXCEPT !.loading = FALSE]
    /\ UNCHANGED <<editing, server, sheet, clicks, failures, asked, unsure>>

\* ... the source is shown as suppressed at once.
Confirmed(r) ==
    /\ r.op = "confirm" /\ Done(r)
    /\ \/ /\ r.got = "ok" /\ suppressed' = suppressed \cup {r.arg.source}
          /\ modal' = NoModal
       \/ r.got = "failed" /\ modal' = [modal EXCEPT !.loading = FALSE] /\ UNCHANGED suppressed
    /\ UNCHANGED <<editing, server, sheet, clicks, failures, asked, unsure>>
----------------------------------------------------------------------------
Answered(r) ==
    \/ LoadedThresholds(r) \/ LoadedRules(r) \/ Saved(r) \/ Added(r) \/ Changed(r)
    \/ LoadedSuppressed(r) \/ Confirmed(r)

PanelsNext ==
    \/ Open \/ Close \/ AddRule \/ ToggleRule \/ DeleteRule
    \/ \E t \in Thresholds, v \in Values : Save(t, v)
    \/ OpenModal \/ CloseModal \/ \E ip \in Sources \cup {Cut} : Confirm(ip)
    \/ \E r \in reqs : Serve(r) \/ Answered(r)

PanelsSpec == PanelsInit /\ [][PanelsNext]_panelsVars

\* Every request is answered or fails; nothing is assumed of the analyst.
PanelsFairness ==
    \A n \in 0..MaxClicks : /\ WF_panelsVars(\E r \in reqs : r.n = n /\ Serve(r))
                            /\ WF_panelsVars(\E r \in reqs : r.n = n /\ Answered(r))

PanelsFairSpec == PanelsSpec /\ PanelsFairness
----------------------------------------------------------------------------
PanelsTypeOK ==
    /\ editing \in {"thresholds", "rules", "incidents"}
    /\ values \in [Thresholds -> Values] /\ rules \in [RuleIds -> Rule \cup {NotYet, Gone}]
    /\ open \in BOOLEAN /\ config \in [Thresholds -> Values] \cup {Blank}
    /\ rows \in [Thresholds -> {"idle", "saving", "saved", "error"}]
    /\ list \subseteq [id : RuleIds, rule : Rule]
    /\ adding \in BOOLEAN
    /\ suppressed \subseteq Sources
    /\ modal \in [open : BOOLEAN, ip : Sources \cup {Cut, Blank}, loading : BOOLEAN]
    /\ clicks \in 0..MaxClicks /\ failures \in 0..MaxFailures

(* A row that says "Applied" is the truth: the detection runs with the     *)
(* value that was last saved for it, however many rows were saved at once, *)
(* answered in whatever order, or had failed before.                       *)
AppliedIsLive == \A t \in Thresholds : rows[t] = "saved" => values[t] = asked[t]

(* When the answers are in, each tab shows what the server has, unless     *)
(* requests of it overlapped or failed since it was last loaded alone, or  *)
(* the other panel has made a rule: every change is followed by a load     *)
(* that shows all of it.                                                   *)
TabsAgree ==
    /\ "thresholds" \notin unsure /\ (\A r \in reqs : Tab(r.op) # "thresholds")
          => config = values
    /\ "rules" \notin unsure /\ (\A r \in reqs : Tab(r.op) # "rules")
          => list = Listing(rules)

(* What the incidents show as suppressed is: the server has an enabled     *)
(* rule that names the source, whatever order the load of the panel's      *)
(* mount and the confirmations are served and answered in, and whichever   *)
(* of them is refused or lost.  The converse does not hold: the load       *)
(* replaces the set, and one answered after a confirmation that it was     *)
(* served before offers the source again.  Nor would the panel, which      *)
(* loads once, notice a rule that is switched off, deleted or expires      *)
(* meanwhile; while incidents are looked at (editing), nobody does that.   *)
SuppressedIsLive ==
    \A s \in suppressed : \E i \in RuleIds :
        rules[i] \in Rule /\ rules[i].enabled /\ rules[i].source = s

(* No form of the panels stays disabled: a row leaves "Saving...", the     *)
(* form "Adding..." and the dialog "SUPPRESSING...", whichever of their    *)
(* requests fails and however they end.                                    *)
FormsReturn ==
    /\ \A t \in Thresholds : rows[t] = "saving" ~> rows[t] # "saving"
    /\ adding ~> ~adding
    /\ modal.loading ~> ~modal.loading
=============================================================================
