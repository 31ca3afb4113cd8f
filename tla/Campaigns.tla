------------------------------ MODULE Campaigns ------------------------------
(***************************************************************************)
(* The promotion campaigns as the staff edit them; what a campaign is      *)
(* worth to a cart is PromotionStack's.  An edit reads the campaign,       *)
(* asks whether its code is taken, and then replaces the campaign's        *)
(* children and patches its row in one transaction, which does not keep    *)
(* another edit from doing the same between any two of its statements.     *)
(*                                                                         *)
(* A campaign's rules, rewards and targets are written alike: "children"   *)
(* are any one of the three.                                               *)
(***************************************************************************)
EXTENDS Naturals, FiniteSets

CONSTANTS
  Editors,
  CampaignIds,
  Children,        \* what a campaign may be sent with
  Codes,           \* a code in lower case -> the ways it is written
  Unsent,          \* a part of the body that is left out
  NoCode, NoDate,
  Dates,
  Bodies,          \* the bodies requests send
  MaxEdits         \* bound: requests

VARIABLES
  campaign,        \* id -> its row, Unsent before it is made
  children,        \* id -> the rows of its children: [edit, child]
  edit,            \* editor -> the request under way, or Unsent
  edits,           \* requests so far
  sent,            \* id -> the children it was last sent with
  crossed          \* campaigns two requests changed at the same time

campaignVars == <<campaign, children, edit, edits, sent, crossed>>

CampaignInit ==
  /\ campaign = [c \in CampaignIds |-> Unsent]
  /\ children = [c \in CampaignIds |-> {}]
  /\ edit = [e \in Editors |-> Unsent]
  /\ edits = 0
  /\ sent = [c \in CampaignIds |-> {}]
  /\ crossed = {}

Written == UNION {Codes[k] : k \in DOMAIN Codes}

lower(code) == IF code = NoCode THEN NoCode ELSE CHOOSE k \in DOMAIN Codes : code \in Codes[k]

\* PromotionWriteBody
Body == [code : Written \cup {NoCode, Unsent},
         status : {"DRAFT", "ACTIVE", Unsent},
         start : Dates \cup {NoDate, Unsent},
         end : Dates \cup {NoDate, Unsent},
         children : (SUBSET Children) \cup {Unsent}]

ASSUME CampaignsAssumption == Bodies \subseteq Body /\ IsFiniteSet(Children)

Live(c) == campaign[c] # Unsent /\ ~ campaign[c].deleted

Busy == {e \in Editors : edit[e] # Unsent}

\* The campaigns this request and another one are changing.
Crossing(e, c) == IF \E o \in Busy \ {e} : edit[o].id = c THEN {c} ELSE {}

-----------------------------------------------------------------------------
\* resolveWindow: only two dates that are sent together are compared.
resolveWindow(body) == {body.start, body.end} \subseteq Dates => body.start < body.end

\* Only active campaigns are looked at.
findByCode(code) ==
  {c \in CampaignIds : Live(c) /\ campaign[c].status = "ACTIVE"
                               /\ lower(campaign[c].code) = lower(code)}

Begin(e, c, body, at) ==
  /\ edit[e] = Unsent /\ edits < MaxEdits
  /\ edits' = edits + 1
  /\ edit' = [edit EXCEPT ![e] = [at |-> at, id |-> c, body |-> body,
                                  number |-> edits', doomed |-> {}]]
  /\ crossed' = crossed \cup Crossing(e, c)

\* createPromotion up to the question whether the code is taken.
createPromotion(e, c, body) ==
  /\ campaign[c] = Unsent /\ \A o \in Busy : edit[o].id # c
  /\ resolveWindow(body)
  /\ body.code \in Written => findByCode(body.code) = {}
  /\ Begin(e, c, body, "insert")
  /\ UNCHANGED <<campaign, children, sent>>

Given(part, default) == IF part = Unsent THEN default ELSE part

Rows(number, list) == [edit : {number}, child : list]

Finish(e) == edit' = [edit EXCEPT ![e] = Unsent]

Insert(e) ==
  /\ e \in Busy /\ edit[e].at = "insert"
  /\ LET c == edit[e].id
         body == edit[e].body
         list == Given(body.children, {})
     IN  /\ campaign' = [campaign EXCEPT ![c] =
              [code |-> Given(body.code, NoCode), status |-> Given(body.status, "ACTIVE"),
               start |-> Given(body.start, NoDate), end |-> Given(body.end, NoDate),
               deleted |-> FALSE]]
         /\ children' = [children EXCEPT ![c] = Rows(edit[e].number, list)]
         /\ sent' = [sent EXCEPT ![c] = list]
  /\ Finish(e)
  /\ UNCHANGED <<edits, crossed>>

\* updatePromotion: the code is asked about when it differs from the one read.
updatePromotion(e, c, body) ==
  /\ Live(c)
  /\ resolveWindow(body)
  /\ body.code \in Written /\ lower(body.code) # lower(campaign[c].code)
       => findByCode(body.code) \subseteq {c}
  /\ Begin(e, c, body, "clear")
  /\ UNCHANGED <<campaign, children, sent>>

\* Mutant of Doomed: the children that were there stay.
DoomedNone(c, body) == {}

\* What deleteMany finds: the rows committed when it starts.
Doomed(c, body) == IF body.children = Unsent THEN {} ELSE children[c]

Clear(e) ==
  /\ e \in Busy /\ edit[e].at = "clear"
  /\ edit' = [edit EXCEPT ![e].at = "patch",
                          ![e].doomed = Doomed(edit[e].id, edit[e].body)]
  /\ UNCHANGED <<campaign, children, edits, sent, crossed>>

\* The new children, the row, and the commit.  A campaign that was deleted
\* meanwhile is patched all the same.
Patch(e) ==
  /\ e \in Busy /\ edit[e].at = "patch"
  /\ LET c == edit[e].id
         body == edit[e].body
         row == campaign[c]
         list == Given(body.children, {})
     IN  /\ campaign' = [campaign EXCEPT ![c] =
              [row EXCEPT !.code = Given(body.code, @), !.status = Given(body.status, @),
                          !.start = Given(body.start, @), !.end = Given(body.end, @)]]
         /\ children' = [children EXCEPT ![c] =
              (@ \ edit[e].doomed) \cup Rows(edit[e].number, list)]
         /\ sent' = IF body.children = Unsent THEN sent ELSE [sent EXCEPT ![c] = list]
  /\ Finish(e)
  /\ UNCHANGED <<edits, crossed>>

deletePromotion(e, c) ==
  /\ Live(c)
  /\ Begin(e, c, Unsent, "delete")
  /\ UNCHANGED <<campaign, children, sent>>

\* softDelete
SoftDelete(e) ==
  /\ e \in Busy /\ edit[e].at = "delete"
  /\ campaign' = [campaign EXCEPT ![edit[e].id] =
                    [@ EXCEPT !.deleted = TRUE, !.status = "DISABLED"]]
  /\ Finish(e)
  /\ UNCHANGED <<children, edits, sent, crossed>>

\* The request ends before its write is committed.
Abandon(e) ==
  /\ e \in Busy
  /\ Finish(e)
  /\ UNCHANGED <<campaign, children, edits, sent, crossed>>

CampaignNext ==
  \E e \in Editors :
    \/ \E c \in CampaignIds :
         \/ \E body \in Bodies : createPromotion(e, c, body) \/ updatePromotion(e, c, body)
         \/ deletePromotion(e, c)
    \/ Insert(e) \/ Clear(e) \/ Patch(e) \/ SoftDelete(e) \/ Abandon(e)

CampaignSpec == CampaignInit /\ [][CampaignNext]_campaignVars

-----------------------------------------------------------------------------
(***************************************************************************)
(* Property.                                                               *)
(***************************************************************************)
\* A campaign that was never changed by two requests at once gives and asks
\* for exactly what the last completed one sent, each part once, whatever
\* requests were abandoned on the way (update: "a full replacement").
CampaignsAreAsSent ==
  \A c \in CampaignIds \ crossed :
    /\ {row.child : row \in children[c]} = sent[c]
    /\ Cardinality(children[c]) = Cardinality(sent[c])

=============================================================================
