---------------------------- MODULE AccessProofs ----------------------------
(***************************************************************************)
(* What Organizations and Accounts promise, for every set of               *)
(* organizations, users, sessions, links and requests.                     *)
(*                                                                         *)
(* The modules share no variable.  The promises of Organizations rest on   *)
(* three invariants (FollowInv, SettingsInv, VisitInv), those of Accounts  *)
(* on one: AccountsInv.  For Accounts every handler is looked at once for  *)
(* the types, once for how its request moves (Trace) and once for what it  *)
(* does to the sessions (Stored); most of the rest follows from these two  *)
(* without opening a handler again.                                        *)
(***************************************************************************)
EXTENDS Accounts, Organizations, TLAPS

-----------------------------------------------------------------------------
(***************************************************************************)
(* Organizations: types                                                    *)
(***************************************************************************)

\* What a body in flight carries, by what it is for
OnboardingCall == [op : {"register", "retry"}, at : {"rows", "account", "store", "link"},
                   org : Organizers]
SettingsCall == [op : {"settings"}, at : {"write", "reload", "refresh"}, org : Organizers, read : Nat]
HostCall == [op : {"add"}, at : {"stepDown", "insert"}, org : Organizers, host : Domains,
             primary : BOOLEAN, down : SUBSET Domains, attempt : Nat]

OrganizationRow == [there : BOOLEAN, account : BOOLEAN, charges : BOOLEAN, at : Nat]
Account == [open : BOOLEAN, linked : BOOLEAN, charges : BOOLEAN, at : Nat, twice : BOOLEAN]
Event == [org : Organizers, charges : BOOLEAN, at : Nat]

MoneyType ==
    /\ org \in [Organizers -> OrganizationRow]
    /\ stripe \in [Organizers -> Account]
    /\ events \subseteq Event
    /\ second \in Nat
FlowType ==
    /\ flow \in [Flows -> {Quiet} \cup OnboardingCall \cup SettingsCall \cup HostCall]
    /\ settings \in [Organizers -> Nat] /\ boot \in Nat

Typed == MoneyType /\ FlowType

\* To begin with nothing is under way.
LEMMA TypedInit == OrganizationsInit => Typed
<1> SUFFICES ASSUME OrganizationsInit PROVE Typed
  OBVIOUS
<1>1. MoneyType
  <2>1. org \in [Organizers -> OrganizationRow]
    <3>1. ASSUME NEW A \in SUBSET BOOLEAN, NEW B \in SUBSET Nat
          PROVE  [there : BOOLEAN, account : A, charges : A, at : B] \subseteq OrganizationRow
      BY DEF OrganizationRow
    <3>2. {FALSE} \subseteq BOOLEAN /\ {0} \subseteq Nat
      OBVIOUS
    <3>3. [there : BOOLEAN, account : {FALSE}, charges : {FALSE}, at : {0}] \subseteq OrganizationRow
      BY <3>1, <3>2, Zenon
    <3> HIDE DEF OrganizationRow
    <3> QED  BY <3>3, ZenonT(30) DEF OrganizationsInit
  <2>2. stripe \in [Organizers -> Account]
    <3>1. [open |-> FALSE, linked |-> FALSE, charges |-> FALSE, at |-> 0, twice |-> FALSE] \in Account
      BY DEF Account
    <3> QED  BY <3>1 DEF OrganizationsInit
  <2> QED  BY <2>1, <2>2 DEF OrganizationsInit, MoneyType
<1>2. FlowType
  BY DEF OrganizationsInit, FlowType
<1> QED  BY <1>1, <1>2 DEF Typed

\* Writing one field of a row keeps it a row.
LEMMA RowWritten ==
  ASSUME NEW r \in OrganizationRow, NEW v \in BOOLEAN, NEW n \in Nat
  PROVE  /\ [r EXCEPT !.there = v] \in OrganizationRow
         /\ [r EXCEPT !.account = v] \in OrganizationRow
         /\ [r EXCEPT !.charges = v, !.at = n] \in OrganizationRow
  BY DEF OrganizationRow

\* The same of Stripe's account.
LEMMA AccountWritten ==
  ASSUME NEW r \in Account, NEW v \in BOOLEAN, NEW w \in BOOLEAN, NEW n \in Nat
  PROVE  /\ [r EXCEPT !.open = v, !.at = n] \in Account
         /\ [r EXCEPT !.linked = v] \in Account
         /\ [r EXCEPT !.charges = v, !.at = n, !.twice = w] \in Account
  BY DEF Account

\* What Stripe sends is an event.
LEMMA EventTyped ==
  ASSUME NEW o \in Organizers, NEW v \in BOOLEAN, NEW n \in Nat
  PROVE  [org |-> o, charges |-> v, at |-> n] \in Event
  BY DEF Event

\* The stage of a body tells what it is for.
LEMMA Staged ==
  ASSUME FlowType, NEW f \in Flows, flow[f] # Quiet
  PROVE  /\ flow[f].org \in Organizers
         /\ flow[f].at \in {"rows", "account", "store", "link"} => flow[f] \in OnboardingCall
         /\ flow[f].at \in {"write", "reload", "refresh"} => flow[f] \in SettingsCall
         /\ flow[f].at \in {"stepDown", "insert"} => flow[f] \in HostCall
  BY DEF FlowType, OnboardingCall, SettingsCall, HostCall

\* A request that starts is one of the three.
LEMMA StartTyped ==
  ASSUME Typed, NEW f \in Flows, NEW about, NEW body \in OnboardingCall \cup SettingsCall \cup HostCall,
         Start(f, about, body)
  PROVE  Typed'
  BY DEF Typed, MoneyType, FlowType, Start, money

\* Every step keeps the types.
LEMMA TypedStep == Typed /\ [OrganizationsNext]_organizations => Typed'
<1> SUFFICES ASSUME Typed, [OrganizationsNext]_organizations PROVE Typed'
  OBVIOUS
<1> USE DEF Typed
<1>a. ASSUME UNCHANGED <<settings, boot>>, NEW f \in Flows,
             NEW v \in {Quiet} \cup OnboardingCall \cup SettingsCall \cup HostCall,
             flow' = [flow EXCEPT ![f] = v]
      PROVE  FlowType'
  BY <1>a DEF FlowType
<1>b. ASSUME NEW f \in Flows, NEW to \in {"rows", "account", "store", "link"},
             flow[f] # Quiet, flow[f].at \in {"rows", "account", "store", "link"}, Step(f, to)
      PROVE  FlowType'
  <2>1. flow[f] \in OnboardingCall
    BY <1>b, Staged
  <2>2. [flow[f] EXCEPT !.at = to] \in OnboardingCall
    BY <2>1 DEF OnboardingCall
  <2>3. flow' = [flow EXCEPT ![f] = [flow[f] EXCEPT !.at = to]]
    BY <1>b DEF Step
  <2> QED  BY <1>a, <1>b, <2>2, <2>3 DEF Step
<1>c. ASSUME NEW f \in Flows, Stop(f) PROVE FlowType'
  BY <1>a, <1>c DEF Stop
<1>1. ASSUME NEW f \in Flows, NEW o \in Onboarding, register(f, o) \/ requestOnboardingLink(f, o)
      PROVE  Typed'
  <2>1. o \in Organizers
    BY OrganizationsAssumption
  <2>2. [op |-> "register", at |-> "rows", org |-> o] \in OnboardingCall
    BY <2>1 DEF OnboardingCall
  <2>3. [op |-> "retry", at |-> IF org[o].account THEN "link" ELSE "account", org |-> o] \in OnboardingCall
    BY <2>1 DEF OnboardingCall
  <2> QED  BY <1>1, <2>2, <2>3, StartTyped DEF register, requestOnboardingLink
<1>2. ASSUME NEW f \in Flows, NEW o \in Organizers, updateSettings(f, o) PROVE Typed'
  <2>1. [op |-> "settings", at |-> "write", org |-> o, read |-> 0] \in SettingsCall
    BY DEF SettingsCall
  <2> QED  BY <1>2, <2>1, StartTyped DEF updateSettings
<1>3. ASSUME NEW f \in Flows, NEW o \in Organizers, NEW h \in Domains, NEW p \in BOOLEAN, add(f, o, h, p)
      PROVE  Typed'
  <2>1. [op |-> "add", at |-> "stepDown", org |-> o, host |-> h, primary |-> p,
         down |-> {}, attempt |-> 0] \in HostCall
    BY DEF HostCall
  <2> QED  BY <1>3, <2>1, StartTyped DEF add
<1>4. ASSUME NEW f \in Flows, createOrganizationAndOwner(f) PROVE Typed'
  <2>1. MoneyType'
    <3>1. flow[f].org \in Organizers
      BY <1>4, Staged DEF createOrganizationAndOwner
    <3>2. [org[flow[f].org] EXCEPT !.there = TRUE] \in OrganizationRow
      BY <3>1, RowWritten DEF MoneyType
    <3>3. org' = [org EXCEPT ![flow[f].org] = [org[flow[f].org] EXCEPT !.there = TRUE]] \/ org' = org
      BY <1>4 DEF createOrganizationAndOwner
    <3> QED  BY <1>4, <3>2, <3>3 DEF createOrganizationAndOwner, MoneyType
  <2>2. FlowType'
    BY <1>4, <1>b, <1>c DEF createOrganizationAndOwner
  <2> QED  BY <2>1, <2>2
<1>5. ASSUME NEW f \in Flows, createExpressAccount(f) PROVE Typed'
  <2>1. FlowType'
    BY <1>5, <1>b, <1>c DEF createExpressAccount
  <2>2. flow[f].org \in Organizers
    BY <1>5, Staged DEF createExpressAccount
  <2>3. MoneyType'
    <3>1. [stripe[flow[f].org] EXCEPT !.open = TRUE, !.at = second] \in Account
      BY <2>2, AccountWritten DEF MoneyType
    <3>2. [org |-> flow[f].org, charges |-> FALSE, at |-> second] \in Event
      BY <2>2, EventTyped DEF MoneyType
    <3>3. \/ /\ stripe' = [stripe EXCEPT ![flow[f].org] =
                              [stripe[flow[f].org] EXCEPT !.open = TRUE, !.at = second]]
             /\ events' = events \cup {[org |-> flow[f].org, charges |-> FALSE, at |-> second]}
          \/ UNCHANGED <<stripe, events>>
      BY <1>5 DEF createExpressAccount, MoneyType
    <3> QED  BY <1>5, <3>1, <3>2, <3>3 DEF createExpressAccount, MoneyType
  <2> QED  BY <2>1, <2>3
<1>6. ASSUME NEW f \in Flows, StoreAccount(f) PROVE Typed'
  <2>1. FlowType'
    BY <1>6, <1>b, <1>c DEF StoreAccount
  <2>2. MoneyType'
    <3>1. flow[f].org \in Organizers
      BY <1>6, Staged DEF StoreAccount
    <3>2. [org[flow[f].org] EXCEPT !.account = TRUE] \in OrganizationRow
      BY <3>1, RowWritten DEF MoneyType
    <3>3. org' = [org EXCEPT ![flow[f].org] = [org[flow[f].org] EXCEPT !.account = TRUE]] \/ org' = org
      BY <1>6 DEF StoreAccount
    <3> QED  BY <1>6, <3>2, <3>3 DEF StoreAccount, MoneyType
  <2> QED  BY <2>1, <2>2
<1>7. ASSUME NEW f \in Flows, createAccountLink(f) PROVE Typed'
  <2>1. FlowType'
    BY <1>7, <1>c DEF createAccountLink
  <2>2. MoneyType'
    <3>1. flow[f].org \in Organizers
      BY <1>7, Staged DEF createAccountLink
    <3>2. [stripe[flow[f].org] EXCEPT !.linked = TRUE] \in Account
      BY <3>1, AccountWritten DEF MoneyType
    <3>3. stripe' = [stripe EXCEPT ![flow[f].org] = [stripe[flow[f].org] EXCEPT !.linked = TRUE]]
          \/ stripe' = stripe
      BY <1>7 DEF createAccountLink
    <3> QED  BY <1>7, <3>2, <3>3 DEF createAccountLink, MoneyType
  <2> QED  BY <2>1, <2>2
<1>8. ASSUME NEW f \in Flows, SettingsWrite(f) \/ SettingsReload(f) PROVE Typed'
  <2>1. flow[f] \in SettingsCall
    BY <1>8, Staged DEF SettingsWrite, SettingsReload
  <2>2. settings[flow[f].org] \in Nat
    BY <2>1 DEF FlowType, SettingsCall
  <2>3. /\ [flow[f] EXCEPT !.at = "reload"] \in SettingsCall
        /\ [flow[f] EXCEPT !.at = "refresh", !.read = settings[flow[f].org]] \in SettingsCall
    BY <2>1, <2>2 DEF SettingsCall
  <2>4. MoneyType'
    BY <1>8 DEF SettingsWrite, SettingsReload, MoneyType, money
  <2>5. CASE SettingsWrite(f)
    <3>1. /\ settings' = [settings EXCEPT ![flow[f].org] = @ + 1] /\ boot' = boot
          /\ flow' = [flow EXCEPT ![f] = [flow[f] EXCEPT !.at = "reload"]]
      BY <2>5 DEF SettingsWrite
    <3>2. settings[flow[f].org] + 1 \in Nat /\ settings \in [Organizers -> Nat]
      BY <2>2 DEF FlowType
    <3>3. settings' \in [Organizers -> Nat]
      BY <3>1, <3>2
    <3> QED  BY <3>1, <3>3, <2>3, <2>4 DEF FlowType
  <2>6. CASE SettingsReload(f)
    <3>1. /\ UNCHANGED <<settings, boot>>
          /\ flow' = [flow EXCEPT ![f] = [flow[f] EXCEPT !.at = "refresh", !.read = settings[flow[f].org]]]
      BY <2>6 DEF SettingsReload, FlowType
    <3> QED  BY <3>1, <2>3, <2>4, <1>a
  <2> QED  BY <1>8, <2>5, <2>6
<1>9. ASSUME NEW f \in Flows, refreshCurrent(f) PROVE Typed'
  <2>1. flow[f] \in SettingsCall
    BY <1>9, Staged DEF refreshCurrent
  <2> QED  BY <1>9, <2>1 DEF refreshCurrent, MoneyType, FlowType, SettingsCall, money
<1>10. ASSUME NEW f \in Flows, StepDown(f) \/ AddCommit(f) PROVE Typed'
  <2>1. flow[f] \in HostCall
    BY <1>10, Staged DEF StepDown, AddCommit
  <2>2. MoneyType'
    BY <1>10 DEF StepDown, AddCommit, MoneyType, money
  <2>3. UNCHANGED <<settings, boot>>
    BY <1>10 DEF StepDown, AddCommit
  <2>4. PICK v : /\ v \in {Quiet} \cup HostCall
                 /\ flow' = [flow EXCEPT ![f] = v] \/ flow' = flow
    <3>1. CASE StepDown(f)
      <4>1. (IF flow[f].primary THEN PrimariesOf(flow[f].org) ELSE {}) \subseteq Domains
        BY DEF PrimariesOf
      <4>2. [flow[f] EXCEPT !.at = "insert",
                !.down = IF flow[f].primary THEN PrimariesOf(flow[f].org) ELSE {}] \in HostCall
        BY <4>1, <2>1 DEF HostCall
      <4> QED  BY <4>2, <3>1 DEF StepDown
    <3>2. CASE AddCommit(f)
      <4>1. flow[f].attempt \in Nat
        BY <2>1 DEF HostCall
      <4>2. [flow[f] EXCEPT !.at = "stepDown", !.attempt = flow[f].attempt + 1] \in HostCall
        <5>1. flow[f].attempt + 1 \in Nat
          BY <4>1
        <5>2. ASSUME NEW n \in Nat PROVE [flow[f] EXCEPT !.at = "stepDown", !.attempt = n] \in HostCall
          BY <2>1 DEF HostCall
        <5> QED  BY <5>1, <5>2
      <4>3. [flow[f] EXCEPT !.at = "stepDown", !.attempt = @ + 1]
              = [flow[f] EXCEPT !.at = "stepDown", !.attempt = flow[f].attempt + 1]
        BY <2>1 DEF HostCall
      <4>4. \/ flow' = [flow EXCEPT ![f] = IF flow[f].attempt < PrimaryRetries
                      THEN [flow[f] EXCEPT !.at = "stepDown", !.attempt = @ + 1] ELSE Quiet]
            \/ flow' = [flow EXCEPT ![f] = Quiet]
            \/ flow' = flow
        BY <3>2 DEF AddCommit
      <4> QED  BY <4>2, <4>3, <4>4
    <3> QED  BY <1>10, <3>1, <3>2
  <2> QED  BY <2>2, <2>3, <2>4 DEF FlowType
<1>11. ASSUME NEW o \in Organizers, StripeDecides(o) PROVE Typed'
  <2>0. /\ (~stripe[o].charges) \in BOOLEAN /\ (stripe[o].at = second) \in BOOLEAN
        /\ second \in Nat /\ stripe[o] \in Account
    BY Zenon DEF MoneyType
  <2>1. [stripe[o] EXCEPT !.charges = ~stripe[o].charges, !.at = second, !.twice = (stripe[o].at = second)]
          \in Account
    BY <2>0, AccountWritten, Zenon
  <2>2. [org |-> o, charges |-> ~stripe[o].charges, at |-> second] \in Event
    BY <2>0, EventTyped, Zenon
  <2>3. stripe' = [stripe EXCEPT ![o] = [stripe[o] EXCEPT !.charges = ~stripe[o].charges,
                                           !.at = second, !.twice = (stripe[o].at = second)]]
    BY <1>11 DEF StripeDecides, MoneyType
  <2> QED  BY <1>11, <2>1, <2>2, <2>3 DEF StripeDecides, MoneyType, FlowType
<1>12. ASSUME NEW e \in events, handle(e) PROVE Typed'
  <2>1. e.org \in Organizers /\ e.charges \in BOOLEAN /\ e.at \in Nat
    BY DEF MoneyType, Event
  <2>2. [org[e.org] EXCEPT !.charges = e.charges, !.at = e.at] \in OrganizationRow
    BY <2>1, RowWritten DEF MoneyType
  <2>3. org' = [org EXCEPT ![e.org] = [org[e.org] EXCEPT !.charges = e.charges, !.at = e.at]] \/ org' = org
    BY <1>12 DEF handle, MoneyType
  <2> QED  BY <1>12, <2>2, <2>3 DEF handle, MoneyType, FlowType
<1>13. ASSUME SecondPasses PROVE Typed'
  BY <1>13 DEF SecondPasses, MoneyType, FlowType
<1>14. ASSUME UNCHANGED <<money, settings, boot, flow>> PROVE Typed'
  BY <1>14 DEF money, MoneyType, FlowType
<1>15. CASE UNCHANGED organizations
  BY <1>15, <1>14 DEF organizations
<1>16. ASSUME NEW o \in Organizers, NEW h \in Domains, remove(o, h) PROVE Typed'
  BY <1>16, <1>14 DEF remove
<1>17. CASE NavigateOffice \/ Reload \/ PublicRequest
  BY <1>17, <1>14 DEF NavigateOffice, Reload, PublicRequest, Visit, OpenOffice
<1>18. ASSUME NEW slug \in Slugs, Navigate(slug) \/ \E h \in Visited : Open(h, slug) \/ OpenOffice(h, slug)
       PROVE  Typed'
  BY <1>18, <1>14 DEF Navigate, Open, OpenOffice, Visit
<1> QED
  BY <1>1, <1>2, <1>3, <1>4, <1>5, <1>6, <1>7, <1>8, <1>9, <1>10, <1>11, <1>12, <1>13, <1>15, <1>16,
     <1>17, <1>18 DEF OrganizationsNext
-----------------------------------------------------------------------------
(***************************************************************************)
(* Organizations: ChargesFollowStripe                                      *)
(***************************************************************************)

About(o) == {e \in events : e.org = o}

\* Nobody is sent to the onboarding of an account the row does not name
Onboarded ==
    /\ \A o \in Organizers : /\ org[o].account => stripe[o].open
                             /\ stripe[o].linked => org[o].account
                             /\ ~stripe[o].open => About(o) = {}
    /\ \A f \in Flows : flow[f] # Quiet =>
          /\ flow[f].at = "store" => stripe[flow[f].org].open
          /\ flow[f].at = "link" => org[flow[f].org].account

\* Nothing is newer than what Stripe says last
Clocked ==
    \A o \in Organizers :
        /\ stripe[o].at <= second /\ org[o].at <= stripe[o].at
        /\ \A e \in About(o) : e.at <= stripe[o].at

\* Before the onboarding link there is nothing but the account's creation
Unlinked ==
    \A o \in Organizers : ~stripe[o].linked =>
        /\ ~stripe[o].charges /\ ~org[o].charges /\ ~stripe[o].twice
        /\ \A e \in About(o) : e.at = stripe[o].at /\ ~e.charges

\* What Stripe says last is still to be handled, or the row says it
Newest ==
    \A o \in Organizers : ~stripe[o].twice =>
        /\ \A e \in About(o) : e.at = stripe[o].at => e.charges = stripe[o].charges
        /\ \/ \E e \in About(o) : e.at = stripe[o].at
           \/ /\ org[o].charges = stripe[o].charges
              /\ org[o].at = stripe[o].at \/ About(o) = {}

FollowInv == Onboarded /\ Clocked /\ Unlinked /\ Newest


\* To begin with Stripe knows nobody.
LEMMA FollowInit == OrganizationsInit => FollowInv
<1> SUFFICES ASSUME OrganizationsInit PROVE FollowInv
  OBVIOUS
<1>1. \A o \in Organizers : org[o].account = FALSE /\ org[o].charges = FALSE /\ org[o].at = 0
  BY Zenon DEF OrganizationsInit
<1>2. \A o \in Organizers : /\ ~stripe[o].linked /\ stripe[o].charges = FALSE
                             /\ ~stripe[o].twice /\ stripe[o].at = 0
  BY DEF OrganizationsInit
<1>3. events = {} /\ second = 1 /\ \A f \in Flows : flow[f] = Quiet
  BY DEF OrganizationsInit
<1>4. \A o \in Organizers : About(o) = {}
  BY <1>3 DEF About
<1>5. Onboarded
  BY <1>1, <1>2, <1>3, <1>4 DEF Onboarded
<1>6. Clocked
  BY <1>1, <1>2, <1>3, <1>4 DEF Clocked
<1>7. Unlinked
  BY <1>1, <1>2, <1>4, Zenon DEF Unlinked
<1>8. Newest
  BY <1>1, <1>2, <1>4, Zenon DEF Newest
<1> QED  BY <1>5, <1>6, <1>7, <1>8 DEF FollowInv

\* Only what moves money matters, and reaching a stage that rests on it.
LEMMA FollowKept ==
  ASSUME FollowInv, UNCHANGED <<org, stripe, events, second>>,
         \A f \in Flows : flow'[f] \in {flow[f], Quiet} \/ flow'[f].at \notin {"store", "link"}
  PROVE  FollowInv'
  BY DEF FollowInv, Onboarded, Clocked, Unlinked, Newest, About

\* Every step keeps a row behind Stripe only by what is still to be handled.
LEMMA FollowStep == Typed /\ FollowInv /\ [OrganizationsNext]_organizations => FollowInv'
<1> SUFFICES ASSUME Typed, FollowInv, [OrganizationsNext]_organizations PROVE FollowInv'
  OBVIOUS
<1> USE DEF Typed
<1>a. ASSUME NEW f \in Flows, NEW about, NEW body, Start(f, about, body),
             body.at \notin {"store", "link"}
      PROVE  FollowInv'
  BY <1>a, FollowKept DEF Start, money, FlowType
<1>1. ASSUME NEW f \in Flows, NEW o \in Onboarding, register(f, o) PROVE FollowInv'
  BY <1>1, <1>a DEF register
<1>2. ASSUME NEW f \in Flows, NEW o \in Onboarding, requestOnboardingLink(f, o) PROVE FollowInv'
  <2>1. o \in Organizers
    BY OrganizationsAssumption
  <2>2. /\ UNCHANGED <<org, stripe, events, second>>
        /\ flow' = [flow EXCEPT ![f] =
              [op |-> "retry", at |-> IF org[o].account THEN "link" ELSE "account", org |-> o]]
    BY <1>2 DEF requestOnboardingLink, Start, money
  <2> QED  BY <2>1, <2>2 DEF FlowType, FollowInv, Onboarded, Clocked, Unlinked, Newest, About
<1>3. ASSUME NEW f \in Flows, NEW o \in Organizers, updateSettings(f, o) PROVE FollowInv'
  BY <1>3, <1>a DEF updateSettings
<1>4. ASSUME NEW f \in Flows, NEW o \in Organizers, NEW h \in Domains, NEW p \in BOOLEAN, add(f, o, h, p)
      PROVE  FollowInv'
  BY <1>4, <1>a DEF add
<1>5. ASSUME NEW f \in Flows, createOrganizationAndOwner(f) PROVE FollowInv'
  <2>1. flow[f].org \in Organizers /\ flow[f] \in OnboardingCall
    BY <1>5, Staged DEF createOrganizationAndOwner
  <2>2. UNCHANGED <<stripe, events, second>>
    BY <1>5 DEF createOrganizationAndOwner
  <2>3. \A o \in Organizers : org'[o].account = org[o].account /\ org'[o].charges = org[o].charges
                               /\ org'[o].at = org[o].at
    BY <1>5, <2>1 DEF createOrganizationAndOwner, MoneyType, OrganizationRow
  <2>4. \A g \in Flows : flow'[g] \in {flow[g], Quiet} \/ flow'[g].at = "account"
    BY <1>5, <2>1 DEF createOrganizationAndOwner, Step, Stop, FlowType, OnboardingCall
  <2>5. Onboarded'
    BY <2>2, <2>3, <2>4, Staged DEF FollowInv, Onboarded, About
  <2>6. Clocked' /\ Unlinked' /\ Newest'
    BY <2>2, <2>3 DEF FollowInv, Clocked, Unlinked, Newest, About
  <2> QED  BY <2>5, <2>6 DEF FollowInv
<1>6. ASSUME NEW f \in Flows, createExpressAccount(f) PROVE FollowInv'
  <2>0. PICK o : o = flow[f].org
    OBVIOUS
  <2>e. PICK e : e = [org |-> o, charges |-> FALSE, at |-> second]
    OBVIOUS
  <2>1. o \in Organizers /\ flow[f] \in OnboardingCall
    BY <1>6, <2>0, Staged DEF createExpressAccount
  <2>2. UNCHANGED <<org, second>>
    BY <1>6 DEF createExpressAccount
  <2>3. CASE ~stripe[o].open /\ stripe' = [stripe EXCEPT ![o].open = TRUE, ![o].at = second]
             /\ events' = events \cup {e} /\ Step(f, "store")
    <3>1. stripe'[o].open /\ stripe'[o].at = second
          /\ stripe'[o].linked = stripe[o].linked /\ stripe'[o].charges = stripe[o].charges
          /\ stripe'[o].twice = stripe[o].twice
      BY <2>1, <2>3 DEF MoneyType, Account
    <3>2. \A p \in Organizers \ {o} : stripe'[p] = stripe[p]
      BY <2>1, <2>3 DEF MoneyType
    <3>3. \A p \in Organizers \ {o} : About(p)' = About(p)
      BY <2>3, <2>e DEF About
    <3>4. About(o) = {} /\ ~stripe[o].linked
      BY <2>1, <2>3 DEF FollowInv, Onboarded
    <3>6. e.org = o /\ e.at = second /\ e.charges = FALSE
      BY <2>e
    <3>5. About(o)' = {e}
      BY <2>3, <3>4, <3>6 DEF About
    <3>7. \A g \in Flows : flow'[g] = flow[g] \/ (flow'[g].at = "store" /\ flow'[g].org = o)
      BY <2>0, <2>1, <2>3 DEF Step, FlowType, OnboardingCall
    <3>8. Onboarded'
      BY <2>1, <2>2, <3>1, <3>2, <3>3, <3>4, <3>7, Staged DEF FollowInv, Onboarded
    <3>9. Clocked'
      <4>1. org[o].at <= second
        BY <2>1 DEF FollowInv, Clocked, MoneyType, OrganizationRow, Account
      <4> QED  BY <2>1, <2>2, <3>1, <3>2, <3>3, <3>5, <3>6, <4>1 DEF FollowInv, Clocked, MoneyType
    <3>10. Unlinked'
      BY <2>1, <2>2, <3>1, <3>2, <3>3, <3>4, <3>5, <3>6 DEF FollowInv, Unlinked
    <3>11. Newest'
      <4>1. stripe[o].charges = FALSE
        <5>1. ~stripe[o].charges /\ stripe[o].charges \in BOOLEAN
          BY <2>1, <3>4 DEF FollowInv, Unlinked, MoneyType, Account
        <5> QED  BY <5>1
      <4>2. stripe'[o].charges = e.charges /\ e \in About(o)' /\ About(o)' = {e} /\ stripe'[o].at = e.at
        BY <3>1, <3>5, <3>6, <4>1
      <4>3. \A p \in Organizers \ {o} : org'[p] = org[p] /\ stripe'[p] = stripe[p] /\ About(p)' = About(p)
        BY <2>2, <3>2, <3>3
      <4> QED  BY <4>2, <4>3 DEF FollowInv, Newest
    <3> QED  BY <3>8, <3>9, <3>10, <3>11 DEF FollowInv
  <2>4. CASE stripe[o].open /\ Step(f, "store") /\ UNCHANGED <<stripe, events>>
    <3>1. \A g \in Flows : flow'[g] = flow[g] \/ (flow'[g].at = "store" /\ flow'[g].org = o)
      BY <2>0, <2>1, <2>4 DEF Step, FlowType, OnboardingCall
    <3>2. Onboarded'
      BY <2>2, <2>4, <3>1, Staged DEF FollowInv, Onboarded, About
    <3>3. Clocked' /\ Unlinked' /\ Newest'
      BY <2>2, <2>4 DEF FollowInv, Clocked, Unlinked, Newest, About
    <3> QED  BY <3>2, <3>3 DEF FollowInv
  <2>5. CASE Stop(f) /\ UNCHANGED <<stripe, events>>
    BY <2>2, <2>5, FollowKept DEF Stop, FlowType
  <2> QED  BY <1>6, <2>0, <2>e, <2>3, <2>4, <2>5 DEF createExpressAccount
<1>7. ASSUME NEW f \in Flows, StoreAccount(f) PROVE FollowInv'
  <2> DEFINE o == flow[f].org
  <2>1. o \in Organizers /\ flow[f] \in OnboardingCall
    BY <1>7, Staged DEF StoreAccount
  <2>2. UNCHANGED <<stripe, events, second>>
    BY <1>7 DEF StoreAccount
  <2>3. CASE org' = [org EXCEPT ![o].account = TRUE] /\ Step(f, "link")
    <3>1. \A p \in Organizers : org'[p].charges = org[p].charges /\ org'[p].at = org[p].at
      BY <2>1, <2>3 DEF MoneyType, OrganizationRow
    <3>2. org'[o].account /\ \A p \in Organizers \ {o} : org'[p].account = org[p].account
      BY <2>1, <2>3 DEF MoneyType, OrganizationRow
    <3>3. stripe[o].open
      BY <1>7, <2>1 DEF StoreAccount, FollowInv, Onboarded
    <3>4. \A g \in Flows : flow'[g] = flow[g] \/ (flow'[g].at = "link" /\ flow'[g].org = o)
      BY <2>1, <2>3 DEF Step, FlowType, OnboardingCall
    <3> HIDE DEF o
    <3>5. Onboarded'
      BY <2>1, <2>2, <3>2, <3>3, <3>4, Staged DEF FollowInv, Onboarded, About
    <3>6. Clocked' /\ Unlinked' /\ Newest'
      BY <2>2, <3>1 DEF FollowInv, Clocked, Unlinked, Newest, About
    <3> QED  BY <3>5, <3>6 DEF FollowInv
  <2>4. CASE Stop(f) /\ UNCHANGED org
    BY <2>2, <2>4, FollowKept DEF Stop, FlowType
  <2> QED  BY <1>7, <2>3, <2>4 DEF StoreAccount
<1>8. ASSUME NEW f \in Flows, createAccountLink(f) PROVE FollowInv'
  <2> DEFINE o == flow[f].org
  <2>1. o \in Organizers
    BY <1>8, Staged DEF createAccountLink
  <2>2. UNCHANGED <<org, events, second>> /\ flow' = [flow EXCEPT ![f] = Quiet]
    BY <1>8 DEF createAccountLink, Stop
  <2>3. org[o].account
    BY <1>8 DEF createAccountLink, FollowInv, Onboarded
  <2>4. CASE stripe' = stripe
    BY <2>2, <2>4, FollowKept DEF FlowType
  <2>5. CASE stripe' = [stripe EXCEPT ![o].linked = TRUE]
    <3>1. \A p \in Organizers : /\ stripe'[p].open = stripe[p].open /\ stripe'[p].charges = stripe[p].charges
                                /\ stripe'[p].at = stripe[p].at /\ stripe'[p].twice = stripe[p].twice
      BY <2>1, <2>5 DEF MoneyType, Account
    <3>2. stripe'[o].linked /\ \A p \in Organizers \ {o} : stripe'[p].linked = stripe[p].linked
      BY <2>1, <2>5 DEF MoneyType, Account
    <3> HIDE DEF o
    <3>3. Onboarded'
      BY <2>1, <2>2, <2>3, <3>1, <3>2, Staged DEF FollowInv, Onboarded, About, FlowType
    <3>4. Unlinked'
      BY <2>1, <2>2, <3>1, <3>2 DEF FollowInv, Unlinked, About
    <3>5. Clocked' /\ Newest'
      BY <2>2, <3>1 DEF FollowInv, Clocked, Newest, About
    <3> QED  BY <3>3, <3>4, <3>5 DEF FollowInv
  <2> QED  BY <1>8, <2>4, <2>5 DEF createAccountLink
<1>9. ASSUME NEW o \in Organizers, StripeDecides(o) PROVE FollowInv'
  <2> DEFINE e == [org |-> o, charges |-> ~stripe[o].charges, at |-> second]
  <2>1. UNCHANGED <<org, second, flow>> /\ stripe[o].open /\ stripe[o].linked /\ events' = events \cup {e}
    BY <1>9 DEF StripeDecides
  <2>2. /\ stripe'[o].open /\ stripe'[o].linked /\ stripe'[o].at = second
        /\ stripe'[o].charges = ~stripe[o].charges
        /\ stripe'[o].twice <=> stripe[o].at = second
    <3> DEFINE w == (stripe[o].at = second)
    <3>1. stripe' = [stripe EXCEPT ![o].charges = ~@, ![o].at = second, ![o].twice = w]
      BY <1>9 DEF StripeDecides
    <3>2. w \in BOOLEAN
      OBVIOUS
    <3> HIDE DEF w
    <3>3. /\ stripe'[o].open = stripe[o].open /\ stripe'[o].linked = stripe[o].linked
          /\ stripe'[o].at = second /\ stripe'[o].charges = ~stripe[o].charges
          /\ stripe'[o].twice = w
      BY <3>1, <3>2 DEF MoneyType, Account
    <3> QED  BY <3>3, <2>1 DEF w
  <2>3. \A p \in Organizers \ {o} : stripe'[p] = stripe[p]
    BY <1>9 DEF StripeDecides, MoneyType
  <2>4. \A p \in Organizers \ {o} : About(p)' = About(p)
    BY <2>1 DEF About
  <2>5. About(o)' = About(o) \cup {e}
    BY <2>1 DEF About
  <2>6. e.org = o /\ e.at = second /\ e.charges = ~stripe[o].charges
    OBVIOUS
  <2> HIDE DEF e
  <2>7. Onboarded'
    BY <2>1, <2>2, <2>3, <2>4, Staged DEF FollowInv, Onboarded
  <2>8. Clocked'
    <3>1. /\ stripe[o].at <= second /\ org[o].at <= stripe[o].at
          /\ \A d \in About(o) : d.at <= stripe[o].at
      BY DEF FollowInv, Clocked
    <3>2. org[o].at \in Nat /\ stripe[o].at \in Nat /\ second \in Nat /\ \A d \in About(o) : d.at \in Nat
      BY DEF MoneyType, OrganizationRow, Account, Event, About
    <3> QED  BY <2>1, <2>2, <2>3, <2>4, <2>5, <2>6, <3>1, <3>2 DEF FollowInv, Clocked
  <2>9. Unlinked'
    BY <2>1, <2>2, <2>3, <2>4 DEF FollowInv, Unlinked
  <2>10. Newest'
    <3>1. ASSUME ~stripe'[o].twice, NEW d \in About(o) PROVE d.at # second
      <4>1. d.at <= stripe[o].at /\ stripe[o].at <= second /\ stripe[o].at # second
        BY <2>2, <3>1 DEF FollowInv, Clocked
      <4>2. stripe[o].at \in Nat /\ second \in Nat /\ d.at \in Nat
        BY DEF MoneyType, Account, Event, About
      <4> QED  BY <4>1, <4>2
    <3>2. ~stripe'[o].twice =>
            /\ \A d \in About(o)' : d.at = stripe'[o].at => d.charges = stripe'[o].charges
            /\ \E d \in About(o)' : d.at = stripe'[o].at
      BY <2>2, <2>5, <2>6, <3>1
    <3> QED  BY <2>1, <2>3, <2>4, <3>2 DEF FollowInv, Newest
  <2> QED  BY <2>7, <2>8, <2>9, <2>10 DEF FollowInv
<1>10. ASSUME NEW e \in events, handle(e) PROVE FollowInv'
  <2> DEFINE o == e.org
  <2>1. o \in Organizers /\ e.charges \in BOOLEAN /\ e.at \in Nat /\ e \in About(o)
    BY DEF MoneyType, Event, About
  <2>2. UNCHANGED <<stripe, second, flow>> /\ events' \in {events, events \ {e}}
    BY <1>10 DEF handle
  <2>3. /\ \A p \in Organizers : org'[p].account = org[p].account
        /\ \A p \in Organizers \ {o} : org'[p] = org[p]
        /\ IF Supersedes(e) THEN org'[o].charges = e.charges /\ org'[o].at = e.at
                            ELSE org'[o] = org[o]
    BY <1>10, <2>1 DEF handle, MoneyType, OrganizationRow
  <2>4. /\ \A p \in Organizers : About(p)' \subseteq About(p)
        /\ \A p \in Organizers \ {o} : About(p)' = About(p)
        /\ About(o)' = About(o) \/ About(o)' = About(o) \ {e}
    BY <2>2 DEF About
  <2>5. /\ stripe[o].at <= second /\ org[o].at <= stripe[o].at /\ e.at <= stripe[o].at
        /\ org[o].at \in Nat /\ stripe[o].at \in Nat
    BY <2>1 DEF FollowInv, Clocked, MoneyType, OrganizationRow, Account
  <2> HIDE DEF o
  <2>6. Onboarded'
    BY <2>2, <2>3, <2>4, Staged DEF FollowInv, Onboarded
  <2>7. Clocked'
    BY <2>1, <2>2, <2>3, <2>4, <2>5 DEF FollowInv, Clocked
  <2>8. Unlinked'
    <3>1. ~stripe[o].linked => ~e.charges
      BY <2>1 DEF FollowInv, Unlinked
    <3>2. \A p \in Organizers : ~stripe[p].linked => ~org'[p].charges
      BY <2>3, <3>1 DEF FollowInv, Unlinked
    <3> QED  BY <2>2, <2>4, <3>2 DEF FollowInv, Unlinked
  <2>9. Newest'
    <3>1. SUFFICES ASSUME ~stripe[o].twice
                   PROVE  \/ \E d \in About(o)' : d.at = stripe[o].at
                          \/ /\ org'[o].charges = stripe[o].charges
                             /\ org'[o].at = stripe[o].at \/ About(o)' = {}
      BY <2>2, <2>3, <2>4 DEF FollowInv, Newest
    <3>2. \A d \in About(o) : d.at = stripe[o].at => d.charges = stripe[o].charges
      BY <2>1, <3>1 DEF FollowInv, Newest
    <3>3. CASE Supersedes(e) /\ e.at = stripe[o].at
      BY <2>1, <2>3, <3>2, <3>3
    <3>4. CASE ~Supersedes(e) /\ e.at = stripe[o].at
      <4>1. ~org[o].account
        BY <2>5, <3>4 DEF Supersedes, o
      <4>2. ~stripe[o].linked
        BY <2>1, <4>1 DEF FollowInv, Onboarded
      <4>3. ~stripe[o].charges /\ ~org[o].charges /\ \A d \in About(o) : d.at = stripe[o].at /\ ~d.charges
        BY <2>1, <4>2 DEF FollowInv, Unlinked
      <4>4. stripe[o].charges \in BOOLEAN /\ org[o].charges \in BOOLEAN
        BY <2>1 DEF MoneyType, OrganizationRow, Account
      <4>5. CASE About(o)' = {}
        BY <2>3, <3>4, <4>3, <4>4, <4>5
      <4>6. CASE About(o)' # {}
        BY <2>1, <2>4, <4>3, <4>6
      <4> QED  BY <4>5, <4>6
    <3>5. CASE e.at # stripe[o].at
      <4>1. CASE \E d \in About(o) : d.at = stripe[o].at
        BY <2>4, <3>5, <4>1
      <4>2. CASE /\ org[o].charges = stripe[o].charges
                 /\ org[o].at = stripe[o].at \/ About(o) = {}
        <5>1. org[o].at = stripe[o].at
          BY <2>1, <4>2
        <5>2. ~Supersedes(e)
          BY <2>1, <2>5, <3>5, <5>1 DEF Supersedes, o
        <5> QED  BY <2>3, <4>2, <5>1, <5>2
      <4> QED  BY <2>1, <3>1, <4>1, <4>2 DEF FollowInv, Newest
    <3> QED  BY <3>3, <3>4, <3>5
  <2> QED  BY <2>6, <2>7, <2>8, <2>9 DEF FollowInv
<1>11. ASSUME SecondPasses PROVE FollowInv'
  <2>1. UNCHANGED <<org, stripe, events, flow>> /\ second' = second + 1
    BY <1>11 DEF SecondPasses
  <2>2. Onboarded' /\ Unlinked' /\ Newest'
    BY <2>1 DEF FollowInv, Onboarded, Unlinked, Newest, About
  <2>3. Clocked'
    BY <2>1 DEF FollowInv, Clocked, About, MoneyType, Account
  <2> QED  BY <2>2, <2>3 DEF FollowInv
<1>12. ASSUME NEW f \in Flows, SettingsWrite(f) \/ SettingsReload(f) \/ refreshCurrent(f) PROVE FollowInv'
  <2>1. flow[f] \in SettingsCall
    BY <1>12, Staged DEF SettingsWrite, SettingsReload, refreshCurrent
  <2>2. \A g \in Flows : flow'[g] \in {flow[g], Quiet} \/ flow'[g].at \in {"reload", "refresh"}
    BY <1>12, <2>1 DEF SettingsWrite, SettingsReload, refreshCurrent, FlowType, SettingsCall
  <2> QED  BY <1>12, <2>2, FollowKept DEF SettingsWrite, SettingsReload, refreshCurrent, money
<1>13. ASSUME NEW f \in Flows, StepDown(f) \/ AddCommit(f) PROVE FollowInv'
  <2>1. flow[f] \in HostCall
    BY <1>13, Staged DEF StepDown, AddCommit
  <2>2. CASE StepDown(f)
    BY <2>1, <2>2, FollowKept DEF StepDown, money, FlowType, HostCall
  <2>3. CASE AddCommit(f)
    <3>1. \A v : [flow[f] EXCEPT !.at = "stepDown", !.attempt = v].at = "stepDown"
      BY <2>1 DEF HostCall
    <3>2. UNCHANGED <<org, stripe, events, second>>
      BY <2>3 DEF AddCommit, money
    <3>3. \/ flow' = [flow EXCEPT ![f] = IF flow[f].attempt < PrimaryRetries
                      THEN [flow[f] EXCEPT !.at = "stepDown", !.attempt = @ + 1] ELSE Quiet]
          \/ flow' = [flow EXCEPT ![f] = Quiet]
      BY <2>3 DEF AddCommit
    <3>4. \A g \in Flows : flow'[g] \in {flow[g], Quiet} \/ flow'[g].at = "stepDown"
      <4> DEFINE v == flow[f].attempt + 1
      <4>1. [flow[f] EXCEPT !.at = "stepDown", !.attempt = @ + 1]
              = [flow[f] EXCEPT !.at = "stepDown", !.attempt = v]
        BY <2>1 DEF HostCall
      <4> HIDE DEF v
      <4>2. [flow[f] EXCEPT !.at = "stepDown", !.attempt = v].at = "stepDown"
        BY <3>1
      <4> QED  BY <3>3, <4>1, <4>2 DEF FlowType
    <3> QED  BY <3>2, <3>4, FollowKept
  <2> QED  BY <1>13, <2>2, <2>3
<1>14. ASSUME UNCHANGED <<money, flow>> PROVE FollowInv'
  BY <1>14, FollowKept DEF money
<1>15. CASE UNCHANGED organizations
  BY <1>15, <1>14 DEF organizations
<1>16. ASSUME NEW o \in Organizers, NEW h \in Domains, remove(o, h) PROVE FollowInv'
  BY <1>16, <1>14 DEF remove
<1>17. CASE NavigateOffice \/ Reload \/ PublicRequest
  BY <1>17, <1>14 DEF NavigateOffice, Reload, PublicRequest, Visit, OpenOffice
<1>18. ASSUME NEW slug \in Slugs, Navigate(slug) \/ \E h \in Visited : Open(h, slug) \/ OpenOffice(h, slug)
       PROVE  FollowInv'
  BY <1>18, <1>14 DEF Navigate, Open, OpenOffice, Visit
<1> QED
  BY <1>1, <1>2, <1>3, <1>4, <1>5, <1>6, <1>7, <1>8, <1>9, <1>10, <1>11, <1>12, <1>13, <1>15, <1>16,
     <1>17, <1>18 DEF OrganizationsNext

(* An organization's row says of its charges what Stripe said last, unless two
   changes fell within one second: whatever order its events arrive in, and
   however registration, retries, decisions and removals of the account
   interleave (stripe-account.service.ts, handle).  FollowInv is needed because
   the property speaks of an empty inbox only: what the row does not say yet,
   the newest event does. *)
THEOREM OrganizationFollowsStripe == OrganizationsSpec => []ChargesFollowStripe
<1>1. FollowInv => ChargesFollowStripe
  BY DEF FollowInv, Newest, ChargesFollowStripe, About
<1> QED  BY <1>1, TypedInit, TypedStep, FollowInit, FollowStep, PTL DEF OrganizationsSpec

-----------------------------------------------------------------------------
(***************************************************************************)
(* Organizations: SettingsAreSeen                                          *)
(***************************************************************************)

\* A body that saves the default organization's settings is under way
Saving == \E f \in Flows : flow[f] # Quiet /\ flow[f].op = "settings" /\ flow[f].org = Default
SettingsInv == Saving \/ boot = settings[Default] \/ overtaken

\* Settings that rest, while whoever saves them goes on, stay seen or about to be.
LEMMA SettingsKept ==
  ASSUME FlowType, SettingsInv, UNCHANGED <<settings, boot, overtaken>>,
         \A f \in Flows : flow[f] \in SettingsCall => flow'[f] = flow[f]
  PROVE  SettingsInv'
  BY DEF SettingsInv, Saving, FlowType, OnboardingCall, HostCall

\* Every step leaves the settings seen, or a reload to come, or overtaken.
LEMMA SettingsStep == Typed /\ SettingsInv /\ [OrganizationsNext]_organizations => SettingsInv'
<1> SUFFICES ASSUME Typed, SettingsInv, [OrganizationsNext]_organizations PROVE SettingsInv'
  OBVIOUS
<1> USE DEF Typed
<1>a. ASSUME NEW f \in Flows, NEW about, NEW body, Start(f, about, body) PROVE SettingsInv'
  <2>1. flow[f] = Quiet /\ flow' = [flow EXCEPT ![f] = body] /\ UNCHANGED <<settings, boot, overtaken>>
    BY <1>a DEF Start
  <2>2. Quiet \notin SettingsCall
    BY DEF Quiet, SettingsCall
  <2> QED  BY <2>1, <2>2, SettingsKept DEF FlowType
<1>b. ASSUME NEW f \in Flows, flow[f] \notin SettingsCall, UNCHANGED <<settings, boot, overtaken>>,
             \A g \in Flows \ {f} : flow'[g] = flow[g]
      PROVE  SettingsInv'
  BY <1>b, SettingsKept
<1>c. ASSUME UNCHANGED <<settings, boot, overtaken, flow>> PROVE SettingsInv'
  BY <1>c, SettingsKept
<1>1. ASSUME NEW f \in Flows, NEW o \in Onboarding, register(f, o) \/ requestOnboardingLink(f, o)
      PROVE  SettingsInv'
  BY <1>1, <1>a DEF register, requestOnboardingLink
<1>2. ASSUME NEW f \in Flows, NEW o \in Organizers, updateSettings(f, o) PROVE SettingsInv'
  BY <1>2, <1>a DEF updateSettings
<1>3. ASSUME NEW f \in Flows, NEW o \in Organizers, NEW h \in Domains, NEW p \in BOOLEAN, add(f, o, h, p)
      PROVE  SettingsInv'
  BY <1>3, <1>a DEF add
<1>4. ASSUME NEW f \in Flows,
             createOrganizationAndOwner(f) \/ createExpressAccount(f) \/ StoreAccount(f) \/ createAccountLink(f)
      PROVE  SettingsInv'
  <2>1. flow[f] \in OnboardingCall
    BY <1>4, Staged DEF createOrganizationAndOwner, createExpressAccount, StoreAccount, createAccountLink
  <2>2. flow[f] \notin SettingsCall
    BY <2>1 DEF OnboardingCall, SettingsCall
  <2>3. UNCHANGED <<settings, boot, overtaken>> /\ \A g \in Flows \ {f} : flow'[g] = flow[g]
    BY <1>4 DEF createOrganizationAndOwner, createExpressAccount, StoreAccount, createAccountLink,
                Step, Stop, FlowType
  <2> QED  BY <1>b, <2>2, <2>3
<1>5. ASSUME NEW f \in Flows, StepDown(f) \/ AddCommit(f) PROVE SettingsInv'
  <2>1. flow[f] \in HostCall
    BY <1>5, Staged DEF StepDown, AddCommit
  <2>2. flow[f] \notin SettingsCall
    BY <2>1 DEF HostCall, SettingsCall
  <2>3. UNCHANGED <<settings, boot, overtaken>> /\ \A g \in Flows \ {f} : flow'[g] = flow[g]
    BY <1>5 DEF StepDown, AddCommit, FlowType
  <2> QED  BY <1>b, <2>2, <2>3
<1>6. ASSUME NEW f \in Flows, SettingsWrite(f) \/ SettingsReload(f) PROVE SettingsInv'
  <2>1. flow[f] \in SettingsCall /\ flow[f].org \in Organizers /\ Default \in Organizers
    BY <1>6, Staged, OrganizationsAssumption DEF SettingsWrite, SettingsReload
  <2>2. /\ flow'[f] # Quiet /\ flow'[f].op = "settings" /\ flow'[f].org = flow[f].org
        /\ \A g \in Flows \ {f} : flow'[g] = flow[g]
    BY <1>6, <2>1 DEF SettingsWrite, SettingsReload, FlowType, SettingsCall, Quiet
  <2>3. UNCHANGED <<boot, overtaken>>
        /\ (flow[f].org # Default => settings'[Default] = settings[Default])
    BY <1>6, <2>1 DEF SettingsWrite, SettingsReload, FlowType
  <2>4. CASE flow[f].org = Default
    BY <2>2, <2>4 DEF SettingsInv, Saving
  <2>5. CASE flow[f].org # Default
    BY <2>2, <2>3, <2>5 DEF SettingsInv, Saving
  <2> QED  BY <2>4, <2>5
<1>7. ASSUME NEW f \in Flows, refreshCurrent(f) PROVE SettingsInv'
  <2>1. \A g \in Flows \ {f} : flow'[g] = flow[g]
    BY <1>7 DEF refreshCurrent, FlowType
  <2>2. CASE flow[f].org = Default
    BY <1>7, <2>2 DEF refreshCurrent, SettingsInv
  <2>3. CASE flow[f].org # Default
    BY <1>7, <2>1, <2>3 DEF refreshCurrent, SettingsInv, Saving
  <2> QED  BY <2>2, <2>3
<1>8. ASSUME \/ \E o \in Organizers : StripeDecides(o) \/ \E h \in Domains : remove(o, h)
             \/ \E e \in events : handle(e)
             \/ SecondPasses
      PROVE  SettingsInv'
  BY <1>8, <1>c DEF StripeDecides, remove, handle, SecondPasses
<1>9. CASE UNCHANGED organizations
  BY <1>9, <1>c DEF organizations
<1>10. CASE NavigateOffice \/ Reload \/ PublicRequest
  BY <1>10, <1>c DEF NavigateOffice, Reload, PublicRequest, Visit, OpenOffice
<1>11. ASSUME NEW slug \in Slugs, Navigate(slug) \/ \E h \in Visited : Open(h, slug) \/ OpenOffice(h, slug)
       PROVE  SettingsInv'
  BY <1>11, <1>c DEF Navigate, Open, OpenOffice, Visit
<1> QED
  BY <1>1, <1>2, <1>3, <1>4, <1>5, <1>6, <1>7, <1>8, <1>9, <1>10, <1>11 DEF OrganizationsNext

(* Once no save of the default organization's settings is under way, the settings
   the process booted with are those the database holds, unless a save was
   overtaken by another (settings.service.ts, write and refresh). *)
THEOREM SavedSettingsAreSeen == OrganizationsSpec => []SettingsAreSeen
<1>1. SettingsInv => SettingsAreSeen
  BY DEF SettingsInv, Saving, SettingsAreSeen
<1>2. OrganizationsInit => SettingsInv
  BY OrganizationsAssumption DEF OrganizationsInit, SettingsInv
<1> QED  BY <1>1, <1>2, TypedInit, TypedStep, SettingsStep, PTL DEF OrganizationsSpec

-----------------------------------------------------------------------------
(***************************************************************************)
(* Organizations: VisitKeepsOrganizer                                      *)
(***************************************************************************)

Page == [host : Visited \cup {Nobody}, param : Slugs, cached : Slugs, office : BOOLEAN,
         storage : BOOLEAN, stored : [Visited -> Slugs], asked : [Visited -> Slugs]]
VisitType == visit \in Page
DomainType == domain \in [Domains -> {Nobody} \cup [owner : Organizers, primary : BOOLEAN]]

\* The tab knows whom its customer asked for, by memory, storage or address
Knows(v) ==
    /\ v.storage => v.stored = v.asked
    /\ v.host # Nobody =>
          /\ tenantSlug(v) = v.asked[v.host]
          /\ ~v.office => v.param = v.asked[v.host]

\* No organization comes into being while somebody visits: the bounds keep them apart
Unvisited ==
    /\ \A f \in Flows : flow[f] # Quiet /\ flow[f].at = "rows" => matter = "onboarding"
    /\ visit.host # Nobody \/ served # Nobody => matter = "visits"

VisitInv ==
    /\ VisitType /\ DomainType
    /\ served # Nobody => served.asked \in Slugs
    /\ Knows(visit) /\ Unvisited /\ VisitKeepsOrganizer

\* Remembering a slug keeps the page a page (tenant.ts, rememberTenantSlug).
LEMMA RememberPage ==
  ASSUME NEW v \in Page, v.host \in Visited, NEW slug \in Slugs
  PROVE  /\ Remember(v, slug) \in Page
         /\ Remember(v, slug).host = v.host /\ Remember(v, slug).office = v.office
         /\ Remember(v, slug).param = v.param
         /\ Remember(v, slug).storage = v.storage
         /\ slug # Nobody => /\ Remember(v, slug).cached = slug
                             /\ Remember(v, slug).asked = [v.asked EXCEPT ![v.host] = slug]
                             /\ v.storage => Remember(v, slug).stored = [v.stored EXCEPT ![v.host] = slug]
  BY DEF Remember, Page

\* A page on which the storage holds whom its customer asked for
Backed(v) == v \in Page /\ v.host \in Visited /\ (v.storage => v.stored = v.asked)

\* Remembering whom the customer asked for makes the tab know it.
LEMMA RememberKnows ==
  ASSUME NEW v, Backed(v), NEW slug \in Slugs,
         slug # Nobody \/ tenantSlug(v) = v.asked[v.host]
  PROVE  /\ Backed(Remember(v, slug)) /\ Remember(v, slug).host = v.host
         /\ Remember(v, slug).office = v.office
         /\ tenantSlug(Remember(v, slug)) = Remember(v, slug).asked[v.host]
         /\ slug # Nobody => Remember(v, slug).asked[v.host] = slug
<1> DEFINE w == Remember(v, slug)
<1>1. CASE slug = Nobody
  BY <1>1 DEF Remember
<1>2. CASE slug # Nobody
  <2>1. /\ w \in Page /\ w.host = v.host /\ w.office = v.office /\ w.storage = v.storage
        /\ w.cached = slug /\ w.asked = [v.asked EXCEPT ![v.host] = slug]
        /\ v.storage => w.stored = [v.stored EXCEPT ![v.host] = slug]
    BY <1>2, RememberPage DEF Backed
  <2>2. v.asked \in [Visited -> Slugs]
    BY DEF Backed, Page
  <2> HIDE DEF w
  <2>3. Backed(w) /\ tenantSlug(w) = slug /\ w.asked[v.host] = slug
    BY <1>2, <2>1, <2>2 DEF Backed, tenantSlug
  <2> QED  BY <2>1, <2>3 DEF w
<1> QED  BY <1>1, <1>2

\* A page that is loaded knows whom its customer asked for ...
LEMMA LoadedKnows ==
  ASSUME NEW v \in Page, NEW h \in Visited, NEW slug \in Slugs,
         v.storage => v.stored = v.asked,
         v.storage \/ v.asked[h] = Nobody \/ slug # Nobody
  PROVE  LET w == Loaded(v, h, slug) IN
         /\ Backed(w) /\ w.host = h /\ w.office = v.office
         /\ tenantSlug(w) = w.asked[h]
         /\ slug # Nobody => w.asked[h] = slug
<1> DEFINE b == [v EXCEPT !.host = h, !.cached = Nobody, !.param = Nobody]
<1>1. /\ b \in Page /\ b.host = h /\ b.office = v.office /\ b.storage = v.storage
      /\ b.stored = v.stored /\ b.asked = v.asked /\ b.cached = Nobody
  BY DEF Page, Slugs
<1>2. Loaded(v, h, slug) = Remember(b, slug)
  BY DEF Loaded
<1> HIDE DEF b
<1>3. Backed(b) /\ (slug # Nobody \/ tenantSlug(b) = b.asked[b.host])
  BY <1>1 DEF Backed, tenantSlug
<1>4. /\ Backed(Remember(b, slug)) /\ Remember(b, slug).host = h
      /\ Remember(b, slug).office = v.office
      /\ tenantSlug(Remember(b, slug)) = Remember(b, slug).asked[h]
      /\ slug # Nobody => Remember(b, slug).asked[h] = slug
  BY <1>1, <1>3, RememberKnows
<1> QED  BY <1>2, <1>4

\* ... and so does one that is navigated to ...
LEMMA NavigatedKnows ==
  ASSUME NEW v, Backed(v), NEW slug \in Slugs,
         slug # Nobody \/ tenantSlug(v) = v.asked[v.host]
  PROVE  /\ Navigated(v, slug) \in Page /\ Knows(Navigated(v, slug))
         /\ Navigated(v, slug).host = v.host
         /\ [Navigated(v, slug) EXCEPT !.office = FALSE] \in Page
         /\ Knows([Navigated(v, slug) EXCEPT !.office = FALSE])
         /\ [Navigated(v, slug) EXCEPT !.office = FALSE].host = v.host
<1> DEFINE w == Remember(v, slug)
           p == IF slug = Nobody THEN tenantSlug(v) ELSE slug
<1>1. /\ Backed(w) /\ w.host = v.host /\ w.office = v.office
      /\ tenantSlug(w) = w.asked[v.host]
      /\ slug # Nobody => w.asked[v.host] = slug
      /\ slug = Nobody => w = v
  BY RememberKnows DEF Remember
<1>2. p = w.asked[w.host] /\ w.asked[w.host] \in Slugs
  BY <1>1 DEF Backed, Page
<1>3. Navigated(v, slug) = [w EXCEPT !.param = p]
  BY DEF Navigated
<1> HIDE DEF w, p
<1> DEFINE n == [w EXCEPT !.param = p]
<1>4. /\ n \in Page /\ n.host = w.host /\ n.param = p /\ n.storage = w.storage
      /\ n.stored = w.stored /\ n.asked = w.asked /\ n.cached = w.cached
  BY <1>1, <1>2 DEF Backed, Page
<1> HIDE DEF n
<1> DEFINE m == [n EXCEPT !.office = FALSE]
<1>5. /\ m \in Page /\ m.host = n.host /\ m.param = n.param /\ m.storage = n.storage
      /\ m.stored = n.stored /\ m.asked = n.asked /\ m.cached = n.cached
  BY <1>4 DEF Page
<1> HIDE DEF m
<1>6. Knows(n) /\ Knows(m)
  BY <1>1, <1>2, <1>4, <1>5 DEF Knows, tenantSlug, Backed
<1>7. n = Navigated(v, slug) /\ m = [Navigated(v, slug) EXCEPT !.office = FALSE]
  BY <1>3 DEF n, m
<1> QED  BY <1>1, <1>4, <1>5, <1>6, <1>7

\* ... and one whose memory was lost is still a page.
LEMMA ForgottenPage ==
  ASSUME NEW v \in Page, NEW h \in Visited, v.storage => v.stored = v.asked
  PROVE  /\ Forgotten(v, h) \in Page
         /\ Forgotten(v, h).storage => Forgotten(v, h).stored = Forgotten(v, h).asked
         /\ Forgotten(v, h).storage \/ Forgotten(v, h).asked[h] = Nobody
<1> DEFINE n == IF v.storage THEN v.asked[h] ELSE Nobody
           f == [v EXCEPT !.asked = [v.asked EXCEPT ![h] = n]]
<1>1. Forgotten(v, h) = f
  BY DEF Forgotten, Page
<1>2. n \in Slugs /\ v.asked \in [Visited -> Slugs]
  BY DEF Page, Slugs
<1>3. [v.asked EXCEPT ![h] = n] \in [Visited -> Slugs] /\ [v.asked EXCEPT ![h] = n][h] = n
      /\ (v.storage => [v.asked EXCEPT ![h] = n] = v.asked)
  BY <1>2
<1>4. f \in Page /\ f.storage = v.storage /\ f.stored = v.stored /\ f.asked = [v.asked EXCEPT ![h] = n]
  BY <1>3 DEF Page
<1> QED  BY <1>1, <1>3, <1>4

\* Opening a page keeps the tab knowing ...
LEMMA OpenKnows ==
  ASSUME VisitInv, NEW h \in Visited, NEW slug \in Slugs, Open(h, slug) \/ OpenOffice(h, slug)
  PROVE  visit' \in Page /\ Knows(visit') /\ visit'.host = h
<1> DEFINE f == Forgotten(visit, h)
           l == Loaded(f, h, slug)
<1>1. /\ f \in Page /\ (f.storage => f.stored = f.asked)
      /\ f.storage \/ f.asked[h] = Nobody
  BY ForgottenPage DEF VisitInv, VisitType, Knows
<1> HIDE DEF f
<1>2. Backed(l) /\ l.host = h /\ tenantSlug(l) = l.asked[h]
  BY <1>1, LoadedKnows
<1> HIDE DEF l
<1>3. CASE Open(h, slug)
  <2>1. visit' = [Navigated(l, slug) EXCEPT !.office = FALSE]
    BY <1>3 DEF Open, Visit, l, f
  <2> QED  BY <1>2, <2>1, NavigatedKnows
<1>4. CASE OpenOffice(h, slug)
  <2>1. visit' = [l EXCEPT !.office = TRUE]
    BY <1>4 DEF OpenOffice, Visit, l, f
  <2> DEFINE m == [l EXCEPT !.office = TRUE]
  <2>2. /\ m \in Page /\ m.host = l.host /\ m.office /\ m.storage = l.storage
        /\ m.stored = l.stored /\ m.asked = l.asked /\ m.cached = l.cached
    BY <1>2 DEF Page, Backed
  <2> HIDE DEF m
  <2>3. Knows(m)
    BY <1>2, <2>2 DEF Knows, tenantSlug, Backed
  <2> QED  BY <1>2, <2>1, <2>2, <2>3 DEF m
<1> QED  BY <1>3, <1>4

\* ... and so do the router and a reload.
LEMMA MovedKnows ==
  ASSUME VisitInv, NEW slug \in Slugs, Navigate(slug) \/ NavigateOffice \/ Reload
  PROVE  visit' \in Page /\ Knows(visit') /\ visit'.host = visit.host
<1>1. /\ visit \in Page /\ visit.host # Nobody /\ visit.host \in Visited /\ Backed(visit)
      /\ tenantSlug(visit) = visit.asked[visit.host]
      /\ ~visit.office => visit.param = visit.asked[visit.host]
      /\ visit.param \in Slugs
  BY DEF Navigate, NavigateOffice, Reload, VisitInv, VisitType, Knows, Backed, Page
<1>2. CASE Navigate(slug)
  BY <1>1, <1>2, NavigatedKnows DEF Navigate, Visit
<1>3. CASE NavigateOffice
  <2> DEFINE m == [visit EXCEPT !.param = Nobody, !.office = TRUE]
  <2>1. /\ m \in Page /\ m.host = visit.host /\ m.office /\ m.storage = visit.storage
        /\ m.stored = visit.stored /\ m.asked = visit.asked /\ m.cached = visit.cached
    BY <1>1 DEF Page, Slugs
  <2>2. visit' = m
    BY <1>3 DEF NavigateOffice, Visit
  <2> HIDE DEF m
  <2>3. Knows(m)
    BY <1>1, <2>1 DEF Knows, tenantSlug, Backed
  <2> QED  BY <2>1, <2>2, <2>3
<1>4. CASE visit.office /\ OpenOffice(visit.host, Nobody)
  BY <1>1, <1>4, OpenKnows DEF Slugs
<1>5. CASE ~visit.office /\ Visit(Navigated(Loaded(visit, visit.host, visit.param), visit.param))
  <2> DEFINE l == Loaded(visit, visit.host, visit.param)
  <2>1. /\ visit.storage => visit.stored = visit.asked
        /\ visit.storage \/ visit.asked[visit.host] = Nobody \/ visit.param # Nobody
    BY <1>1, <1>5 DEF Backed
  <2>2. Backed(l) /\ l.host = visit.host /\ tenantSlug(l) = l.asked[visit.host]
    BY <1>1, <2>1, LoadedKnows
  <2>3. visit' = Navigated(l, visit.param)
    BY <1>5 DEF Visit
  <2> HIDE DEF l
  <2> QED  BY <1>1, <2>2, <2>3, NavigatedKnows
<1> QED  BY <1>2, <1>3, <1>4, <1>5 DEF Reload

\* What the middleware answers is whom the customer asked for.
LEMMA ServedKeeps == VisitInv /\ PublicRequest => VisitInv'
<1> SUFFICES ASSUME VisitInv, PublicRequest PROVE VisitInv'
  OBVIOUS
<1> DEFINE asked == visit.asked[visit.host]
           owner == IF visit.host = Central \/ domain[visit.host] = Nobody THEN Nobody
                    ELSE domain[visit.host].owner
<1>1. /\ visit.host # Nobody /\ visit.host \in Visited
      /\ UNCHANGED <<org, domain, visit, flow, matter>>
  BY DEF VisitInv, VisitType, Page, PublicRequest, money
<1>2. /\ served'.by = Resolve(visit.host, tenantSlug(visit))
      /\ served'.central = (visit.host = Central)
      /\ served'.asked = asked /\ served'.owner = owner
  BY DEF PublicRequest
<1>3. asked \in Slugs /\ tenantSlug(visit) = asked
  BY <1>1 DEF VisitInv, VisitType, Page, Knows
<1>4. visit.host # Central => visit.host \in Domains
  BY <1>1, OrganizationsAssumption
<1>5. owner # Nobody <=> visit.host # Central /\ domain[visit.host] # Nobody
  BY <1>4, OrganizationsAssumption DEF VisitInv, DomainType
<1> HIDE DEF asked
<1>6. served'.by = IF owner # Nobody THEN owner
                  ELSE IF asked = Nobody THEN Default
                  ELSE IF visit.host = Central /\ org[asked].there THEN asked ELSE Nobody
  BY <1>2, <1>3, <1>5 DEF Resolve, isCentralHost
<1> HIDE DEF owner
<1>7. VisitKeepsOrganizer'
  BY <1>1, <1>2, <1>6 DEF VisitKeepsOrganizer
<1>8. Unvisited'
  BY <1>1 DEF VisitInv, Unvisited
<1> QED
  BY <1>1, <1>2, <1>3, <1>7, <1>8 DEF VisitInv, VisitType, DomainType

\* Only a registration makes an organization, and nobody visits then.
LEMMA VisitKept ==
  ASSUME VisitInv, UNCHANGED <<visit, served, matter>>, DomainType',
         \A f \in Flows : flow'[f] # Quiet /\ flow'[f].at = "rows" =>
             flow[f] = flow'[f] \/ matter = "onboarding",
         matter = "visits" => \A o \in Organizers : org'[o].there = org[o].there
  PROVE  VisitInv'
<1>1. Unvisited'
  BY DEF VisitInv, Unvisited
<1>2. VisitKeepsOrganizer'
  BY DEF VisitInv, Unvisited, VisitKeepsOrganizer, Slugs
<1> QED  BY <1>1, <1>2 DEF VisitInv, VisitType

\* To begin with nobody visits.
LEMMA VisitInit == OrganizationsInit => VisitInv
<1> SUFFICES ASSUME OrganizationsInit PROVE VisitInv
  OBVIOUS
<1>1. /\ visit.host = Nobody /\ visit.param = Nobody /\ visit.cached = Nobody /\ visit.office = FALSE
      /\ visit.storage \in BOOLEAN /\ visit.stored \in [Visited -> {Nobody}]
      /\ visit.asked \in [Visited -> {Nobody}]
      /\ visit = [host |-> visit.host, param |-> visit.param, cached |-> visit.cached,
                  office |-> visit.office, storage |-> visit.storage,
                  stored |-> visit.stored, asked |-> visit.asked]
  BY DEF OrganizationsInit
<1>2. visit.office \in BOOLEAN
  BY <1>1
<1>3. visit.stored \in [Visited -> Slugs] /\ visit.asked \in [Visited -> Slugs]
  BY <1>1 DEF Slugs
<1>4. VisitType
  BY <1>1, <1>2, <1>3 DEF VisitType, Page, Slugs
<1>5. visit.stored = visit.asked
  BY <1>1
<1>6. DomainType /\ Unvisited /\ served = Nobody
  BY <1>1 DEF OrganizationsInit, DomainType, Unvisited
<1> QED  BY <1>1, <1>4, <1>5, <1>6 DEF VisitInv, Knows, VisitKeepsOrganizer

\* Every step keeps whom the customer asked for.
LEMMA VisitStep == Typed /\ VisitInv /\ [OrganizationsNext]_organizations => VisitInv'
<1> SUFFICES ASSUME Typed, VisitInv, [OrganizationsNext]_organizations PROVE VisitInv'
  OBVIOUS
<1> USE DEF Typed
<1>d. domain' = domain => DomainType'
  BY DEF VisitInv, DomainType
<1>a. ASSUME UNCHANGED <<visit, served, matter, domain, org, flow>> PROVE VisitInv'
  BY <1>a, <1>d, VisitKept
<1>b. ASSUME NEW f \in Flows, NEW about, NEW body, Start(f, about, body),
             body.at = "rows" => about = {"onboarding"}
      PROVE  VisitInv'
  BY <1>b, <1>d, VisitKept DEF Start, money, routing, FlowType
<1>c. ASSUME NEW f \in Flows, UNCHANGED <<visit, served, matter, domain>>,
             \A g \in Flows \ {f} : flow'[g] = flow[g],
             flow'[f] = Quiet \/ flow'[f].at # "rows",
             matter = "visits" => \A o \in Organizers : org'[o].there = org[o].there
      PROVE  VisitInv'
  BY <1>c, <1>d, VisitKept
<1>1. ASSUME NEW f \in Flows, NEW o \in Onboarding, register(f, o) PROVE VisitInv'
  BY <1>1, <1>b DEF register
<1>2. ASSUME NEW f \in Flows, NEW o \in Onboarding, requestOnboardingLink(f, o) PROVE VisitInv'
  BY <1>2, <1>b DEF requestOnboardingLink
<1>3. ASSUME NEW f \in Flows, NEW o \in Organizers, updateSettings(f, o) PROVE VisitInv'
  BY <1>3, <1>b DEF updateSettings
<1>4. ASSUME NEW f \in Flows, NEW o \in Organizers, NEW h \in Domains, NEW p \in BOOLEAN, add(f, o, h, p)
      PROVE  VisitInv'
  BY <1>4, <1>b DEF add
<1>5. ASSUME NEW f \in Flows, createOrganizationAndOwner(f) PROVE VisitInv'
  <2>1. flow[f] \in OnboardingCall /\ matter = "onboarding"
    BY <1>5, Staged DEF createOrganizationAndOwner, VisitInv, Unvisited
  <2>2. flow'[f] = Quiet \/ flow'[f].at # "rows"
    BY <1>5, <2>1 DEF createOrganizationAndOwner, Step, Stop, FlowType, OnboardingCall
  <2>3. UNCHANGED <<visit, served, matter, domain>> /\ \A g \in Flows \ {f} : flow'[g] = flow[g]
    BY <1>5 DEF createOrganizationAndOwner, Step, Stop, FlowType, routing
  <2> QED  BY <1>c, <2>1, <2>2, <2>3
<1>6. ASSUME NEW f \in Flows, createExpressAccount(f) \/ StoreAccount(f) \/ createAccountLink(f) PROVE VisitInv'
  <2>1. flow[f] \in OnboardingCall /\ flow[f].org \in Organizers
    BY <1>6, Staged DEF createExpressAccount, StoreAccount, createAccountLink
  <2>2. flow'[f] = Quiet \/ flow'[f].at # "rows"
    BY <1>6, <2>1 DEF createExpressAccount, StoreAccount, createAccountLink, Step, Stop, FlowType, OnboardingCall
  <2>3. UNCHANGED <<visit, served, matter, domain>> /\ \A g \in Flows \ {f} : flow'[g] = flow[g]
    BY <1>6 DEF createExpressAccount, StoreAccount, createAccountLink, Step, Stop, FlowType, routing
  <2>4. \A o \in Organizers : org'[o].there = org[o].there
    BY <1>6, <2>1 DEF createExpressAccount, StoreAccount, createAccountLink, MoneyType, OrganizationRow
  <2> QED  BY <1>c, <2>2, <2>3, <2>4
<1>7. ASSUME NEW f \in Flows, SettingsWrite(f) \/ SettingsReload(f) \/ refreshCurrent(f) PROVE VisitInv'
  <2>1. flow[f] \in SettingsCall
    BY <1>7, Staged DEF SettingsWrite, SettingsReload, refreshCurrent
  <2>2. flow'[f] = Quiet \/ flow'[f].at # "rows"
    BY <1>7, <2>1 DEF SettingsWrite, SettingsReload, refreshCurrent, FlowType, SettingsCall
  <2>3. UNCHANGED <<visit, served, matter, domain, org>> /\ \A g \in Flows \ {f} : flow'[g] = flow[g]
    BY <1>7 DEF SettingsWrite, SettingsReload, refreshCurrent, FlowType, money, routing
  <2> QED  BY <1>c, <2>2, <2>3
<1>8. ASSUME NEW f \in Flows, StepDown(f) \/ AddCommit(f) PROVE VisitInv'
  <2>1. flow[f] \in HostCall /\ flow[f].org \in Organizers /\ flow[f].primary \in BOOLEAN
    BY <1>8, Staged DEF StepDown, AddCommit, HostCall
  <2>2. flow'[f] = Quiet \/ flow'[f].at # "rows"
    <3>1. CASE StepDown(f)
      BY <2>1, <3>1 DEF StepDown, FlowType, HostCall
    <3>2. CASE AddCommit(f)
      <4> DEFINE v == flow[f].attempt + 1
      <4>1. [flow[f] EXCEPT !.at = "stepDown", !.attempt = @ + 1]
              = [flow[f] EXCEPT !.at = "stepDown", !.attempt = v]
        BY <2>1 DEF HostCall
      <4> HIDE DEF v
      <4>2. [flow[f] EXCEPT !.at = "stepDown", !.attempt = v].at = "stepDown"
        BY <2>1 DEF HostCall
      <4>3. \/ flow' = [flow EXCEPT ![f] = IF flow[f].attempt < PrimaryRetries
                      THEN [flow[f] EXCEPT !.at = "stepDown", !.attempt = @ + 1] ELSE Quiet]
            \/ flow' = [flow EXCEPT ![f] = Quiet]
        BY <3>2 DEF AddCommit
      <4> QED  BY <4>1, <4>2, <4>3 DEF FlowType
    <3> QED  BY <1>8, <3>1, <3>2
  <2>3. UNCHANGED <<visit, served, matter, org>> /\ \A g \in Flows \ {f} : flow'[g] = flow[g]
    BY <1>8 DEF StepDown, AddCommit, FlowType, money, routing
  <2>4. DomainType'
    <3>1. CASE domain' = domain
      BY <3>1, <1>d
    <3>2. CASE domain' = [g \in Domains |->
                IF g = flow[f].host THEN [owner |-> flow[f].org, primary |-> flow[f].primary]
                ELSE IF g \in flow[f].down /\ domain[g] # Nobody THEN [domain[g] EXCEPT !.primary = FALSE]
                ELSE domain[g]]
      <4> DEFINE Row == [owner : Organizers, primary : BOOLEAN]
      <4>1. [owner |-> flow[f].org, primary |-> flow[f].primary] \in Row
        BY <2>1
      <4>2. ASSUME NEW g \in Domains, domain[g] # Nobody PROVE [domain[g] EXCEPT !.primary = FALSE] \in Row
        <5>1. domain[g] \in Row
          BY <4>2 DEF VisitInv, DomainType
        <5>2. \A p \in BOOLEAN : [domain[g] EXCEPT !.primary = p] \in Row
          BY <5>1
        <5> QED  BY <5>2
      <4> HIDE DEF Row
      <4>3. \A g \in Domains : domain[g] \in {Nobody} \cup Row
        BY DEF VisitInv, DomainType, Row
      <4>4. domain' \in [Domains -> {Nobody} \cup Row]
        BY <3>2, <4>1, <4>2, <4>3
      <4> QED  BY <4>4 DEF DomainType, Row
    <3> QED  BY <1>8, <3>1, <3>2 DEF StepDown, AddCommit, routing
  <2> QED  BY <2>2, <2>3, <2>4, VisitKept
<1>9. ASSUME NEW o \in Organizers, StripeDecides(o) PROVE VisitInv'
  BY <1>9, <1>a DEF StripeDecides, routing
<1>10. ASSUME NEW e \in events, handle(e) PROVE VisitInv'
  <2>1. UNCHANGED <<visit, served, matter, domain, flow>>
    BY <1>10 DEF handle, routing
  <2>2. \A o \in Organizers : org'[o].there = org[o].there
    BY <1>10 DEF handle, MoneyType, OrganizationRow
  <2> QED  BY <1>d, <2>1, <2>2, VisitKept
<1>11. ASSUME SecondPasses PROVE VisitInv'
  BY <1>11, <1>a DEF SecondPasses, routing
<1>12. ASSUME NEW o \in Organizers, NEW h \in Domains, remove(o, h) PROVE VisitInv'
  <2>1. DomainType'
    BY <1>12 DEF remove, VisitInv, DomainType
  <2> QED  BY <1>12, <2>1, VisitKept DEF remove, money
<1>13. CASE PublicRequest
  BY <1>13, ServedKeeps
<1>14. ASSUME visit' \in Page, Knows(visit'), matter = "visits", UNCHANGED <<org, domain, served, flow, matter>>
       PROVE  VisitInv'
  BY <1>14 DEF VisitInv, VisitType, DomainType, Unvisited, VisitKeepsOrganizer
<1>15. CASE NavigateOffice \/ Reload
  <2>1. Nobody \in Slugs
    BY DEF Slugs
  <2>2. matter = "visits" /\ UNCHANGED <<org, domain, served, flow, matter>>
    BY <1>15 DEF NavigateOffice, Reload, Visit, OpenOffice, money
  <2> QED  BY <1>14, <1>15, <2>1, <2>2, MovedKnows
<1>16. ASSUME NEW slug \in Slugs, Navigate(slug) PROVE VisitInv'
  BY <1>14, <1>16, MovedKnows DEF Navigate, Visit, money
<1>17. ASSUME NEW slug \in Slugs, NEW h \in Visited, Open(h, slug) \/ OpenOffice(h, slug) PROVE VisitInv'
  BY <1>14, <1>17, OpenKnows DEF Open, OpenOffice, Visit, money
<1>18. CASE UNCHANGED organizations
  BY <1>18, <1>a DEF organizations, money, routing
<1> QED
  BY <1>1, <1>2, <1>3, <1>4, <1>5, <1>6, <1>7, <1>8, <1>9, <1>10, <1>11, <1>12, <1>13, <1>15, <1>16,
     <1>17, <1>18 DEF OrganizationsNext

(* A public request is answered as the organization its customer asked for, by
   address, memory or storage, through navigation, the office and reloads
   (tenant.ts; tenant.middleware.ts).  Unvisited says that the bounds keep the
   registration of an organization apart from visits to it. *)
THEOREM CustomerIsServedAsAsked == OrganizationsSpec => []VisitKeepsOrganizer
<1>1. VisitInv => VisitKeepsOrganizer
  BY DEF VisitInv
<1> QED  BY <1>1, TypedInit, TypedStep, VisitInit, VisitStep, PTL DEF OrganizationsSpec

-----------------------------------------------------------------------------
(***************************************************************************)
(* Accounts: types.  What a request in flight carries depends on how far   *)
(* it has come.                                                            *)
(***************************************************************************)

UserRows == [state : {"active", "archived", "absent"}, grant : Grants, pw : Nat, failed : Nat,
             lock : {"no", "locked", "elapsed"}]

DatabaseType ==
    /\ users \in [Users -> UserRows]
    /\ links \in [Links -> {None} \cup PasswordLinks]
    /\ resets \in [Users -> Nat \X Nat]
RedisType ==
    /\ store \in [Sids -> {None} \cup Sessions] /\ index \in [Users -> SUBSET Sids]
    /\ aged \subseteq Sids /\ issued \subseteq Sids /\ excused \subseteq Sids
    /\ vouched \in [Sids -> Nat]
    /\ \A s \in Sids : store[s] # None => s \in issued
BrowserType ==
    /\ cookie \in issued \cup {None} /\ signedOut \in BOOLEAN
    /\ tab \in [user : Users \cup {None}, expired : BOOLEAN, generation : Nat]

OfficeOps == {"page", "update", "archive", "create"}
\* How far a request has come tells what it is for
Fits(at, op) ==
    \/ at \in {"lookup", "decide", "create"} /\ op = "login"
    \/ at = "arrive" /\ op = "logout"
    \/ at \in {"middleware", "touch"} /\ op \in OfficeOps
    \/ at \in {"guard", "enter", "handle"} /\ op \in OfficeOps \cup {"me", "password"}
    \/ at = "write" /\ op \in {"password", "update", "archive"}
    \/ at = "revoke" /\ op \in {"password", "update", "archive", "reset"}
    \/ at = "invite" /\ op = "create"
    \/ at = "claim" /\ op = "reset"
    \/ at = "answered" /\ op \in TabOps

\* A session was read, and what it is allowed to do goes by that copy
Carries(r) == r # Idle /\ r.at \in {"touch", "enter", "handle", "write"}

Shape(r, ids) ==
    \/ r = Idle
    \/ /\ {"op", "gen", "at"} \subseteq DOMAIN r /\ r.op # "idle" /\ r.gen \in Nat
       /\ Fits(r.at, r.op)
       /\ r.op \in {"login", "update", "archive", "create", "reset"} /\ r.at # "answered" =>
             "about" \in DOMAIN r /\ r.about \in Users
       /\ r.at \in {"decide", "create"} \/ (r.at = "write" /\ r.op # "password") =>
             "row" \in DOMAIN r /\ r.row \in UserRows
       /\ r.at \in {"arrive", "middleware", "guard"} => "sid" \in DOMAIN r /\ r.sid \in ids \cup {None}
       /\ r.at \in {"guard", "enter", "handle", "write"} => "scope" \in DOMAIN r
       /\ Carries(r) => /\ "sid" \in DOMAIN r /\ r.sid \in ids
                        /\ "session" \in DOMAIN r /\ r.session \in Sessions
       /\ r.op = "update" => "patch" \in DOMAIN r /\ r.patch \in Patches
       /\ r.at = "claim" => {"link", "keep"} \subseteq DOMAIN r /\ r.link \in Links /\ r.keep = None
       /\ r.at = "revoke" => /\ {"about", "keep"} \subseteq DOMAIN r
                             /\ r.about \in Users /\ r.keep \in ids \cup {None}
       /\ r.at = "answered" => /\ {"status", "user", "sid"} \subseteq DOMAIN r
                               /\ r.user \in Users \cup {None} /\ r.sid \in ids \cup {None}

CallType ==
    /\ call = [c \in Calls |-> call[c]]
    /\ \A c \in Calls : Shape(call[c], issued)

\* One sign-in at a time, and a session id left for it
Lone ==
    /\ \A c, d \in Calls : call[c].op = "login" /\ call[d].op = "login" => c = d
    /\ \A c \in Calls : call[c].op = "login" /\ call[c].at # "answered" => issued # Sids

\* The link a confirmation is about is there, and is its user's
Claimed ==
    \A c \in Calls : call[c] # Idle /\ call[c].at = "claim" =>
        links[call[c].link] # None /\ links[call[c].link].user = call[c].about

AccountsType == DatabaseType /\ RedisType /\ BrowserType /\ CallType /\ Lone


-----------------------------------------------------------------------------
\* Requests

\* What Over says is what the new record says, and else what the old one said.
LEMMA Spread ==
  ASSUME NEW f, NEW g
  PROVE  /\ DOMAIN Over(f, g) = DOMAIN f \cup DOMAIN g
         /\ \A x \in DOMAIN f : Over(f, g)[x] = f[x]
         /\ \A x \in DOMAIN g \ DOMAIN f : Over(f, g)[x] = g[x]
  BY DEF Over

\* Going on changes what it says, and nothing else.
LEMMA WentOn ==
  ASSUME CallType, NEW c \in Calls, NEW to, Go(c, to)
  PROVE  /\ call' = [d \in Calls |-> call'[d]]
         /\ \A d \in Calls \ {c} : call'[d] = call[d]
         /\ DOMAIN call'[c] = DOMAIN to \cup DOMAIN call[c]
         /\ \A x \in DOMAIN to : call'[c][x] = to[x]
         /\ \A x \in DOMAIN call[c] \ DOMAIN to : call'[c][x] = call[c][x]
         /\ UNCHANGED <<topic, made>>
<1>1. call' = [call EXCEPT ![c] = Over(to, call[c])] /\ UNCHANGED <<topic, made>>
  BY DEF Go
<1>2. call'[c] = Over(to, call[c]) /\ call' = [d \in Calls |-> call'[d]] /\ \A d \in Calls \ {c} : call'[d] = call[d]
  BY <1>1 DEF CallType
<1>3. /\ DOMAIN Over(to, call[c]) = DOMAIN to \cup DOMAIN call[c]
      /\ \A x \in DOMAIN to : Over(to, call[c])[x] = to[x]
      /\ \A x \in DOMAIN call[c] \ DOMAIN to : Over(to, call[c])[x] = call[c][x]
  BY Spread, Zenon
<1> QED  BY <1>1, <1>2, <1>3

\* A call that was sent is new, and carries what its sender put in.
LEMMA WasSent ==
  ASSUME CallType, NEW c \in Calls, NEW op, NEW body, Send(c, op, body)
  PROVE  /\ call' = [d \in Calls |-> call'[d]]
         /\ \A d \in Calls \ {c} : call'[d] = call[d]
         /\ DOMAIN call'[c] = {"op", "gen"} \cup DOMAIN body
         /\ call'[c].op = op /\ call'[c].gen = tab.generation
         /\ \A x \in DOMAIN body \ {"op", "gen"} : call'[c][x] = body[x]
         /\ call[c] = Idle /\ op \in Ops(topic)
         /\ UNCHANGED <<redis, browser, database, topic>>
<1> DEFINE head == [op |-> op, gen |-> tab.generation]
<1>1. /\ call' = [call EXCEPT ![c] = Over(head, body)] /\ call[c] = Idle /\ op \in Ops(topic)
      /\ UNCHANGED <<redis, browser, database, topic>>
  BY DEF Send
<1>2. call'[c] = Over(head, body) /\ call' = [d \in Calls |-> call'[d]] /\ \A d \in Calls \ {c} : call'[d] = call[d]
  BY <1>1 DEF CallType
<1>3. DOMAIN head = {"op", "gen"} /\ head["op"] = op /\ head["gen"] = tab.generation
  OBVIOUS
<1> HIDE DEF head
<1>4. /\ DOMAIN Over(head, body) = DOMAIN head \cup DOMAIN body
      /\ \A x \in DOMAIN head : Over(head, body)[x] = head[x]
      /\ \A x \in DOMAIN body \ DOMAIN head : Over(head, body)[x] = body[x]
  BY Spread, Zenon
<1> QED  BY <1>1, <1>2, <1>3, <1>4

\* A reply answers a call of the tab, and ends any other; nobody else moves.
LEMMA WasReplied ==
  ASSUME CallType, NEW c \in Calls, NEW status, NEW u, NEW sid, Reply(c, status, u, sid)
  PROVE  /\ call' = [d \in Calls |-> call'[d]]
         /\ \A d \in Calls \ {c} : call'[d] = call[d]
         /\ \/ call[c].op \notin TabOps /\ call'[c] = Idle
            \/ /\ call[c].op \in TabOps
               /\ call'[c] = [op |-> call[c].op, gen |-> call[c].gen, at |-> "answered",
                             status |-> status, user |-> u, sid |-> sid]
         /\ UNCHANGED <<topic, made>>
  BY DEF Reply, CallType

\* A request keeps its shape while session ids are handed out.
LEMMA Grows == ASSUME NEW r, NEW A, NEW B, A \subseteq B, Shape(r, A) PROVE Shape(r, B)
  BY DEF Shape

\* One request changes into one of a proper shape: so all have theirs.
LEMMA CallChanged ==
  ASSUME CallType, issued \subseteq issued', NEW c \in Calls,
         call' = [d \in Calls |-> call'[d]],
         \A d \in Calls \ {c} : call'[d] = call[d], Shape(call'[c], issued')
  PROVE  CallType'
<1>1. ASSUME NEW d \in Calls PROVE Shape(call'[d], issued')
  <2>1. CASE d = c
    BY <2>1
  <2>2. CASE d # c
    <3>1. Shape(call[d], issued) /\ call'[d] = call[d]
      BY <2>2 DEF CallType
    <3> QED  BY <3>1, Grows
  <2> QED  BY <2>1, <2>2
<1> QED  BY <1>1 DEF CallType

\* A request that has ended has a shape, and so has an answer.
LEMMA IdleShape == \A ids : Shape(Idle, ids)
  BY DEF Shape
LEMMA AnswerShape ==
  ASSUME NEW ids, NEW op \in TabOps, NEW gen \in Nat, NEW status, NEW u \in Users \cup {None},
         NEW sid \in ids \cup {None}
  PROVE  Shape([op |-> op, gen |-> gen, at |-> "answered", status |-> status, user |-> u, sid |-> sid], ids)
  BY DEF Shape, Fits, Carries, TabOps

\* A reply leaves every request its shape (Reply).
LEMMA ReplyTyped ==
  ASSUME CallType, issued \subseteq issued', NEW c \in Calls, call[c] # Idle, NEW status,
         NEW u \in Users \cup {None}, NEW sid \in issued' \cup {None}, Reply(c, status, u, sid)
  PROVE  CallType'
<1>1. call[c].gen \in Nat
  BY DEF CallType, Shape
<1>2. CASE call'[c] = Idle
  BY <1>2, WasReplied, IdleShape, CallChanged
<1>3. CASE /\ call[c].op \in TabOps
           /\ call'[c] = [op |-> call[c].op, gen |-> call[c].gen, at |-> "answered",
                          status |-> status, user |-> u, sid |-> sid]
  <2>1. Shape(call'[c], issued')
    <3> DEFINE op == call[c].op
               gen == call[c].gen
    <3> HIDE DEF op, gen
    <3>1. op \in TabOps /\ gen \in Nat
      BY <1>1, <1>3 DEF op, gen
    <3>2. Shape([op |-> op, gen |-> gen, at |-> "answered", status |-> status, user |-> u, sid |-> sid], issued')
      BY <3>1, AnswerShape
    <3> QED  BY <3>2, <1>3 DEF op, gen
  <2> QED  BY <2>1, WasReplied, CallChanged
<1> QED  BY <1>2, <1>3, WasReplied
-----------------------------------------------------------------------------
\* What becomes of the sessions

\* Sessions go and none comes; the index still names those that stand.
Shrinks ==
    /\ \A s \in Sids : store'[s] \in {None, store[s]}
    /\ \A u \in Users : \A s \in index[u] : store'[s] # None => s \in index'[u]
    /\ aged \subseteq aged' /\ UNCHANGED <<issued, vouched, excused>>

\* A step that leaves Redis alone takes nothing away.
LEMMA NothingShrinks == ASSUME UNCHANGED redis PROVE Shrinks
  BY DEF Shrinks, redis

\* SessionStore.destroy takes one session and its place in the index.
LEMMA DestroyShrinks ==
  ASSUME RedisType, NEW sid, destroy(sid) PROVE Shrinks /\ RedisType'
<1>1. /\ store' = [i \in Sids |-> IF i \in {sid} THEN None ELSE store[i]]
      /\ UNCHANGED <<aged, issued, vouched, excused>>
  BY DEF destroy, Deleted
<1>2. /\ index' \in [Users -> SUBSET Sids]
      /\ \A u \in Users : \A s \in index[u] : s # sid => s \in index'[u]
  <2>1. CASE sid \in Sids /\ store[sid] # None
    BY <2>1 DEF destroy, RedisType, Sessions
  <2>2. CASE ~(sid \in Sids /\ store[sid] # None)
    BY <2>2 DEF destroy, RedisType
  <2> QED  BY <2>1, <2>2
<1> QED  BY <1>1, <1>2 DEF Shrinks, RedisType

\* SessionStore.destroySessionsOf takes the indexed sessions of a user but one.
LEMMA DestroyAllShrinks ==
  ASSUME RedisType, NEW u \in Users, NEW keep, destroySessionsOf(u, keep) PROVE Shrinks /\ RedisType'
<1>1. /\ store' = [i \in Sids |-> IF i \in index[u] \ {keep} THEN None ELSE store[i]]
      /\ index' = [index EXCEPT ![u] = @ \cap {keep}]
      /\ UNCHANGED <<aged, issued, vouched, excused>>
  BY DEF destroySessionsOf, Deleted
<1>2. index' \in [Users -> SUBSET Sids]
  BY <1>1 DEF RedisType
<1>3. \A v \in Users : \A s \in index[v] : store'[s] # None => s \in index'[v]
  BY <1>1 DEF RedisType
<1> QED  BY <1>1, <1>2, <1>3 DEF Shrinks, RedisType

\* A read past the absolute cap takes the session, any other read nothing.
LEMMA PurgeShrinks ==
  ASSUME RedisType, NEW sid, Purge(sid) PROVE Shrinks /\ RedisType'
<1>1. CASE destroy(sid)
  BY <1>1, DestroyShrinks
<1>2. CASE UNCHANGED redis
  BY <1>2, NothingShrinks DEF redis, RedisType
<1> QED  BY <1>1, <1>2 DEF Purge

\* A session that runs out goes, or reads as absent from now on.
LEMMA LapseShrinks == ASSUME RedisType, NEW sid \in Sids, Lapse(sid) PROVE Shrinks /\ RedisType'
<1>1. /\ \/ store' = [i \in Sids |-> IF i \in {sid} THEN None ELSE store[i]] /\ aged' = aged
         \/ store' = store /\ aged' = aged \cup {sid}
      /\ UNCHANGED <<index, issued, vouched, excused>>
  BY DEF Lapse, Deleted
<1> QED  BY <1>1 DEF Shrinks, RedisType

\* The SET of a read writes the session its GET returned, over whatever is there.
LEMMA TouchTyped ==
  ASSUME RedisType, CallType, NEW c \in Calls, Carries(call[c]), Touch(c)
  PROVE  /\ RedisType' /\ UNCHANGED <<index, aged, issued, vouched>>
         /\ call[c].sid \in issued /\ call[c].session \in Sessions
         /\ store' = [store EXCEPT ![call[c].sid] = call[c].session]
         /\ excused \subseteq excused' /\ (store[call[c].sid] = None => call[c].sid \in excused')
<1>1. call[c].sid \in issued /\ call[c].session \in Sessions
  BY DEF CallType, Shape, Carries
<1>2. /\ store' = [store EXCEPT ![call[c].sid] = call[c].session]
      /\ excused' = IF store[call[c].sid] = None THEN excused \cup {call[c].sid} ELSE excused
      /\ UNCHANGED <<index, aged, issued, vouched>>
  BY DEF Touch
<1> QED  BY <1>1, <1>2 DEF RedisType

-----------------------------------------------------------------------------
\* Steps of a request

\* A request under way that is not a new sign-in keeps sign-ins alone.
LEMMA LoneKept ==
  ASSUME Lone, UNCHANGED issued, NEW c \in Calls, \A d \in Calls \ {c} : call'[d] = call[d],
         call'[c].op = "login" => call[c].op = "login" /\ (call'[c].at # "answered" => call[c].at # "answered")
  PROVE  Lone'
  BY DEF Lone

\* A request that goes on to a proper shape leaves requests and sign-ins in order.
LEMMA Goes ==
  ASSUME CallType, Lone, UNCHANGED issued, NEW c \in Calls, NEW to, Go(c, to),
         call[c] # Idle, call[c].at # "answered", "op" \notin DOMAIN to, Shape(call'[c], issued)
  PROVE  CallType' /\ Lone'
<1>1. /\ call' = [d \in Calls |-> call'[d]]
      /\ \A d \in Calls \ {c} : call'[d] = call[d]
      /\ \A x \in DOMAIN call[c] \ DOMAIN to : call'[c][x] = call[c][x]
  BY WentOn
<1>2. call'[c].op = call[c].op
  BY <1>1 DEF CallType, Shape
<1> QED  BY <1>1, <1>2, CallChanged, LoneKept

\* A request that is replied to does, and one that ends.
LEMMA Ends ==
  ASSUME CallType, Lone, UNCHANGED issued, NEW c \in Calls, call[c] # Idle, call[c].at # "answered",
         NEW status, NEW u \in Users \cup {None}, NEW sid \in issued \cup {None}, Reply(c, status, u, sid)
  PROVE  CallType' /\ Lone'
<1>1. CallType'
  BY ReplyTyped
<1>2. /\ \A d \in Calls \ {c} : call'[d] = call[d]
      /\ call'[c].op \in {"idle", call[c].op}
  <2>1. \A d \in Calls \ {c} : call'[d] = call[d]
    BY WasReplied
  <2>2. CASE call'[c] = Idle
    BY <2>1, <2>2 DEF Idle
  <2>3. CASE call'[c] = [op |-> call[c].op, gen |-> call[c].gen, at |-> "answered",
                         status |-> status, user |-> u, sid |-> sid]
    BY <2>1, <2>3
  <2> QED  BY <2>2, <2>3, WasReplied
<1>3. Lone'
  BY <1>2, LoneKept
<1> QED  BY <1>1, <1>3

\* The same of a request that ends without a user.
LEMMA Ended ==
  ASSUME CallType, Lone, UNCHANGED issued, NEW c \in Calls, call[c] # Idle, call[c].at # "answered",
         NEW status, End(c, status)
  PROVE  CallType' /\ Lone'
<1>1. None \in Users \cup {None} /\ None \in issued \cup {None} /\ Reply(c, status, None, None)
  BY DEF End
<1> QED  BY <1>1, Ends

\* The same of a call that is sent, when it is no sign-in.
LEMMA Sent ==
  ASSUME CallType, Lone, NEW c \in Calls, NEW op, NEW body, Send(c, op, body), op # "login",
         Shape(call'[c], issued)
  PROVE  CallType' /\ Lone'
<1>1. /\ call' = [d \in Calls |-> call'[d]]
      /\ \A d \in Calls \ {c} : call'[d] = call[d]
      /\ call'[c].op = op /\ UNCHANGED issued
  BY WasSent DEF redis
<1> QED  BY <1>1, CallChanged, LoneKept
-----------------------------------------------------------------------------
\* A request that goes on is the one it was.
Advanced(c, to) ==
    /\ {"op", "gen", "at"} \subseteq DOMAIN call'[c]
    /\ call'[c].op = call[c].op /\ call[c].op # "idle" /\ call'[c].gen = call[c].gen /\ call[c].gen \in Nat /\ call'[c].at = to.at
    /\ call[c].op \in {"login", "update", "archive", "create", "reset"} =>
          "about" \in DOMAIN call'[c] /\ call'[c].about \in Users
    /\ call[c].op = "update" => "patch" \in DOMAIN call'[c] /\ call'[c].patch \in Patches
    /\ \A x \in DOMAIN to : x \in DOMAIN call'[c] /\ call'[c][x] = to[x]
    /\ \A x \in DOMAIN call[c] \ DOMAIN to : x \in DOMAIN call'[c] /\ call'[c][x] = call[c][x]

\* Going on keeps what a request is for, and whom it is about.
LEMMA Moved ==
  ASSUME CallType, NEW c \in Calls, NEW to, Go(c, to), call[c] # Idle, call[c].at # "answered",
         "at" \in DOMAIN to, DOMAIN to \cap {"op", "gen", "patch"} = {},
         "about" \in DOMAIN to => to.about \in Users
  PROVE  Advanced(c, to)
<1>1. /\ DOMAIN call'[c] = DOMAIN to \cup DOMAIN call[c]
      /\ \A x \in DOMAIN to : call'[c][x] = to[x]
      /\ \A x \in DOMAIN call[c] \ DOMAIN to : call'[c][x] = call[c][x]
  BY WentOn
<1>2. /\ {"op", "gen", "at"} \subseteq DOMAIN call[c] /\ call[c].gen \in Nat /\ call[c].op # "idle"
      /\ call[c].op \in {"login", "update", "archive", "create", "reset"} =>
            "about" \in DOMAIN call[c] /\ call[c].about \in Users
      /\ call[c].op = "update" => "patch" \in DOMAIN call[c] /\ call[c].patch \in Patches
  BY DEF CallType, Shape
<1> QED  BY <1>1, <1>2 DEF Advanced

\* What is left alone keeps its type.
LEMMA RedisRests == ASSUME RedisType, UNCHANGED redis PROVE RedisType' /\ UNCHANGED issued
  BY DEF RedisType, redis
LEMMA BrowserRests == ASSUME BrowserType, UNCHANGED <<browser, issued>> PROVE BrowserType'
  BY DEF BrowserType, browser
LEMMA DatabaseRests == ASSUME DatabaseType, UNCHANGED database PROVE DatabaseType'
  BY DEF DatabaseType, database

\* A row with another password is a row.
LEMMA PasswordTyped ==
  ASSUME DatabaseType, NEW u \in Users, NEW n \in Nat, users' = [users EXCEPT ![u].pw = n]
  PROVE  users' \in [Users -> UserRows]
  BY DEF DatabaseType, UserRows

\* A row with other rights is a row.
LEMMA GrantTyped ==
  ASSUME DatabaseType, NEW u \in Users, NEW g \in Grants, users' = [users EXCEPT ![u].grant = g]
  PROVE  users' \in [Users -> UserRows]
  BY DEF DatabaseType, UserRows

\* A patch the schema lets through leaves rights that are rights.
LEMMA PatchedTyped ==
  ASSUME NEW g \in Grants, NEW p \in Patches
  PROVE  Patched(g, p) \in Grants
<1>1. /\ "role" \in DOMAIN p => p.role \in {"OWNER", "ADMIN", "EMPLOYEE"}
      /\ "refunds" \in DOMAIN p => p.refunds \in BOOLEAN
      /\ "employee" \in DOMAIN p => p.employee \in Nat
  BY RightsAssumption DEF RightsAssumption
<1>2. DOMAIN g = {"role", "refunds", "employee"} /\ g.role \in {"OWNER", "ADMIN", "EMPLOYEE"}
      /\ g.refunds \in BOOLEAN /\ g.employee \in Nat
  BY DEF Grants
<1> DEFINE q == Patched(g, p)
<1>3. /\ q = [f \in {"role", "refunds", "employee"} |-> q[f]]
      /\ q["role"] = IF "role" \in DOMAIN p THEN p["role"] ELSE g["role"]
      /\ q["refunds"] = IF "refunds" \in DOMAIN p THEN p["refunds"] ELSE g["refunds"]
      /\ q["employee"] = IF "employee" \in DOMAIN p THEN p["employee"] ELSE g["employee"]
  BY <1>2 DEF Patched
<1> HIDE DEF q
<1>4. q["role"] \in {"OWNER", "ADMIN", "EMPLOYEE"} /\ q["employee"] \in Nat
  BY <1>1, <1>2, <1>3
<1>5. q["refunds"] \in BOOLEAN
  BY <1>1, <1>2, <1>3
<1>6. q \in Grants
  BY <1>3, <1>4, <1>5 DEF Grants
<1> QED  BY <1>6 DEF q

\* Setting a password leaves the row a row, and spending links a link.
LEMMA ResetTyped ==
  ASSUME DatabaseType, NEW u \in Users,
         users' = [users EXCEPT ![u].pw = @ + 1, ![u].failed = 0, ![u].lock = "no"]
  PROVE  users' \in [Users -> UserRows]
<1>1. PICK n \in Nat : n = users[u].pw + 1
  BY DEF DatabaseType, UserRows
<1>2. users[u] \in UserRows /\ users = [v \in Users |-> users[v]]
  BY DEF DatabaseType
<1>3. /\ users' = [v \in Users |-> users'[v]] /\ \A v \in Users \ {u} : users'[v] = users[v]
      /\ users'[u] = [users[u] EXCEPT !.pw = n, !.failed = 0, !.lock = "no"]
  BY <1>1, <1>2
<1>4. users'[u] \in UserRows
  BY <1>2, <1>3 DEF UserRows
<1> QED  BY <1>3, <1>4 DEF DatabaseType

\* Links that are spent are links.
LEMMA SpentTyped ==
  ASSUME DatabaseType, NEW l, links' = Spent(l)
  PROVE  links' \in [Links -> {None} \cup PasswordLinks]
  BY DEF Spent, DatabaseType, PasswordLinks

\* A link that is mailed is written where none is.
LEMMA Requested ==
  ASSUME NEW u, request(u)
  PROVE  NewLink \in Links /\ links[NewLink] = None /\ links' = [links EXCEPT ![NewLink] = Fresh(u)]
  BY DEF request, NewLink

\* A mailed link is a link (PasswordResetService.request).
LEMMA RequestTyped ==
  ASSUME DatabaseType, NEW u \in Users, request(u), UNCHANGED <<users, resets>>
  PROVE  DatabaseType'
<1>1. NewLink \in Links /\ links' = [links EXCEPT ![NewLink] = Fresh(u)]
  BY Requested
<1>2. Fresh(u) \in PasswordLinks
  BY DEF Fresh, PasswordLinks, DatabaseType
<1> HIDE DEF NewLink
<1> QED  BY <1>1, <1>2 DEF DatabaseType

\* An answer frees its request.
LEMMA Freed ==
  ASSUME CallType, NEW c \in Calls, call' = [call EXCEPT ![c] = Idle]
  PROVE  /\ call' = [d \in Calls |-> call'[d]] /\ call'[c] = Idle
         /\ \A d \in Calls \ {c} : call'[d] = call[d]
  BY DEF CallType

\* What an answer makes of the tab
LEMMA AnswerSeen ==
  ASSUME NEW c \in Calls, Hydrated(c) \/ LoggedIn(c) \/ LoggedOut(c) \/ SessionCallAnswered(c)
  PROVE  /\ call[c] # Idle /\ call[c].at = "answered"
         /\ \/ call[c].op = "me" /\ Hydrated(c)
            \/ call[c].op = "login" /\ LoggedIn(c)
            \/ call[c].op = "logout" /\ LoggedOut(c)
            \/ call[c].op \in {"page", "password"} /\ SessionCallAnswered(c)
  BY DEF Hydrated, LoggedIn, LoggedOut, SessionCallAnswered, Answered, Idle

\* An answer that is lost is an answer.
LEMMA LostShape ==
  ASSUME NEW r, NEW ids, Shape(r, ids), r # Idle, r.at = "answered"
  PROVE  Shape([r EXCEPT !.status = "lost"], ids)
<1> DEFINE q == [r EXCEPT !.status = "lost"]
<1>1. {"op", "gen", "at", "status", "user", "sid"} \subseteq DOMAIN r
  BY DEF Shape
<1>2. DOMAIN q = DOMAIN r /\ \A x \in DOMAIN r \ {"status"} : q[x] = r[x]
  OBVIOUS
<1> HIDE DEF q
<1>3. q.op = r.op /\ q.gen = r.gen /\ q.at = "answered" /\ q.user = r.user /\ q.sid = r.sid
  BY <1>1, <1>2
<1>4. q.op = "update" => "patch" \in DOMAIN q /\ q.patch \in Patches
  BY <1>2, <1>3 DEF Shape
<1>5. Shape(q, ids)
  BY <1>1, <1>2, <1>3, <1>4 DEF Shape, Carries, Fits
<1> QED  BY <1>5 DEF q

\* Every step of every request keeps the types: each handler of the office API,
\* the tab and the mail links, one by one.
LEMMA AccountsTypeStep ==
  ASSUME DatabaseType, RedisType, BrowserType, CallType, Lone, Claimed
  PROVE  AccountsNext => AccountsType'
<1> USE DEF AccountsType
<1>a. None \notin Users /\ None \notin Sids /\ OrgOf \in [Users -> Orgs]
  BY AccountsAssumption DEF AccountsAssumption
<1>1. ASSUME NEW c \in Calls, NEW u \in Users, NEW right \in BOOLEAN, login(c, u, right)
      PROVE AccountsType'
  <2> DEFINE body == [at |-> "lookup", about |-> u, right |-> right, sid |-> cookie]
  <2>1. Send(c, "login", body) /\ ~Sending("login") /\ issued # Sids
    BY <1>1 DEF login
  <2>2. DOMAIN body = {"at", "about", "right", "sid"} /\ body["at"] = "lookup" /\ body["about"] = u
    OBVIOUS
  <2> HIDE DEF body
  <2>3. /\ call' = [d \in Calls |-> call'[d]]
        /\ \A d \in Calls \ {c} : call'[d] = call[d]
        /\ DOMAIN call'[c] = {"op", "gen"} \cup DOMAIN body
        /\ call'[c].op = "login" /\ call'[c].gen = tab.generation
        /\ \A x \in DOMAIN body \ {"op", "gen"} : call'[c][x] = body[x]
        /\ UNCHANGED <<redis, browser, database>>
    BY <2>1, WasSent
  <2>4. /\ {"op", "gen", "at", "about"} \subseteq DOMAIN call'[c]
        /\ call'[c].op = "login" /\ call'[c].gen \in Nat /\ call'[c].at = "lookup" /\ call'[c].about = u
    BY <2>2, <2>3 DEF BrowserType
  <2>5. Shape(call'[c], issued)
    BY <2>4 DEF Shape, Fits, Carries
  <2>6. UNCHANGED issued
    BY <2>3 DEF redis
  <2>7. CallType'
    BY <2>3, <2>5, <2>6, CallChanged
  <2>8. Lone'
    BY <2>1, <2>3, <2>6 DEF Lone, Sending
  <2> QED  BY <2>3, <2>6, <2>7, <2>8, RedisRests, BrowserRests, DatabaseRests
<1>2. ASSUME NEW c \in Calls, LoginLookup(c) PROVE AccountsType'
  <2> DEFINE u == call[c].about
             to == [at |-> "decide", row |-> users[u], verified |-> call[c].right]
  <2>1. /\ call[c].op = "login" /\ call[c].at = "lookup"
        /\ End(c, "401") \/ Go(c, to)
        /\ UNCHANGED <<redis, browser, database>>
    BY <1>2 DEF LoginLookup
  <2>2. call[c] # Idle /\ UNCHANGED issued
    BY <2>1 DEF Idle, redis
  <2>3. ASSUME End(c, "401") PROVE CallType' /\ Lone'
    BY <2>1, <2>2, <2>3, Ended
  <2>4. ASSUME Go(c, to) PROVE CallType' /\ Lone'
    <3>1. DOMAIN to = {"at", "row", "verified"} /\ to["at"] = "decide" /\ to["row"] = users[u]
      OBVIOUS
    <3> HIDE DEF to
    <3>2. /\ DOMAIN call'[c] = DOMAIN to \cup DOMAIN call[c]
          /\ \A x \in DOMAIN to : call'[c][x] = to[x]
          /\ \A x \in DOMAIN call[c] \ DOMAIN to : call'[c][x] = call[c][x]
      BY <2>4, WentOn
    <3>3. Shape(call[c], issued) /\ call[c].about \in Users /\ "about" \in DOMAIN call[c]
      BY <2>1, <2>2 DEF CallType, Shape
    <3>4. users[u] \in UserRows
      BY <3>3 DEF DatabaseType
    <3>5. /\ {"op", "gen", "at", "about", "row"} \subseteq DOMAIN call'[c]
          /\ call'[c].op = "login" /\ call'[c].gen \in Nat /\ call'[c].at = "decide"
          /\ call'[c].about \in Users /\ call'[c].row \in UserRows
      BY <2>1, <2>2, <3>1, <3>2, <3>3, <3>4 DEF Shape
    <3>6. Shape(call'[c], issued)
      BY <3>5 DEF Shape, Fits, Carries
    <3>7. "op" \notin DOMAIN to /\ call[c].at # "answered"
      BY <2>1, <3>1
    <3> QED  BY <2>2, <2>4, <3>6, <3>7, Goes
  <2> QED  BY <2>1, <2>2, <2>3, <2>4, RedisRests, BrowserRests, DatabaseRests
<1>3. ASSUME NEW c \in Calls, LoginDecide(c) PROVE AccountsType'
  <2> DEFINE to == [at |-> "create"]
  <2>1. /\ call[c].op = "login" /\ call[c].at = "decide"
        /\ \/ recordFailure(call[c].about) /\ End(c, "401")
           \/ End(c, "401") /\ UNCHANGED users
           \/ users' = [users EXCEPT ![call[c].about].failed = 0, ![call[c].about].lock = "no"] /\ Go(c, to)
        /\ UNCHANGED <<redis, browser, links, resets>>
    BY <1>3 DEF LoginDecide
  <2>2. call[c] # Idle /\ call[c].at # "answered" /\ UNCHANGED issued
    BY <2>1 DEF Idle, redis
  <2>3. ASSUME End(c, "401") PROVE CallType' /\ Lone'
    BY <2>2, <2>3, Ended
  <2>4. ASSUME Go(c, to) PROVE CallType' /\ Lone'
    <3>1. DOMAIN to = {"at"} /\ to["at"] = "create"
      OBVIOUS
    <3> HIDE DEF to
    <3>2. Advanced(c, to)
      BY <2>1, <2>2, <2>4, <3>1, Moved
    <3>3. Shape(call[c], issued)
      BY DEF CallType
    <3>4. /\ "about" \in DOMAIN call'[c] /\ call'[c].about \in Users
          /\ "row" \in DOMAIN call'[c] /\ call'[c].row \in UserRows
      BY <2>1, <2>2, <3>1, <3>2, <3>3 DEF Advanced, Shape, Carries, Fits, OfficeOps
    <3>5. Shape(call'[c], issued)
      BY <2>1, <3>1, <3>2, <3>4 DEF Advanced, Shape, Fits, Carries, OfficeOps
    <3>6. "op" \notin DOMAIN to
      BY <3>1
    <3> QED  BY <2>2, <2>4, <3>5, <3>6, Goes
  <2>5. call[c].about \in Users
    BY <2>1, <2>2 DEF CallType, Shape
  <2>6. users' \in [Users -> UserRows]
    <3>1. CASE recordFailure(call[c].about)
      BY <3>1, <2>5 DEF recordFailure, DatabaseType, UserRows
    <3>2. CASE UNCHANGED users
      BY <3>2 DEF DatabaseType
    <3>3. CASE users' = [users EXCEPT ![call[c].about].failed = 0, ![call[c].about].lock = "no"]
      BY <3>3, <2>5 DEF DatabaseType, UserRows
    <3> QED  BY <2>1, <3>1, <3>2, <3>3
  <2>7. DatabaseType'
    BY <2>1, <2>6 DEF DatabaseType
  <2> QED  BY <2>1, <2>2, <2>3, <2>4, <2>7, RedisRests, BrowserRests
<1>4. ASSUME NEW c \in Calls, LoginCreate(c) PROVE AccountsType'
  <2> DEFINE free == CHOOSE s \in Sids : s \notin issued
  <2>1. /\ call[c].op = "login" /\ call[c].at = "create"
        /\ create(call[c].about, call[c].row, free)
        /\ Reply(c, "ok", call[c].about, free)
        /\ UNCHANGED <<browser, database>>
    BY <1>4 DEF LoginCreate
  <2>2. call[c] # Idle /\ call[c].at # "answered" /\ call[c].about \in Users /\ call[c].row \in UserRows
    BY <2>1 DEF Idle, CallType, Shape
  <2>3. free \in Sids /\ free \notin issued
    BY <2>1 DEF Lone, RedisType
  <2> HIDE DEF free
  <2>4. /\ store' = [store EXCEPT ![free] = [user |-> call[c].about, org |-> OrgOf[call[c].about], grant |-> call[c].row.grant]]
        /\ index' = [index EXCEPT ![call[c].about] = @ \cup {free}] /\ issued' = issued \cup {free}
        /\ vouched' = [vouched EXCEPT ![free] = call[c].row.pw]
        /\ excused' \in {excused, excused \cup {free}} /\ UNCHANGED aged
    BY <2>1 DEF create
  <2>5. [user |-> call[c].about, org |-> OrgOf[call[c].about], grant |-> call[c].row.grant] \in Sessions
    BY <2>2, <1>a DEF Sessions, UserRows
  <2>6. store' \in [Sids -> {None} \cup Sessions] /\ \A s \in Sids : store'[s] # None => s \in issued'
    BY <2>3, <2>4, <2>5 DEF RedisType
  <2>7. index' \in [Users -> SUBSET Sids] /\ vouched' \in [Sids -> Nat]
    BY <2>2, <2>3, <2>4 DEF RedisType, UserRows
  <2>8. RedisType'
    BY <2>3, <2>4, <2>6, <2>7 DEF RedisType
  <2>9. CallType'
    BY <2>1, <2>2, <2>4, ReplyTyped
  <2>10. /\ \A d \in Calls \ {c} : call'[d] = call[d]
         /\ call'[c].at = "answered"
    <3>1. \A d \in Calls \ {c} : call'[d] = call[d]
      BY <2>1, WasReplied
    <3>2. call'[c] = [op |-> call[c].op, gen |-> call[c].gen, at |-> "answered",
                      status |-> "ok", user |-> call[c].about, sid |-> free]
      BY <2>1, WasReplied DEF TabOps
    <3> QED  BY <3>1, <3>2
  <2>11. Lone'
    <3>1. \A d \in Calls \ {c} : call[d].op # "login"
      BY <2>1 DEF Lone
    <3> QED  BY <2>10, <3>1 DEF Lone
  <2>12. BrowserType'
    BY <2>1, <2>4 DEF browser, BrowserType
  <2> QED  BY <2>1, <2>8, <2>9, <2>11, <2>12, DatabaseRests
<1>5. ASSUME NEW c \in Calls, logout(c) PROVE AccountsType'
  <2> DEFINE body == [at |-> "arrive", sid |-> cookie]
  <2>1. Send(c, "logout", body)
    BY <1>5 DEF logout
  <2>2. DOMAIN body = {"at", "sid"} /\ body["at"] = "arrive" /\ body["sid"] = cookie
    OBVIOUS
  <2> HIDE DEF body
  <2>3. /\ DOMAIN call'[c] = {"op", "gen"} \cup DOMAIN body
        /\ call'[c].op = "logout" /\ call'[c].gen = tab.generation
        /\ \A x \in DOMAIN body \ {"op", "gen"} : call'[c][x] = body[x]
        /\ UNCHANGED <<redis, browser, database>>
    BY <2>1, WasSent
  <2>4. /\ {"op", "gen", "at", "sid"} \subseteq DOMAIN call'[c] /\ call'[c].gen \in Nat
        /\ call'[c].at = "arrive" /\ call'[c].sid = cookie
    BY <2>2, <2>3 DEF BrowserType
  <2>5. Shape(call'[c], issued)
    BY <2>1, <2>3, <2>4 DEF Shape, Fits, Carries, OfficeOps, BrowserType
  <2>6. CallType' /\ Lone'
    BY <2>1, <2>5, Sent
  <2> QED  BY <2>3, <2>6, RedisRests, BrowserRests, DatabaseRests
<1>6. ASSUME NEW c \in Calls, me(c) PROVE AccountsType'
  <2> DEFINE body == [at |-> "guard", sid |-> cookie, scope |-> Bootstrap]
  <2>1. Send(c, "me", body)
    BY <1>6 DEF me
  <2>2. DOMAIN body = {"at", "sid", "scope"} /\ body["at"] = "guard" /\ body["sid"] = cookie /\ body["scope"] = Bootstrap
    OBVIOUS
  <2> HIDE DEF body
  <2>3. /\ DOMAIN call'[c] = {"op", "gen"} \cup DOMAIN body
        /\ call'[c].op = "me" /\ call'[c].gen = tab.generation
        /\ \A x \in DOMAIN body \ {"op", "gen"} : call'[c][x] = body[x]
        /\ UNCHANGED <<redis, browser, database>>
    BY <2>1, WasSent
  <2>4. /\ {"op", "gen", "at", "sid", "scope"} \subseteq DOMAIN call'[c] /\ call'[c].gen \in Nat
        /\ call'[c].at = "guard" /\ call'[c].sid = cookie /\ call'[c].scope = Bootstrap
    BY <2>2, <2>3 DEF BrowserType
  <2>5. Shape(call'[c], issued)
    BY <2>1, <2>3, <2>4 DEF Shape, Fits, Carries, OfficeOps, BrowserType
  <2>6. CallType' /\ Lone'
    BY <2>1, <2>5, Sent
  <2> QED  BY <2>3, <2>6, RedisRests, BrowserRests, DatabaseRests
<1>7. ASSUME NEW c \in Calls, changePassword(c) PROVE AccountsType'
  <2> DEFINE body == [at |-> "guard", sid |-> cookie, scope |-> Bootstrap]
  <2>1. Send(c, "password", body)
    BY <1>7 DEF changePassword
  <2>2. DOMAIN body = {"at", "sid", "scope"} /\ body["at"] = "guard" /\ body["sid"] = cookie /\ body["scope"] = Bootstrap
    OBVIOUS
  <2> HIDE DEF body
  <2>3. /\ DOMAIN call'[c] = {"op", "gen"} \cup DOMAIN body
        /\ call'[c].op = "password" /\ call'[c].gen = tab.generation
        /\ \A x \in DOMAIN body \ {"op", "gen"} : call'[c][x] = body[x]
        /\ UNCHANGED <<redis, browser, database>>
    BY <2>1, WasSent
  <2>4. /\ {"op", "gen", "at", "sid", "scope"} \subseteq DOMAIN call'[c] /\ call'[c].gen \in Nat
        /\ call'[c].at = "guard" /\ call'[c].sid = cookie /\ call'[c].scope = Bootstrap
    BY <2>2, <2>3 DEF BrowserType
  <2>5. Shape(call'[c], issued)
    BY <2>1, <2>3, <2>4 DEF Shape, Fits, Carries, OfficeOps, BrowserType
  <2>6. CallType' /\ Lone'
    BY <2>1, <2>5, Sent
  <2> QED  BY <2>3, <2>6, RedisRests, BrowserRests, DatabaseRests
<1>8. ASSUME NEW c \in Calls, page(c) PROVE AccountsType'
  <2> DEFINE body == [at |-> "middleware", sid |-> cookie]
  <2>1. Send(c, "page", body)
    BY <1>8 DEF page
  <2>2. DOMAIN body = {"at", "sid"} /\ body["at"] = "middleware" /\ body["sid"] = cookie
    OBVIOUS
  <2> HIDE DEF body
  <2>3. /\ DOMAIN call'[c] = {"op", "gen"} \cup DOMAIN body
        /\ call'[c].op = "page" /\ call'[c].gen = tab.generation
        /\ \A x \in DOMAIN body \ {"op", "gen"} : call'[c][x] = body[x]
        /\ UNCHANGED <<redis, browser, database>>
    BY <2>1, WasSent
  <2>4. /\ {"op", "gen", "at", "sid"} \subseteq DOMAIN call'[c] /\ call'[c].gen \in Nat
        /\ call'[c].at = "middleware" /\ call'[c].sid = cookie
    BY <2>2, <2>3 DEF BrowserType
  <2>5. Shape(call'[c], issued)
    BY <2>1, <2>3, <2>4 DEF Shape, Fits, Carries, OfficeOps, BrowserType
  <2>6. CallType' /\ Lone'
    BY <2>1, <2>5, Sent
  <2> QED  BY <2>3, <2>6, RedisRests, BrowserRests, DatabaseRests
<1>9. ASSUME NEW c \in Calls, NEW op \in {"update", "archive", "create"}, NEW s \in issued, NEW u \in Users,
             NEW p \in Patches \cup {None}, manage(c, op, s, u, p) PROVE AccountsType'
  <2> DEFINE body == [at |-> "middleware", sid |-> s, about |-> u, patch |-> p]
  <2>1. Send(c, op, body) /\ (op = "update" => p \in Patches) /\ op # "login"
    BY <1>9 DEF manage
  <2>2. DOMAIN body = {"at", "sid", "about", "patch"} /\ body["at"] = "middleware" /\ body["sid"] = s /\ body["about"] = u /\ body["patch"] = p
    OBVIOUS
  <2> HIDE DEF body
  <2>3. /\ DOMAIN call'[c] = {"op", "gen"} \cup DOMAIN body
        /\ call'[c].op = op /\ call'[c].gen = tab.generation
        /\ \A x \in DOMAIN body \ {"op", "gen"} : call'[c][x] = body[x]
        /\ UNCHANGED <<redis, browser, database>>
    BY <2>1, WasSent
  <2>4. /\ {"op", "gen", "at", "sid", "about", "patch"} \subseteq DOMAIN call'[c] /\ call'[c].gen \in Nat
        /\ call'[c].at = "middleware" /\ call'[c].sid = s /\ call'[c].about = u /\ call'[c].patch = p
    BY <2>2, <2>3 DEF BrowserType
  <2>5. Shape(call'[c], issued)
    BY <2>1, <2>3, <2>4 DEF Shape, Fits, Carries, OfficeOps, BrowserType
  <2>6. CallType' /\ Lone'
    BY <2>1, <2>5, Sent
  <2> QED  BY <2>3, <2>6, RedisRests, BrowserRests, DatabaseRests
<1>10. ASSUME NEW c \in Calls, NEW l \in Links, confirm(c, l) PROVE AccountsType'
  <2> DEFINE body == [at |-> "claim", link |-> l, about |-> links[l].user, keep |-> None]
  <2>1. Send(c, "reset", body) /\ links[l].user \in Users
    BY <1>10 DEF confirm, DatabaseType, PasswordLinks
  <2>2. DOMAIN body = {"at", "link", "about", "keep"} /\ body["at"] = "claim" /\ body["link"] = l /\ body["about"] = links[l].user /\ body["keep"] = None
    OBVIOUS
  <2> HIDE DEF body
  <2>3. /\ DOMAIN call'[c] = {"op", "gen"} \cup DOMAIN body
        /\ call'[c].op = "reset" /\ call'[c].gen = tab.generation
        /\ \A x \in DOMAIN body \ {"op", "gen"} : call'[c][x] = body[x]
        /\ UNCHANGED <<redis, browser, database>>
    BY <2>1, WasSent
  <2>4. /\ {"op", "gen", "at", "link", "about", "keep"} \subseteq DOMAIN call'[c] /\ call'[c].gen \in Nat
        /\ call'[c].at = "claim" /\ call'[c].link = l /\ call'[c].about = links[l].user /\ call'[c].keep = None
    BY <2>2, <2>3 DEF BrowserType
  <2>5. Shape(call'[c], issued)
    BY <2>1, <2>3, <2>4 DEF Shape, Fits, Carries, OfficeOps, BrowserType
  <2>6. CallType' /\ Lone'
    BY <2>1, <2>5, Sent
  <2> QED  BY <2>3, <2>6, RedisRests, BrowserRests, DatabaseRests
<1>11. ASSUME NEW c \in Calls, Logout(c) PROVE AccountsType'
  <2>1. /\ call[c].op = "logout" /\ call[c].at = "arrive"
        /\ destroy(call[c].sid) /\ End(c, "ok") /\ UNCHANGED <<browser, database>>
    BY <1>11 DEF Logout
  <2>2. call[c] # Idle /\ call[c].at # "answered"
    BY <2>1 DEF Idle
  <2>3. RedisType' /\ UNCHANGED issued
    BY <2>1, DestroyShrinks DEF Shrinks
  <2>4. CallType' /\ Lone'
    BY <2>1, <2>2, <2>3, Ended
  <2> QED  BY <2>1, <2>3, <2>4, BrowserRests, DatabaseRests
<1>12. ASSUME NEW c \in Calls, OfficeTenantMiddleware(c) PROVE AccountsType'
  <2> DEFINE on == [at |-> "guard", scope |-> Bootstrap]
             to == [at |-> "touch", session |-> Read(call[c].sid)]
  <2>1. /\ call[c] # Idle /\ call[c].at = "middleware"
        /\ \/ Go(c, on)
           \/ Read(call[c].sid) # None /\ Go(c, to)
        /\ Purge(call[c].sid) /\ UNCHANGED <<browser, database>>
    BY <1>12 DEF OfficeTenantMiddleware
  <2>2. RedisType' /\ UNCHANGED issued
    BY <2>1, PurgeShrinks DEF Shrinks
  <2>3. /\ call[c] # Idle /\ call[c].at # "answered" /\ UNCHANGED issued
        /\ "sid" \in DOMAIN call[c] /\ call[c].sid \in issued \cup {None}
    BY <2>1, <2>2 DEF CallType, Shape
  <2>4. ASSUME Go(c, on) PROVE CallType' /\ Lone'
    <3>1. DOMAIN on = {"at", "scope"} /\ on["at"] = "guard" /\ on["scope"] = Bootstrap
      OBVIOUS
    <3> HIDE DEF on
    <3>2. Advanced(c, on)
      BY <2>1, <2>3, <2>4, <3>1, Moved
    <3>3. Shape(call[c], issued)
      BY DEF CallType
    <3>4. "sid" \in DOMAIN call'[c] /\ call'[c].sid \in issued \cup {None}
      BY <2>1, <2>3, <3>1, <3>2, <3>3 DEF Advanced, Shape, Carries, Fits, OfficeOps
    <3>5. Fits(call'[c].at, call'[c].op)
      BY <2>1, <2>3, <3>1, <3>2, <3>3 DEF Advanced, Shape, Fits, OfficeOps
    <3>6. Shape(call'[c], issued)
      BY <2>1, <3>1, <3>2, <3>4, <3>5 DEF Advanced, Shape, Carries
    <3>7. "op" \notin DOMAIN on
      BY <3>1
    <3> QED  BY <2>3, <2>4, <3>6, <3>7, Goes
  <2>5. Read(call[c].sid) # None => call[c].sid \in issued /\ Read(call[c].sid) \in Sessions
    BY <2>3, <1>a DEF Read, RedisType
  <2>6. ASSUME Go(c, to), Read(call[c].sid) # None PROVE CallType' /\ Lone'
    <3>1. DOMAIN to = {"at", "session"} /\ to["at"] = "touch" /\ to["session"] = Read(call[c].sid)
      OBVIOUS
    <3> HIDE DEF to
    <3>2. call[c].sid \in issued /\ Read(call[c].sid) \in Sessions
      BY <2>6, <2>5
    <3>3. Advanced(c, to)
      BY <2>1, <2>3, <2>6, <3>1, Moved, <3>2
    <3>4. Shape(call[c], issued)
      BY DEF CallType
    <3>5. /\ "sid" \in DOMAIN call'[c] /\ call'[c].sid \in issued
          /\ "session" \in DOMAIN call'[c] /\ call'[c].session \in Sessions
      BY <2>1, <2>3, <3>1, <3>3, <3>4, <3>2 DEF Advanced, Shape, Carries, Fits, OfficeOps
    <3>6. Fits(call'[c].at, call'[c].op)
      BY <2>1, <2>3, <3>1, <3>3, <3>4 DEF Advanced, Shape, Fits, OfficeOps
    <3>7. Shape(call'[c], issued)
      BY <2>1, <3>1, <3>3, <3>5, <3>6, <3>2 DEF Advanced, Shape, Carries
    <3>8. "op" \notin DOMAIN to
      BY <3>1
    <3> QED  BY <2>3, <2>6, <3>7, <3>8, Goes
  <2> QED  BY <2>1, <2>4, <2>6, <2>2, BrowserRests, DatabaseRests
<1>13. ASSUME NEW c \in Calls, OfficeTenantScope(c) PROVE AccountsType'
  <2> DEFINE to == [at |-> "guard", scope |-> call[c].session.org]
  <2>1. /\ call[c] # Idle /\ call[c].at = "touch"
        /\ Touch(c) /\ Go(c, to) /\ UNCHANGED <<browser, database>>
    BY <1>13 DEF OfficeTenantScope
  <2>2. call[c] # Idle /\ call[c].at # "answered"
    BY <2>1 DEF Idle
  <2>3. RedisType' /\ UNCHANGED issued
    BY <2>1, <2>2, TouchTyped DEF Carries
  <2>4. ASSUME Go(c, to) PROVE CallType' /\ Lone'
    <3>1. DOMAIN to = {"at", "scope"} /\ to["at"] = "guard" /\ to["scope"] = call[c].session.org
      OBVIOUS
    <3> HIDE DEF to
    <3>2. Advanced(c, to)
      BY <2>1, <2>2, <2>4, <3>1, Moved
    <3>3. Shape(call[c], issued)
      BY DEF CallType
    <3>4. /\ "sid" \in DOMAIN call'[c] /\ call'[c].sid \in issued
      BY <2>1, <2>2, <3>1, <3>2, <3>3 DEF Advanced, Shape, Carries, Fits, OfficeOps
    <3>5. Fits(call'[c].at, call'[c].op)
      BY <2>1, <2>2, <3>1, <3>2, <3>3 DEF Advanced, Shape, Fits, OfficeOps
    <3>6. Shape(call'[c], issued)
      BY <2>1, <3>1, <3>2, <3>4, <3>5 DEF Advanced, Shape, Carries
    <3>7. "op" \notin DOMAIN to
      BY <3>1
    <3> QED  BY <2>2, <2>3, <2>4, <3>6, <3>7, Goes
  <2> QED  BY <2>1, <2>3, <2>4, BrowserRests, DatabaseRests
<1>14. ASSUME NEW c \in Calls, OfficeSessionGuard(c) PROVE AccountsType'
  <2> DEFINE to == [at |-> "enter", session |-> Read(call[c].sid)]
  <2>1. /\ call[c] # Idle /\ call[c].at = "guard"
        /\ \/ End(c, "401")
           \/ Read(call[c].sid) # None /\ Go(c, to)
        /\ Purge(call[c].sid) /\ UNCHANGED <<browser, database>>
    BY <1>14 DEF OfficeSessionGuard
  <2>2. RedisType' /\ UNCHANGED issued
    BY <2>1, PurgeShrinks DEF Shrinks
  <2>3. /\ call[c] # Idle /\ call[c].at # "answered" /\ UNCHANGED issued
        /\ "sid" \in DOMAIN call[c] /\ call[c].sid \in issued \cup {None}
    BY <2>1, <2>2 DEF CallType, Shape
  <2>4. ASSUME End(c, "401") PROVE CallType' /\ Lone'
    BY <2>3, <2>4, Ended
  <2>5. Read(call[c].sid) # None => call[c].sid \in issued /\ Read(call[c].sid) \in Sessions
    BY <2>3, <1>a DEF Read, RedisType
  <2>6. ASSUME Go(c, to), Read(call[c].sid) # None PROVE CallType' /\ Lone'
    <3>1. DOMAIN to = {"at", "session"} /\ to["at"] = "enter" /\ to["session"] = Read(call[c].sid)
      OBVIOUS
    <3> HIDE DEF to
    <3>2. call[c].sid \in issued /\ Read(call[c].sid) \in Sessions
      BY <2>6, <2>5
    <3>3. Advanced(c, to)
      BY <2>1, <2>3, <2>6, <3>1, Moved, <3>2
    <3>4. Shape(call[c], issued)
      BY DEF CallType
    <3>5. /\ "sid" \in DOMAIN call'[c] /\ call'[c].sid \in issued
          /\ "session" \in DOMAIN call'[c] /\ call'[c].session \in Sessions
          /\ "scope" \in DOMAIN call'[c]
      BY <2>1, <2>3, <3>1, <3>3, <3>4, <3>2 DEF Advanced, Shape, Carries, Fits, OfficeOps
    <3>6. Fits(call'[c].at, call'[c].op)
      BY <2>1, <2>3, <3>1, <3>3, <3>4 DEF Advanced, Shape, Fits, OfficeOps
    <3>7. Shape(call'[c], issued)
      BY <2>1, <3>1, <3>3, <3>5, <3>6, <3>2 DEF Advanced, Shape, Carries
    <3>8. "op" \notin DOMAIN to
      BY <3>1
    <3> QED  BY <2>3, <2>6, <3>7, <3>8, Goes
  <2> QED  BY <2>1, <2>4, <2>6, <2>2, BrowserRests, DatabaseRests
<1>15. ASSUME NEW c \in Calls, RolesGuard(c) PROVE AccountsType'
  <2> DEFINE to == [at |-> "handle"]
  <2>1. /\ call[c] # Idle /\ call[c].at = "enter"
        /\ Touch(c) /\ (Go(c, to) \/ End(c, "403")) /\ UNCHANGED <<browser, database>>
    BY <1>15 DEF RolesGuard
  <2>2. call[c] # Idle /\ call[c].at # "answered"
    BY <2>1 DEF Idle
  <2>3. RedisType' /\ UNCHANGED issued
    BY <2>1, <2>2, TouchTyped DEF Carries
  <2>4. ASSUME Go(c, to) PROVE CallType' /\ Lone'
    <3>1. DOMAIN to = {"at"} /\ to["at"] = "handle"
      OBVIOUS
    <3> HIDE DEF to
    <3>2. Advanced(c, to)
      BY <2>1, <2>2, <2>4, <3>1, Moved
    <3>3. Shape(call[c], issued)
      BY DEF CallType
    <3>4. /\ "sid" \in DOMAIN call'[c] /\ call'[c].sid \in issued
          /\ "session" \in DOMAIN call'[c] /\ call'[c].session \in Sessions
          /\ "scope" \in DOMAIN call'[c]
      BY <2>1, <2>2, <3>1, <3>2, <3>3 DEF Advanced, Shape, Carries, Fits, OfficeOps
    <3>5. Fits(call'[c].at, call'[c].op)
      BY <2>1, <2>2, <3>1, <3>2, <3>3 DEF Advanced, Shape, Fits, OfficeOps
    <3>6. Shape(call'[c], issued)
      BY <2>1, <3>1, <3>2, <3>4, <3>5 DEF Advanced, Shape, Carries
    <3>7. "op" \notin DOMAIN to
      BY <3>1
    <3> QED  BY <2>2, <2>3, <2>4, <3>6, <3>7, Goes
  <2>5. ASSUME End(c, "403") PROVE CallType' /\ Lone'
    BY <2>2, <2>3, <2>5, Ended
  <2> QED  BY <2>1, <2>3, <2>4, <2>5, BrowserRests, DatabaseRests
<1>16. ASSUME NEW c \in Calls, Serve(c) PROVE AccountsType'
  <2>1. /\ call[c].op \in {"page", "me"} /\ call[c].at = "handle"
        /\ Reply(c, "ok", call[c].session.user, call[c].sid) /\ UNCHANGED <<redis, browser, database>>
    BY <1>16 DEF Serve, Handling
  <2>2. call[c] # Idle /\ call[c].at # "answered" /\ UNCHANGED issued
    BY <2>1 DEF Idle, redis
  <2>3. call[c].session \in Sessions /\ call[c].sid \in issued
    BY <2>1, <2>2 DEF CallType, Shape, Carries
  <2>4. call[c].session.user \in Users
    BY <2>3 DEF Sessions
  <2>5. CallType' /\ Lone'
    BY <2>1, <2>2, <2>3, <2>4, Ends
  <2> QED  BY <2>1, <2>5, RedisRests, BrowserRests, DatabaseRests
<1>17. ASSUME NEW c \in Calls, PasswordLookup(c) PROVE AccountsType'
  <2> DEFINE to == [at |-> "write"]
  <2>1. /\ call[c].op = "password" /\ call[c].at = "handle"
        /\ Go(c, to) \/ End(c, "401")
        /\ UNCHANGED <<redis, browser, database>>
    BY <1>17 DEF PasswordLookup, Handling
  <2>2. call[c] # Idle /\ call[c].at # "answered" /\ UNCHANGED issued
    BY <2>1 DEF Idle, redis
  <2>3. ASSUME End(c, "401") PROVE CallType' /\ Lone'
    BY <2>2, <2>3, Ended
  <2>4. ASSUME Go(c, to) PROVE CallType' /\ Lone'
    <3>1. DOMAIN to = {"at"} /\ to["at"] = "write"
      OBVIOUS
    <3> HIDE DEF to
    <3>2. Advanced(c, to)
      BY <2>1, <2>2, <2>4, <3>1, Moved
    <3>3. Shape(call[c], issued)
      BY DEF CallType
    <3>4. /\ "sid" \in DOMAIN call'[c] /\ call'[c].sid \in issued
          /\ "session" \in DOMAIN call'[c] /\ call'[c].session \in Sessions
          /\ "scope" \in DOMAIN call'[c]
      BY <2>1, <2>2, <3>1, <3>2, <3>3 DEF Advanced, Shape, Carries, Fits, OfficeOps
    <3>5. Fits(call'[c].at, call'[c].op)
      BY <2>1, <2>2, <3>1, <3>2, <3>3 DEF Advanced, Shape, Fits, OfficeOps
    <3>6. Shape(call'[c], issued)
      BY <2>1, <3>1, <3>2, <3>4, <3>5 DEF Advanced, Shape, Carries
    <3>7. "op" \notin DOMAIN to
      BY <3>1
    <3> QED  BY <2>2, <2>4, <3>6, <3>7, Goes
  <2> QED  BY <2>1, <2>3, <2>4, RedisRests, BrowserRests, DatabaseRests
<1>18. ASSUME NEW c \in Calls, PasswordWrite(c) PROVE AccountsType'
  <2> DEFINE u == call[c].session.user
             to == [at |-> "revoke", about |-> u, keep |-> call[c].sid]
  <2>1. /\ call[c].op = "password" /\ call[c].at = "write"
        /\ users' = [users EXCEPT ![u].pw = @ + 1]
        /\ vouched' = [vouched EXCEPT ![call[c].sid] = users[u].pw + 1]
        /\ Go(c, to)
        /\ UNCHANGED <<store, index, aged, issued, excused, browser, links, resets>>
    BY <1>18 DEF PasswordWrite
  <2>2. call[c] # Idle /\ call[c].at # "answered" /\ UNCHANGED issued
    BY <2>1 DEF Idle
  <2>3. call[c].session \in Sessions /\ call[c].sid \in issued
    BY <2>1, <2>2 DEF CallType, Shape, Carries
  <2>4. u \in Users
    BY <2>3 DEF Sessions
  <2>5. users[u].pw \in Nat
    BY <2>4 DEF DatabaseType, UserRows
  <2> HIDE DEF u
  <2>6. ASSUME Go(c, to) PROVE CallType' /\ Lone'
    <3>1. DOMAIN to = {"at", "about", "keep"} /\ to["at"] = "revoke" /\ to["about"] = u /\ to["keep"] = call[c].sid
      OBVIOUS
    <3> HIDE DEF to
    <3>2. u \in Users /\ call[c].sid \in issued
      BY <2>3, <2>4
    <3>3. Advanced(c, to)
      BY <2>1, <2>2, <2>6, <3>1, Moved, <3>2
    <3>4. Shape(call[c], issued)
      BY DEF CallType
    <3>5. /\ "about" \in DOMAIN call'[c] /\ call'[c].about \in Users
          /\ "keep" \in DOMAIN call'[c] /\ call'[c].keep \in issued \cup {None}
      BY <2>1, <2>2, <3>1, <3>3, <3>4, <3>2 DEF Advanced, Shape, Carries, Fits, OfficeOps
    <3>6. Fits(call'[c].at, call'[c].op)
      BY <2>1, <2>2, <3>1, <3>3, <3>4 DEF Advanced, Shape, Fits, OfficeOps
    <3>7. Shape(call'[c], issued)
      BY <2>1, <3>1, <3>3, <3>5, <3>6, <3>2 DEF Advanced, Shape, Carries
    <3>8. "op" \notin DOMAIN to
      BY <3>1
    <3> QED  BY <2>2, <2>6, <3>7, <3>8, Goes
  <2>7. users' \in [Users -> UserRows]
    <3>1. users' = [users EXCEPT ![u].pw = users[u].pw + 1] /\ users[u].pw + 1 \in Nat
      BY <2>1, <2>5 DEF u
    <3> QED  BY <3>1, <2>4, PasswordTyped
  <2>8. RedisType' /\ DatabaseType'
    BY <2>1, <2>3, <2>5, <2>7 DEF RedisType, DatabaseType
  <2>9. BrowserType'
    BY <2>1, BrowserRests
  <2>10. CallType' /\ Lone'
    BY <2>1, <2>6
  <2> QED  BY <2>8, <2>9, <2>10
<1>19. ASSUME NEW c \in Calls, Load(c) PROVE AccountsType'
  <2> DEFINE to == [at |-> "write", row |-> users[call[c].about]]
  <2>1. /\ call[c].op \in {"update", "archive"} /\ call[c].at = "handle"
        /\ Go(c, to) \/ End(c, "409")
        /\ UNCHANGED <<redis, browser, database>>
    BY <1>19 DEF Load, Handling
  <2>2. call[c] # Idle /\ call[c].at # "answered" /\ UNCHANGED issued
    BY <2>1 DEF Idle, redis
  <2>3. ASSUME End(c, "409") PROVE CallType' /\ Lone'
    BY <2>2, <2>3, Ended
  <2>4. ASSUME Go(c, to) PROVE CallType' /\ Lone'
    <3>1. DOMAIN to = {"at", "row"} /\ to["at"] = "write" /\ to["row"] = users[call[c].about]
      OBVIOUS
    <3> HIDE DEF to
    <3>2. users[call[c].about] \in UserRows
      BY <2>1, <2>2 DEF CallType, Shape, DatabaseType
    <3>3. Advanced(c, to)
      BY <2>1, <2>2, <2>4, <3>1, Moved, <3>2
    <3>4. Shape(call[c], issued)
      BY DEF CallType
    <3>5. /\ "sid" \in DOMAIN call'[c] /\ call'[c].sid \in issued
          /\ "session" \in DOMAIN call'[c] /\ call'[c].session \in Sessions
          /\ "scope" \in DOMAIN call'[c]
          /\ "row" \in DOMAIN call'[c] /\ call'[c].row \in UserRows
      BY <2>1, <2>2, <3>1, <3>3, <3>4, <3>2 DEF Advanced, Shape, Carries, Fits, OfficeOps
    <3>6. Fits(call'[c].at, call'[c].op)
      BY <2>1, <2>2, <3>1, <3>3, <3>4 DEF Advanced, Shape, Fits, OfficeOps
    <3>7. Shape(call'[c], issued)
      BY <2>1, <3>1, <3>3, <3>5, <3>6, <3>2 DEF Advanced, Shape, Carries
    <3>8. "op" \notin DOMAIN to
      BY <3>1
    <3> QED  BY <2>2, <2>4, <3>7, <3>8, Goes
  <2> QED  BY <2>1, <2>3, <2>4, RedisRests, BrowserRests, DatabaseRests
<1>20. ASSUME NEW c \in Calls, update(c) PROVE AccountsType'
  <2> DEFINE to == [at |-> "revoke", keep |-> None]
  <2>1. /\ call[c].op = "update" /\ call[c].at = "write"
        /\ users' = [users EXCEPT ![call[c].about].grant = Patched(users[call[c].about].grant, call[c].patch)]
        /\ Go(c, to) \/ End(c, "ok")
        /\ excused' \subseteq excused \cup Sids
        /\ UNCHANGED <<store, index, aged, issued, vouched, browser, links, resets>>
    BY <1>20 DEF update
  <2>2. call[c] # Idle /\ call[c].at # "answered" /\ UNCHANGED issued
    BY <2>1 DEF Idle
  <2>3. ASSUME End(c, "ok") PROVE CallType' /\ Lone'
    BY <2>2, <2>3, Ended
  <2>4. ASSUME Go(c, to) PROVE CallType' /\ Lone'
    <3>1. DOMAIN to = {"at", "keep"} /\ to["at"] = "revoke" /\ to["keep"] = None
      OBVIOUS
    <3> HIDE DEF to
    <3>2. Advanced(c, to)
      BY <2>1, <2>2, <2>4, <3>1, Moved
    <3>3. Shape(call[c], issued)
      BY DEF CallType
    <3>4. /\ "about" \in DOMAIN call'[c] /\ call'[c].about \in Users
          /\ "keep" \in DOMAIN call'[c] /\ call'[c].keep = None
      BY <2>1, <2>2, <3>1, <3>2, <3>3 DEF Advanced, Shape, Carries, Fits, OfficeOps
    <3>5. Fits(call'[c].at, call'[c].op)
      BY <2>1, <2>2, <3>1, <3>2, <3>3 DEF Advanced, Shape, Fits, OfficeOps
    <3>6. Shape(call'[c], issued)
      BY <2>1, <3>1, <3>2, <3>4, <3>5 DEF Advanced, Shape, Carries
    <3>7. "op" \notin DOMAIN to
      BY <3>1
    <3> QED  BY <2>2, <2>4, <3>6, <3>7, Goes
  <2>5. call[c].about \in Users /\ call[c].patch \in Patches
    BY <2>1, <2>2 DEF CallType, Shape
  <2>6. users' \in [Users -> UserRows]
    <3>1. users[call[c].about].grant \in Grants
      BY <2>5 DEF DatabaseType, UserRows
    <3>2. Patched(users[call[c].about].grant, call[c].patch) \in Grants
      BY <2>5, <3>1, PatchedTyped
    <3> QED  BY <2>1, <2>5, <3>2, GrantTyped
  <2>7. RedisType' /\ DatabaseType'
    BY <2>1, <2>6 DEF RedisType, DatabaseType
  <2> QED  BY <2>1, <2>3, <2>4, <2>7, BrowserRests
<1>21. ASSUME NEW c \in Calls, archive(c) PROVE AccountsType'
  <2> DEFINE to == [at |-> "revoke", keep |-> None]
  <2>1. /\ call[c].op = "archive" /\ call[c].at = "write"
        /\ users' = [users EXCEPT ![call[c].about].state = "archived"]
        /\ Go(c, to)
        /\ UNCHANGED <<redis, browser, links, resets>>
    BY <1>21 DEF archive
  <2>2. call[c] # Idle /\ call[c].at # "answered" /\ UNCHANGED issued
    BY <2>1 DEF Idle, redis
  <2>3. ASSUME Go(c, to) PROVE CallType' /\ Lone'
    <3>1. DOMAIN to = {"at", "keep"} /\ to["at"] = "revoke" /\ to["keep"] = None
      OBVIOUS
    <3> HIDE DEF to
    <3>2. Advanced(c, to)
      BY <2>1, <2>2, <2>3, <3>1, Moved
    <3>3. Shape(call[c], issued)
      BY DEF CallType
    <3>4. /\ "about" \in DOMAIN call'[c] /\ call'[c].about \in Users
          /\ "keep" \in DOMAIN call'[c] /\ call'[c].keep = None
      BY <2>1, <2>2, <3>1, <3>2, <3>3 DEF Advanced, Shape, Carries, Fits, OfficeOps
    <3>5. Fits(call'[c].at, call'[c].op)
      BY <2>1, <2>2, <3>1, <3>2, <3>3 DEF Advanced, Shape, Fits, OfficeOps
    <3>6. Shape(call'[c], issued)
      BY <2>1, <3>1, <3>2, <3>4, <3>5 DEF Advanced, Shape, Carries
    <3>7. "op" \notin DOMAIN to
      BY <3>1
    <3> QED  BY <2>2, <2>3, <3>6, <3>7, Goes
  <2>4. call[c].about \in Users
    BY <2>1, <2>2 DEF CallType, Shape
  <2>5. DatabaseType'
    BY <2>1, <2>4 DEF DatabaseType, UserRows
  <2> QED  BY <2>1, <2>3, <2>5, RedisRests, BrowserRests
<1>22. ASSUME NEW c \in Calls, Revoke(c) PROVE AccountsType'
  <2>1. /\ call[c] # Idle /\ call[c].at = "revoke" /\ call[c].at # "answered"
        /\ \/ destroySessionsOf(call[c].about, call[c].keep)
           \/ /\ excused' = excused \cup (index[call[c].about] \ {call[c].keep})
              /\ UNCHANGED <<store, index, aged, issued, vouched>>
        /\ End(c, "ok") /\ UNCHANGED <<browser, database>>
    BY <1>22 DEF Revoke
  <2>2. call[c].about \in Users
    BY <2>1 DEF CallType, Shape
  <2>3. RedisType' /\ UNCHANGED issued
    <3>1. CASE destroySessionsOf(call[c].about, call[c].keep)
      BY <2>2, <3>1, DestroyAllShrinks DEF Shrinks
    <3>2. CASE /\ excused' = excused \cup (index[call[c].about] \ {call[c].keep})
               /\ UNCHANGED <<store, index, aged, issued, vouched>>
      BY <2>2, <3>2 DEF RedisType
    <3> QED  BY <2>1, <3>1, <3>2
  <2>4. CallType' /\ Lone'
    BY <2>1, <2>3, Ended
  <2> QED  BY <2>1, <2>3, <2>4, BrowserRests, DatabaseRests
<1>23. ASSUME NEW c \in Calls, CreateUser(c) PROVE AccountsType'
  <2> DEFINE to == [at |-> "invite"]
  <2>1. /\ call[c].op = "create" /\ call[c].at = "handle"
        /\ \/ users' = [users EXCEPT ![call[c].about].state = "active"] /\ Go(c, to)
           \/ UNCHANGED users /\ End(c, "409")
        /\ UNCHANGED <<redis, browser, links, resets>>
    BY <1>23 DEF CreateUser, Handling
  <2>2. call[c] # Idle /\ call[c].at # "answered" /\ UNCHANGED issued
    BY <2>1 DEF Idle, redis
  <2>3. ASSUME End(c, "409") PROVE CallType' /\ Lone'
    BY <2>2, <2>3, Ended
  <2>4. ASSUME Go(c, to) PROVE CallType' /\ Lone'
    <3>1. DOMAIN to = {"at"} /\ to["at"] = "invite"
      OBVIOUS
    <3> HIDE DEF to
    <3>2. Advanced(c, to)
      BY <2>1, <2>2, <2>4, <3>1, Moved
    <3>3. Shape(call[c], issued)
      BY DEF CallType
    <3>4. "about" \in DOMAIN call'[c] /\ call'[c].about \in Users
      BY <2>1, <2>2, <3>1, <3>2, <3>3 DEF Advanced, Shape, Carries, Fits, OfficeOps
    <3>5. Fits(call'[c].at, call'[c].op)
      BY <2>1, <2>2, <3>1, <3>2, <3>3 DEF Advanced, Shape, Fits, OfficeOps
    <3>6. Shape(call'[c], issued)
      BY <2>1, <3>1, <3>2, <3>4, <3>5 DEF Advanced, Shape, Carries
    <3>7. "op" \notin DOMAIN to
      BY <3>1
    <3> QED  BY <2>2, <2>4, <3>6, <3>7, Goes
  <2>5. call[c].about \in Users
    BY <2>1, <2>2 DEF CallType, Shape
  <2>6. users' \in [Users -> UserRows]
    BY <2>1, <2>5 DEF DatabaseType, UserRows
  <2>7. DatabaseType'
    BY <2>1, <2>6 DEF DatabaseType
  <2> QED  BY <2>1, <2>3, <2>4, <2>7, RedisRests, BrowserRests
<1>24. ASSUME NEW c \in Calls, Invite(c) PROVE AccountsType'
  <2>1. /\ call[c] # Idle /\ call[c].at = "invite" /\ call[c].at # "answered"
        /\ request(call[c].about) /\ End(c, "ok")
        /\ UNCHANGED <<redis, browser, users, resets>>
    BY <1>24 DEF Invite
  <2>2. call[c].op = "create"
    BY <2>1 DEF CallType, Shape, Fits
  <2>3. call[c].about \in Users
    BY <2>1, <2>2 DEF CallType, Shape
  <2>4. RedisType' /\ BrowserType' /\ UNCHANGED issued
    BY <2>1, RedisRests, BrowserRests
  <2>5. CallType' /\ Lone'
    BY <2>1, <2>4, Ended
  <2>6. DatabaseType'
    BY <2>1, <2>3, RequestTyped
  <2> QED  BY <2>4, <2>5, <2>6
<1>25. ASSUME NEW c \in Calls, ConfirmCommit(c) PROVE AccountsType'
  <2> DEFINE to == [at |-> "revoke"]
  <2>1. /\ call[c].op = "reset" /\ call[c].at = "claim"
        /\ \/ End(c, "401") /\ UNCHANGED <<users, links, resets>>
           \/ /\ users' = [users EXCEPT ![call[c].about].pw = @ + 1, ![call[c].about].failed = 0, ![call[c].about].lock = "no"]
              /\ links[call[c].link].state # "used"
              /\ links' = Spent(call[c].link)
              /\ resets' = [resets EXCEPT ![call[c].about] = <<@[1] + 1, links[call[c].link].epoch + 1>>]
              /\ Go(c, to)
        /\ UNCHANGED <<redis, browser>>
    BY <1>25 DEF ConfirmCommit
  <2>2. call[c] # Idle /\ call[c].at # "answered" /\ UNCHANGED issued
    BY <2>1 DEF Idle, redis
  <2>3. ASSUME End(c, "401") PROVE CallType' /\ Lone'
    BY <2>2, <2>3, Ended
  <2>4. ASSUME Go(c, to) PROVE CallType' /\ Lone'
    <3>1. DOMAIN to = {"at"} /\ to["at"] = "revoke"
      OBVIOUS
    <3> HIDE DEF to
    <3>2. Advanced(c, to)
      BY <2>1, <2>2, <2>4, <3>1, Moved
    <3>3. Shape(call[c], issued)
      BY DEF CallType
    <3>4. /\ "about" \in DOMAIN call'[c] /\ call'[c].about \in Users
          /\ "keep" \in DOMAIN call'[c] /\ call'[c].keep = None
      BY <2>1, <2>2, <3>1, <3>2, <3>3 DEF Advanced, Shape, Carries, Fits, OfficeOps
    <3>5. Fits(call'[c].at, call'[c].op)
      BY <2>1, <2>2, <3>1, <3>2, <3>3 DEF Advanced, Shape, Fits, OfficeOps
    <3>6. Shape(call'[c], issued)
      BY <2>1, <3>1, <3>2, <3>4, <3>5 DEF Advanced, Shape, Carries
    <3>7. "op" \notin DOMAIN to
      BY <3>1
    <3> QED  BY <2>2, <2>4, <3>6, <3>7, Goes
  <2>5. call[c].about \in Users /\ call[c].link \in Links
    BY <2>1, <2>2 DEF CallType, Shape
  <2>6. links[call[c].link] \in PasswordLinks
    BY <2>1, <2>2, <2>5 DEF Claimed, DatabaseType
  <2>7. ASSUME /\ users' = [users EXCEPT ![call[c].about].pw = @ + 1, ![call[c].about].failed = 0, ![call[c].about].lock = "no"]
             /\ links' = Spent(call[c].link)
             /\ resets' = [resets EXCEPT ![call[c].about] = <<@[1] + 1, links[call[c].link].epoch + 1>>]
        PROVE  DatabaseType'
    <3>1. users' \in [Users -> UserRows]
      BY <2>5, <2>7, ResetTyped
    <3>2. links' \in [Links -> {None} \cup PasswordLinks]
      BY <2>7, SpentTyped
    <3>3. resets' \in [Users -> Nat \X Nat]
      <4>1. resets[call[c].about][1] \in Nat /\ links[call[c].link].epoch \in Nat
        BY <2>5, <2>6 DEF DatabaseType, PasswordLinks
      <4>2. <<resets[call[c].about][1] + 1, links[call[c].link].epoch + 1>> \in Nat \X Nat
        BY <4>1
      <4> QED  BY <2>7, <4>2, <2>5 DEF DatabaseType
    <3> QED  BY <3>1, <3>2, <3>3 DEF DatabaseType
  <2>8. ASSUME UNCHANGED <<users, links, resets>> PROVE DatabaseType'
    BY <2>8, DatabaseRests DEF database
  <2>9. CallType' /\ Lone'
    BY <2>1, <2>3, <2>4
  <2>10. RedisType' /\ BrowserType'
    BY <2>1, RedisRests, BrowserRests
  <2> QED  BY <2>1, <2>7, <2>8, <2>9, <2>10
<1>26. ASSUME NEW c \in Calls, Answer(c) PROVE AccountsType'
  <2>1. /\ Hydrated(c) \/ LoggedIn(c) \/ LoggedOut(c) \/ SessionCallAnswered(c)
        /\ call' = [call EXCEPT ![c] = Idle]
        /\ UNCHANGED <<redis, database, topic, made>>
    BY <1>26 DEF Answer
  <2>2. RedisType' /\ DatabaseType' /\ UNCHANGED issued
    BY <2>1, RedisRests, DatabaseRests
  <2>3. /\ call' = [d \in Calls |-> call'[d]] /\ call'[c] = Idle
        /\ \A d \in Calls \ {c} : call'[d] = call[d]
    BY <2>1, Freed
  <2>4. CallType'
    BY <2>2, <2>3, IdleShape, CallChanged
  <2>5. Lone'
    BY <2>2, <2>3, LoneKept DEF Idle
  <2>6. call[c] # Idle /\ call[c].at = "answered"
    BY <2>1, AnswerSeen
  <2>7. call[c].user \in Users \cup {None} /\ call[c].sid \in issued \cup {None}
    BY <2>6 DEF CallType, Shape
  <2>8. tab.generation + 1 \in Nat
    BY DEF BrowserType
  <2>9. tab' \in [user : Users \cup {None}, expired : BOOLEAN, generation : Nat]
    <3>1. CASE Hydrated(c)
      BY <2>7, <3>1 DEF Hydrated, SignedIn, BrowserType
    <3>2. CASE LoggedIn(c)
      BY <2>7, <3>2 DEF LoggedIn, SignedIn, BrowserType, browser
    <3>3. CASE LoggedOut(c)
      BY <2>8, <3>3 DEF LoggedOut, BrowserType
    <3>4. CASE SessionCallAnswered(c)
      BY <2>8, <3>4 DEF SessionCallAnswered, BrowserType
    <3> QED  BY <2>1, <3>1, <3>2, <3>3, <3>4
  <2>10. cookie' \in issued \cup {None}
    BY <2>1, <2>7 DEF Hydrated, LoggedIn, LoggedOut, SessionCallAnswered, BrowserType, browser
  <2>11. signedOut' \in BOOLEAN
    <3>1. signedOut \in BOOLEAN
      BY DEF BrowserType
    <3> QED  BY <2>1, <3>1 DEF Hydrated, LoggedIn, LoggedOut, SessionCallAnswered, browser
  <2>12. BrowserType'
    BY <2>2, <2>9, <2>10, <2>11 DEF BrowserType
  <2> QED  BY <2>2, <2>4, <2>5, <2>12
<1>27. ASSUME NEW c \in Calls, AnswerLost(c) PROVE AccountsType'
  <2>1. /\ call[c] # Idle /\ call[c].at = "answered"
        /\ call' = [call EXCEPT ![c] = [call[c] EXCEPT !.status = "lost"]]
        /\ UNCHANGED <<redis, browser, database, topic, made>>
    BY <1>27 DEF AnswerLost
  <2>2. RedisType' /\ BrowserType' /\ DatabaseType' /\ UNCHANGED issued
    BY <2>1, RedisRests, BrowserRests, DatabaseRests
  <2>3. /\ call' = [d \in Calls |-> call'[d]] /\ call'[c] = [call[c] EXCEPT !.status = "lost"]
        /\ \A d \in Calls \ {c} : call'[d] = call[d]
    BY <2>1 DEF CallType
  <2>4. Shape(call[c], issued)
    BY DEF CallType
  <2>5. Shape(call'[c], issued)
    BY <2>1, <2>3, <2>4, LostShape
  <2>6. CallType'
    BY <2>2, <2>3, <2>5, CallChanged
  <2>7. call'[c].op = call[c].op /\ call'[c].at = "answered"
    BY <2>1, <2>3, <2>4 DEF Shape
  <2>8. Lone'
    BY <2>2, <2>3, <2>7, LoneKept
  <2> QED  BY <2>2, <2>6, <2>8
<1>28. ASSUME NEW u \in Users, Forgot(u) PROVE AccountsType'
  <2>1. request(u) /\ UNCHANGED <<redis, browser, users, resets, call, topic>>
    BY <1>28 DEF Forgot
  <2>2. RedisType' /\ BrowserType' /\ DatabaseType' /\ UNCHANGED issued
    BY <2>1, RedisRests, BrowserRests, RequestTyped
  <2> QED  BY <2>1, <2>2 DEF CallType, Lone
<1>29. ASSUME NEW u \in Users, LockElapses(u) PROVE AccountsType'
  <2>1. users' = [users EXCEPT ![u].lock = "elapsed"] /\ UNCHANGED <<redis, browser, links, resets, call, topic, made>>
    BY <1>29 DEF LockElapses
  <2>2. RedisType' /\ BrowserType' /\ UNCHANGED issued
    BY <2>1, RedisRests, BrowserRests
  <2>3. DatabaseType'
    BY <2>1 DEF DatabaseType, UserRows
  <2> QED  BY <2>1, <2>2, <2>3 DEF CallType, Lone
<1>30. ASSUME NEW l \in Links, LinkExpires(l) PROVE AccountsType'
  <2>1. links[l] # None /\ links' = [links EXCEPT ![l].state = "expired"] /\ UNCHANGED <<redis, browser, users, resets, call, topic, made>>
    BY <1>30 DEF LinkExpires
  <2>2. RedisType' /\ BrowserType' /\ UNCHANGED issued
    BY <2>1, RedisRests, BrowserRests
  <2>3. DatabaseType'
    BY <2>1 DEF DatabaseType, PasswordLinks
  <2> QED  BY <2>1, <2>2, <2>3 DEF CallType, Lone
<1>31. ASSUME NEW s \in Sids, Lapse(s) PROVE AccountsType'
  <2>1. Shrinks /\ RedisType'
    BY <1>31, LapseShrinks
  <2>2. UNCHANGED <<issued, browser, database, call>>
    BY <1>31 DEF Lapse
  <2> QED  BY <2>1, <2>2, BrowserRests, DatabaseRests DEF CallType, Lone
<1> QED  BY <1>1, <1>2, <1>3, <1>4, <1>5, <1>6, <1>7, <1>8, <1>9, <1>10, <1>11, <1>12, <1>13, <1>14, <1>15, <1>16,
            <1>17, <1>18, <1>19, <1>20, <1>21, <1>22, <1>23, <1>24, <1>25, <1>26, <1>27, <1>28, <1>29, <1>30, <1>31
         DEF AccountsNext

-----------------------------------------------------------------------------
(***************************************************************************)
(* Accounts: how a request moves                                           *)
(***************************************************************************)

\* What one step may make of a request: r before it, q after it
Kept(r, q) == Carries(r) /\ q.sid = r.sid /\ q.session = r.session
JustRead(r, q) == r # Idle /\ q.sid = r.sid /\ q.sid \in issued /\ Read(q.sid) # None /\ q.session = Read(q.sid)
ScopedStep(r, q) ==
    /\ r # Idle /\ q.sid = r.sid
    /\ \/ r.at = "middleware" /\ Read(q.sid) = None
       \/ Carries(r) /\ q.scope = r.session.org /\ store'[q.sid] = r.session
ServedStep(r, q) ==
    /\ r # Idle /\ q.op = r.op /\ q.sid = r.sid /\ q.scope = r.scope
    /\ \/ r.at \in {"enter", "handle", "write"} /\ q.session = r.session
       \/ r.at = "guard" /\ q.session = Read(q.sid) /\ Read(q.sid) # None
AskedStep(r, q) ==
    \/ r = Idle /\ q.at = "guard" /\ q.sid = cookie
    \/ /\ r # Idle /\ r.op = "me"
       /\ r.at = "guard" /\ r.sid = None => q.at = "answered" /\ q.status # "ok"
       /\ r.at = "answered" => q.at = "answered" /\ q.status # "ok"

Traced(r, q) ==
    /\ q # Idle => q.gen = IF r = Idle THEN tab.generation ELSE r.gen
    /\ Carries(q) => Kept(r, q) \/ JustRead(r, q)
    /\ q # Idle /\ q.at = "guard" /\ q.op \in OfficeOps => ScopedStep(r, q)
    /\ q # Idle /\ q.at \in {"enter", "handle", "write"} /\ q.op \in OfficeOps => ServedStep(r, q)
    /\ q # Idle /\ q.at = "claim" => links[q.link] # None /\ links[q.link].user = q.about
    /\ q.op = "me" => AskedStep(r, q)

Trace == \A d \in Calls : call'[d] = call[d] \/ Traced(call[d], call'[d])

\* A step of one request is traced when that request's is.
LEMMA TraceOf ==
  ASSUME NEW c \in Calls, \A d \in Calls \ {c} : call'[d] = call[d], Traced(call[c], call'[c])
  PROVE  Trace
  BY DEF Trace

\* Ending is traced, and so are replying, going on and sending.
LEMMA TracedIdle == ASSUME NEW r PROVE Traced(r, Idle)
  BY DEF Traced, Carries, Idle

\* A reply is traced; a visitor's GET /auth/me at the guard is replied to with 401.
LEMMA TracedReply ==
  ASSUME CallType, NEW c \in Calls, call[c] # Idle, NEW status, NEW u, NEW sid, Reply(c, status, u, sid),
         call[c].at # "answered", call[c].op = "me" /\ call[c].at = "guard" => status # "ok"
  PROVE  Trace
<1>1. \A d \in Calls \ {c} : call'[d] = call[d]
  BY WasReplied
<1>2. CASE call'[c] = Idle
  BY <1>1, <1>2, TracedIdle, TraceOf
<1>3. CASE call'[c] = [op |-> call[c].op, gen |-> call[c].gen, at |-> "answered",
                       status |-> status, user |-> u, sid |-> sid]
  <2>1. call'[c].op = call[c].op /\ call'[c].gen = call[c].gen /\ call'[c].at = "answered" /\ call'[c].status = status
    BY <1>3
  <2>2. Traced(call[c], call'[c])
    BY <2>1 DEF Traced, Carries, AskedStep
  <2> QED  BY <1>1, <2>2, TraceOf
<1> QED  BY <1>2, <1>3, WasReplied

\* The same of an ending.
LEMMA TracedEnd ==
  ASSUME CallType, NEW c \in Calls, call[c] # Idle, call[c].at # "answered", NEW status, End(c, status), status # "ok" \/ call[c].op # "me"
  PROVE  Trace
  BY TracedReply DEF End

\* The same of going on ...
LEMMA TracedGo ==
  ASSUME CallType, NEW c \in Calls, NEW to, Go(c, to), Traced(call[c], call'[c])
  PROVE  Trace
  BY WentOn, TraceOf

\* ... and of sending.
LEMMA TracedSend ==
  ASSUME CallType, NEW c \in Calls, NEW op, NEW body, Send(c, op, body), Traced(call[c], call'[c])
  PROVE  Trace
  BY WasSent, TraceOf

\* No handler reads a session, a scope or a link but as Traced says.
LEMMA TraceStep ==
  ASSUME AccountsType
  PROVE  AccountsNext => Trace
<1>a. None \notin issued
  BY AccountsAssumption DEF AccountsAssumption, AccountsType, RedisType
<1> USE DEF AccountsType
<1>1. ASSUME NEW c \in Calls, NEW u \in Users, NEW right \in BOOLEAN, login(c, u, right) PROVE Trace
  <2> DEFINE body == [at |-> "lookup", about |-> u, right |-> right, sid |-> cookie]
  <2>1. Send(c, "login", body)
    BY <1>1 DEF login
  <2>2. DOMAIN body = {"at", "about", "right", "sid"} /\ body["at"] = "lookup" /\ body["about"] = u /\ body["right"] = right /\ body["sid"] = cookie
    OBVIOUS
  <2> HIDE DEF body
  <2>3. /\ call[c] = Idle /\ call'[c].op = "login" /\ call'[c].gen = tab.generation
        /\ \A x \in DOMAIN body \ {"op", "gen"} : call'[c][x] = body[x]
    BY <2>1, WasSent
  <2>4. call'[c].at = "lookup" /\ call'[c].about = u /\ call'[c].right = right /\ call'[c].sid = cookie
    BY <2>2, <2>3
  <2>5. Traced(call[c], call'[c])
    BY <2>1, <2>3, <2>4 DEF Traced, Carries, OfficeOps, AskedStep
  <2> QED  BY <2>1, <2>5, TracedSend
<1>2. ASSUME NEW c \in Calls, logout(c) PROVE Trace
  <2> DEFINE body == [at |-> "arrive", sid |-> cookie]
  <2>1. Send(c, "logout", body)
    BY <1>2 DEF logout
  <2>2. DOMAIN body = {"at", "sid"} /\ body["at"] = "arrive" /\ body["sid"] = cookie
    OBVIOUS
  <2> HIDE DEF body
  <2>3. /\ call[c] = Idle /\ call'[c].op = "logout" /\ call'[c].gen = tab.generation
        /\ \A x \in DOMAIN body \ {"op", "gen"} : call'[c][x] = body[x]
    BY <2>1, WasSent
  <2>4. call'[c].at = "arrive" /\ call'[c].sid = cookie
    BY <2>2, <2>3
  <2>5. Traced(call[c], call'[c])
    BY <2>1, <2>3, <2>4 DEF Traced, Carries, OfficeOps, AskedStep
  <2> QED  BY <2>1, <2>5, TracedSend
<1>3. ASSUME NEW c \in Calls, me(c) PROVE Trace
  <2> DEFINE body == [at |-> "guard", sid |-> cookie, scope |-> Bootstrap]
  <2>1. Send(c, "me", body)
    BY <1>3 DEF me
  <2>2. DOMAIN body = {"at", "sid", "scope"} /\ body["at"] = "guard" /\ body["sid"] = cookie /\ body["scope"] = Bootstrap
    OBVIOUS
  <2> HIDE DEF body
  <2>3. /\ call[c] = Idle /\ call'[c].op = "me" /\ call'[c].gen = tab.generation
        /\ \A x \in DOMAIN body \ {"op", "gen"} : call'[c][x] = body[x]
    BY <2>1, WasSent
  <2>4. call'[c].at = "guard" /\ call'[c].sid = cookie /\ call'[c].scope = Bootstrap
    BY <2>2, <2>3
  <2>5. Traced(call[c], call'[c])
    BY <2>1, <2>3, <2>4 DEF Traced, Carries, OfficeOps, AskedStep
  <2> QED  BY <2>1, <2>5, TracedSend
<1>4. ASSUME NEW c \in Calls, changePassword(c) PROVE Trace
  <2> DEFINE body == [at |-> "guard", sid |-> cookie, scope |-> Bootstrap]
  <2>1. Send(c, "password", body)
    BY <1>4 DEF changePassword
  <2>2. DOMAIN body = {"at", "sid", "scope"} /\ body["at"] = "guard" /\ body["sid"] = cookie /\ body["scope"] = Bootstrap
    OBVIOUS
  <2> HIDE DEF body
  <2>3. /\ call[c] = Idle /\ call'[c].op = "password" /\ call'[c].gen = tab.generation
        /\ \A x \in DOMAIN body \ {"op", "gen"} : call'[c][x] = body[x]
    BY <2>1, WasSent
  <2>4. call'[c].at = "guard" /\ call'[c].sid = cookie /\ call'[c].scope = Bootstrap
    BY <2>2, <2>3
  <2>5. Traced(call[c], call'[c])
    BY <2>1, <2>3, <2>4 DEF Traced, Carries, OfficeOps, AskedStep
  <2> QED  BY <2>1, <2>5, TracedSend
<1>5. ASSUME NEW c \in Calls, page(c) PROVE Trace
  <2> DEFINE body == [at |-> "middleware", sid |-> cookie]
  <2>1. Send(c, "page", body)
    BY <1>5 DEF page
  <2>2. DOMAIN body = {"at", "sid"} /\ body["at"] = "middleware" /\ body["sid"] = cookie
    OBVIOUS
  <2> HIDE DEF body
  <2>3. /\ call[c] = Idle /\ call'[c].op = "page" /\ call'[c].gen = tab.generation
        /\ \A x \in DOMAIN body \ {"op", "gen"} : call'[c][x] = body[x]
    BY <2>1, WasSent
  <2>4. call'[c].at = "middleware" /\ call'[c].sid = cookie
    BY <2>2, <2>3
  <2>5. Traced(call[c], call'[c])
    BY <2>1, <2>3, <2>4 DEF Traced, Carries, OfficeOps, AskedStep
  <2> QED  BY <2>1, <2>5, TracedSend
<1>6. ASSUME NEW c \in Calls, NEW op \in {"update", "archive", "create"}, NEW s \in issued, NEW u \in Users,
             NEW p \in Patches \cup {None}, manage(c, op, s, u, p) PROVE Trace
  <2> DEFINE body == [at |-> "middleware", sid |-> s, about |-> u, patch |-> p]
  <2>1. Send(c, op, body)
    BY <1>6 DEF manage
  <2>2. DOMAIN body = {"at", "sid", "about", "patch"} /\ body["at"] = "middleware" /\ body["sid"] = s /\ body["about"] = u /\ body["patch"] = p
    OBVIOUS
  <2> HIDE DEF body
  <2>3. /\ call[c] = Idle /\ call'[c].op = op /\ call'[c].gen = tab.generation
        /\ \A x \in DOMAIN body \ {"op", "gen"} : call'[c][x] = body[x]
    BY <2>1, WasSent
  <2>4. call'[c].at = "middleware" /\ call'[c].sid = s /\ call'[c].about = u /\ call'[c].patch = p
    BY <2>2, <2>3
  <2>5. Traced(call[c], call'[c])
    BY <2>1, <2>3, <2>4 DEF Traced, Carries, OfficeOps, AskedStep
  <2> QED  BY <2>1, <2>5, TracedSend
<1>7. ASSUME NEW c \in Calls, NEW l \in Links, confirm(c, l) PROVE Trace
  <2> DEFINE body == [at |-> "claim", link |-> l, about |-> links[l].user, keep |-> None]
  <2>1. Send(c, "reset", body) /\ links[l] # None
    BY <1>7 DEF confirm
  <2>2. DOMAIN body = {"at", "link", "about", "keep"} /\ body["at"] = "claim" /\ body["link"] = l /\ body["about"] = links[l].user /\ body["keep"] = None
    OBVIOUS
  <2> HIDE DEF body
  <2>3. /\ call[c] = Idle /\ call'[c].op = "reset" /\ call'[c].gen = tab.generation
        /\ \A x \in DOMAIN body \ {"op", "gen"} : call'[c][x] = body[x]
    BY <2>1, WasSent
  <2>4. call'[c].at = "claim" /\ call'[c].link = l /\ call'[c].about = links[l].user /\ call'[c].keep = None
    BY <2>2, <2>3
  <2>5. Traced(call[c], call'[c])
    BY <2>1, <2>3, <2>4 DEF Traced, Carries, OfficeOps, AskedStep
  <2> QED  BY <2>1, <2>5, TracedSend
<1>8. ASSUME NEW c \in Calls, LoginLookup(c) PROVE Trace
  <2> DEFINE to == [at |-> "decide", row |-> users[call[c].about], verified |-> call[c].right]
  <2>1. /\ call[c].op = "login" /\ call[c].at = "lookup"
        /\ End(c, "401") \/ Go(c, to)
    BY <1>8 DEF LoginLookup
  <2>2. call[c] # Idle /\ call[c].at # "answered" /\ Shape(call[c], issued)
    BY <2>1 DEF Idle, CallType
  <2>3. ASSUME End(c, "401") PROVE Trace
    BY <2>1, <2>2, <2>3, TracedEnd
  <2>4. ASSUME Go(c, to) PROVE Trace
    <3>1. DOMAIN to = {"at", "row", "verified"} /\ to["at"] = "decide" /\ to["row"] = users[call[c].about] /\ to["verified"] = call[c].right
      OBVIOUS
    <3> HIDE DEF to
    <3>2. Advanced(c, to)
      BY <2>1, <2>2, <2>4, <3>1, Moved
    <3>3. call'[c].op = "login"
      BY <2>1, <2>2, <3>1, <3>2 DEF Advanced, Shape, Carries, Fits
    <3>4. Traced(call[c], call'[c])
      BY <2>1, <2>2, <2>4, <3>1, <3>2, <3>3 DEF Advanced, Traced, Carries, OfficeOps, Kept, JustRead, ScopedStep, ServedStep, AskedStep
    <3> QED  BY <2>4, <3>4, TracedGo
  <2> QED  BY <2>1, <2>3, <2>4
<1>9. ASSUME NEW c \in Calls, LoginDecide(c) PROVE Trace
  <2> DEFINE to == [at |-> "create"]
  <2>1. /\ call[c].op = "login" /\ call[c].at = "decide"
        /\ End(c, "401") \/ Go(c, to)
    BY <1>9 DEF LoginDecide
  <2>2. call[c] # Idle /\ call[c].at # "answered" /\ Shape(call[c], issued)
    BY <2>1 DEF Idle, CallType
  <2>3. ASSUME End(c, "401") PROVE Trace
    BY <2>1, <2>2, <2>3, TracedEnd
  <2>4. ASSUME Go(c, to) PROVE Trace
    <3>1. DOMAIN to = {"at"} /\ to["at"] = "create"
      OBVIOUS
    <3> HIDE DEF to
    <3>2. Advanced(c, to)
      BY <2>1, <2>2, <2>4, <3>1, Moved
    <3>3. call'[c].op = "login"
      BY <2>1, <2>2, <3>1, <3>2 DEF Advanced, Shape, Carries, Fits
    <3>4. Traced(call[c], call'[c])
      BY <2>1, <2>2, <2>4, <3>1, <3>2, <3>3 DEF Advanced, Traced, Carries, OfficeOps, Kept, JustRead, ScopedStep, ServedStep, AskedStep
    <3> QED  BY <2>4, <3>4, TracedGo
  <2> QED  BY <2>1, <2>3, <2>4
<1>10. ASSUME NEW c \in Calls, LoginCreate(c) PROVE Trace
  <2> DEFINE free == CHOOSE s \in Sids : s \notin issued
  <2>1. /\ call[c].op = "login" /\ call[c].at = "create" /\ Reply(c, "ok", call[c].about, free)
    BY <1>10 DEF LoginCreate
  <2>2. call[c] # Idle /\ call[c].at # "answered"
    BY <2>1 DEF Idle
  <2> HIDE DEF free
  <2> QED  BY <2>1, <2>2, TracedReply
<1>11. ASSUME NEW c \in Calls, Logout(c) PROVE Trace
  <2>1. /\ call[c].op = "logout" /\ call[c].at = "arrive" /\ End(c, "ok")
    BY <1>11 DEF Logout
  <2>2. call[c] # Idle /\ call[c].at # "answered" /\ Shape(call[c], issued)
    BY <2>1 DEF Idle, CallType
  <2> QED  BY <2>1, <2>2, TracedEnd
<1>12. ASSUME NEW c \in Calls, OfficeTenantMiddleware(c) PROVE Trace
  <2> DEFINE on == [at |-> "guard", scope |-> Bootstrap]
             to == [at |-> "touch", session |-> Read(call[c].sid)]
  <2>1. /\ call[c] # Idle /\ call[c].at = "middleware"
        /\ \/ Read(call[c].sid) = None /\ Go(c, on)
           \/ Read(call[c].sid) # None /\ Go(c, to)
    BY <1>12 DEF OfficeTenantMiddleware
  <2>2. call[c] # Idle /\ call[c].at # "answered" /\ Shape(call[c], issued)
    BY <2>1 DEF CallType
  <2>3. /\ "sid" \in DOMAIN call[c] /\ (Read(call[c].sid) # None => call[c].sid \in issued)
        /\ call[c].op \in OfficeOps
    BY <2>1, <2>2 DEF Shape, Read, Fits
  <2>4. ASSUME Go(c, on), Read(call[c].sid) = None PROVE Trace
    <3>1. DOMAIN on = {"at", "scope"} /\ on["at"] = "guard" /\ on["scope"] = Bootstrap
      OBVIOUS
    <3> HIDE DEF on
    <3>2. Read(call[c].sid) = None /\ call[c].op \in OfficeOps
      BY <2>4, <2>3
    <3>3. Advanced(c, on)
      BY <2>1, <2>2, <2>4, <3>1, <3>2, Moved
    <3>4. call'[c].sid = call[c].sid
      BY <2>1, <2>2, <3>1, <3>3 DEF Advanced, Shape, Carries, Fits
    <3>5. Traced(call[c], call'[c])
      BY <2>1, <2>2, <2>4, <3>1, <3>3, <3>4, <3>2 DEF Advanced, Traced, Carries, OfficeOps, Kept, JustRead, ScopedStep, ServedStep, AskedStep
    <3> QED  BY <2>4, <3>5, TracedGo
  <2>5. ASSUME Go(c, to), Read(call[c].sid) # None PROVE Trace
    <3>1. DOMAIN to = {"at", "session"} /\ to["at"] = "touch" /\ to["session"] = Read(call[c].sid)
      OBVIOUS
    <3> HIDE DEF to
    <3>2. Read(call[c].sid) # None /\ call[c].sid \in issued
      BY <2>5, <2>3
    <3>3. Advanced(c, to)
      BY <2>1, <2>2, <2>5, <3>1, <3>2, Moved
    <3>4. call'[c].sid = call[c].sid /\ call'[c].session = Read(call[c].sid)
      BY <2>1, <2>2, <3>1, <3>3 DEF Advanced, Shape, Carries, Fits
    <3>5. Traced(call[c], call'[c])
      BY <2>1, <2>2, <2>5, <3>1, <3>3, <3>4, <3>2 DEF Advanced, Traced, Carries, OfficeOps, Kept, JustRead, ScopedStep, ServedStep, AskedStep
    <3> QED  BY <2>5, <3>5, TracedGo
  <2> QED  BY <2>1, <2>4, <2>5
<1>13. ASSUME NEW c \in Calls, OfficeTenantScope(c) PROVE Trace
  <2> DEFINE to == [at |-> "guard", scope |-> call[c].session.org]
  <2>1. /\ call[c] # Idle /\ call[c].at = "touch" /\ Touch(c) /\ Go(c, to)
    BY <1>13 DEF OfficeTenantScope
  <2>2. call[c] # Idle /\ call[c].at # "answered" /\ Shape(call[c], issued)
    BY <2>1 DEF Idle, CallType
  <2>3. store'[call[c].sid] = call[c].session /\ call[c].op \in OfficeOps
    BY <2>1, <2>2 DEF Touch, Shape, Carries, RedisType, Fits
  <2>4. ASSUME Go(c, to) PROVE Trace
    <3>1. DOMAIN to = {"at", "scope"} /\ to["at"] = "guard" /\ to["scope"] = call[c].session.org
      OBVIOUS
    <3> HIDE DEF to
    <3>2. store'[call[c].sid] = call[c].session /\ call[c].op \in OfficeOps
      BY <2>3
    <3>3. Advanced(c, to)
      BY <2>1, <2>2, <2>4, <3>1, <3>2, Moved
    <3>4. call'[c].sid = call[c].sid /\ call'[c].scope = call[c].session.org
      BY <2>1, <2>2, <3>1, <3>3 DEF Advanced, Shape, Carries, Fits
    <3>5. Traced(call[c], call'[c])
      BY <2>1, <2>2, <2>4, <3>1, <3>3, <3>4, <3>2 DEF Advanced, Traced, Carries, OfficeOps, Kept, JustRead, ScopedStep, ServedStep, AskedStep
    <3> QED  BY <2>4, <3>5, TracedGo
  <2> QED  BY <2>1, <2>4
<1>14. ASSUME NEW c \in Calls, OfficeSessionGuard(c) PROVE Trace
  <2> DEFINE to == [at |-> "enter", session |-> Read(call[c].sid)]
  <2>1. /\ call[c] # Idle /\ call[c].at = "guard"
        /\ \/ End(c, "401")
           \/ Read(call[c].sid) # None /\ Go(c, to)
    BY <1>14 DEF OfficeSessionGuard
  <2>2. call[c] # Idle /\ call[c].at # "answered" /\ Shape(call[c], issued)
    BY <2>1 DEF CallType
  <2>3. ASSUME End(c, "401") PROVE Trace
    BY <2>1, <2>2, <2>3, TracedEnd
  <2>4. Read(call[c].sid) # None => call[c].sid \in issued /\ call[c].sid # None
    BY <1>a, <2>1, <2>2 DEF Shape, Read
  <2>5. ASSUME Go(c, to), Read(call[c].sid) # None PROVE Trace
    <3>1. DOMAIN to = {"at", "session"} /\ to["at"] = "enter" /\ to["session"] = Read(call[c].sid)
      OBVIOUS
    <3> HIDE DEF to
    <3>2. Read(call[c].sid) # None /\ call[c].sid \in issued /\ call[c].sid # None
      BY <2>5, <2>4
    <3>3. Advanced(c, to)
      BY <2>1, <2>2, <2>5, <3>1, <3>2, Moved
    <3>4. call'[c].sid = call[c].sid /\ call'[c].session = Read(call[c].sid) /\ call'[c].scope = call[c].scope
      BY <2>1, <2>2, <3>1, <3>3 DEF Advanced, Shape, Carries, Fits
    <3>5. Traced(call[c], call'[c])
      BY <2>1, <2>2, <2>5, <3>1, <3>3, <3>4, <3>2 DEF Advanced, Traced, Carries, OfficeOps, Kept, JustRead, ScopedStep, ServedStep, AskedStep
    <3> QED  BY <2>5, <3>5, TracedGo
  <2> QED  BY <2>1, <2>3, <2>5
<1>15. ASSUME NEW c \in Calls, RolesGuard(c) PROVE Trace
  <2> DEFINE to == [at |-> "handle"]
  <2>1. /\ call[c] # Idle /\ call[c].at = "enter" /\ (Go(c, to) \/ End(c, "403"))
    BY <1>15 DEF RolesGuard
  <2>2. call[c] # Idle /\ call[c].at # "answered" /\ Shape(call[c], issued)
    BY <2>1 DEF Idle, CallType
  <2>3. ASSUME End(c, "403") PROVE Trace
    BY <2>1, <2>2, <2>3, TracedEnd
  <2>4. ASSUME Go(c, to) PROVE Trace
    <3>1. DOMAIN to = {"at"} /\ to["at"] = "handle"
      OBVIOUS
    <3> HIDE DEF to
    <3>2. Advanced(c, to)
      BY <2>1, <2>2, <2>4, <3>1, Moved
    <3>3. call'[c].sid = call[c].sid /\ call'[c].session = call[c].session /\ call'[c].scope = call[c].scope
      BY <2>1, <2>2, <3>1, <3>2 DEF Advanced, Shape, Carries, Fits
    <3>4. Traced(call[c], call'[c])
      BY <2>1, <2>2, <2>4, <3>1, <3>2, <3>3 DEF Advanced, Traced, Carries, OfficeOps, Kept, JustRead, ScopedStep, ServedStep, AskedStep
    <3> QED  BY <2>4, <3>4, TracedGo
  <2> QED  BY <2>1, <2>3, <2>4
<1>16. ASSUME NEW c \in Calls, Serve(c) PROVE Trace
  <2>1. /\ call[c].op \in {"page", "me"} /\ call[c].at = "handle"
        /\ Reply(c, "ok", call[c].session.user, call[c].sid)
    BY <1>16 DEF Serve, Handling
  <2>2. call[c] # Idle /\ call[c].at # "answered" /\ Shape(call[c], issued)
    BY <2>1 DEF Idle, CallType
  <2> QED  BY <2>1, <2>2, TracedReply
<1>17. ASSUME NEW c \in Calls, PasswordLookup(c) PROVE Trace
  <2> DEFINE to == [at |-> "write"]
  <2>1. /\ call[c].op = "password" /\ call[c].at = "handle" /\ (Go(c, to) \/ End(c, "401"))
    BY <1>17 DEF PasswordLookup, Handling
  <2>2. call[c] # Idle /\ call[c].at # "answered" /\ Shape(call[c], issued)
    BY <2>1 DEF Idle, CallType
  <2>3. ASSUME End(c, "401") PROVE Trace
    BY <2>1, <2>2, <2>3, TracedEnd
  <2>4. ASSUME Go(c, to) PROVE Trace
    <3>1. DOMAIN to = {"at"} /\ to["at"] = "write"
      OBVIOUS
    <3> HIDE DEF to
    <3>2. Advanced(c, to)
      BY <2>1, <2>2, <2>4, <3>1, Moved
    <3>3. call'[c].sid = call[c].sid /\ call'[c].session = call[c].session /\ call'[c].scope = call[c].scope
      BY <2>1, <2>2, <3>1, <3>2 DEF Advanced, Shape, Carries, Fits
    <3>4. Traced(call[c], call'[c])
      BY <2>1, <2>2, <2>4, <3>1, <3>2, <3>3 DEF Advanced, Traced, Carries, OfficeOps, Kept, JustRead, ScopedStep, ServedStep, AskedStep
    <3> QED  BY <2>4, <3>4, TracedGo
  <2> QED  BY <2>1, <2>3, <2>4
<1>18. ASSUME NEW c \in Calls, PasswordWrite(c) PROVE Trace
  <2> DEFINE to == [at |-> "revoke", about |-> call[c].session.user, keep |-> call[c].sid]
  <2>1. /\ call[c].op = "password" /\ call[c].at = "write" /\ Go(c, to)
    BY <1>18 DEF PasswordWrite
  <2>2. call[c] # Idle /\ call[c].at # "answered" /\ Shape(call[c], issued)
    BY <2>1 DEF Idle, CallType
  <2>3. ASSUME Go(c, to) PROVE Trace
    <3>1. DOMAIN to = {"at", "about", "keep"} /\ to["at"] = "revoke" /\ to["about"] = call[c].session.user /\ to["keep"] = call[c].sid
      OBVIOUS
    <3> HIDE DEF to
    <3>2. call[c].session.user \in Users
      BY <2>1, <2>2 DEF Shape, Carries, Sessions
    <3>3. Advanced(c, to)
      BY <2>1, <2>2, <2>3, <3>1, <3>2, Moved
    <3>4. call'[c].op = "password"
      BY <2>1, <2>2, <3>1, <3>3 DEF Advanced, Shape, Carries, Fits
    <3>5. Traced(call[c], call'[c])
      BY <2>1, <2>2, <2>3, <3>1, <3>3, <3>4, <3>2 DEF Advanced, Traced, Carries, OfficeOps, Kept, JustRead, ScopedStep, ServedStep, AskedStep
    <3> QED  BY <2>3, <3>5, TracedGo
  <2> QED  BY <2>1, <2>3
<1>19. ASSUME NEW c \in Calls, Load(c) PROVE Trace
  <2> DEFINE to == [at |-> "write", row |-> users[call[c].about]]
  <2>1. /\ call[c].op \in {"update", "archive"} /\ call[c].at = "handle" /\ (Go(c, to) \/ End(c, "409"))
    BY <1>19 DEF Load, Handling
  <2>2. call[c] # Idle /\ call[c].at # "answered" /\ Shape(call[c], issued)
    BY <2>1 DEF Idle, CallType
  <2>3. ASSUME End(c, "409") PROVE Trace
    BY <2>1, <2>2, <2>3, TracedEnd
  <2>4. ASSUME Go(c, to) PROVE Trace
    <3>1. DOMAIN to = {"at", "row"} /\ to["at"] = "write" /\ to["row"] = users[call[c].about]
      OBVIOUS
    <3> HIDE DEF to
    <3>2. Advanced(c, to)
      BY <2>1, <2>2, <2>4, <3>1, Moved
    <3>3. call'[c].sid = call[c].sid /\ call'[c].session = call[c].session /\ call'[c].scope = call[c].scope
      BY <2>1, <2>2, <3>1, <3>2 DEF Advanced, Shape, Carries, Fits
    <3>4. Traced(call[c], call'[c])
      BY <2>1, <2>2, <2>4, <3>1, <3>2, <3>3 DEF Advanced, Traced, Carries, OfficeOps, Kept, JustRead, ScopedStep, ServedStep, AskedStep
    <3> QED  BY <2>4, <3>4, TracedGo
  <2> QED  BY <2>1, <2>3, <2>4
<1>20. ASSUME NEW c \in Calls, update(c) PROVE Trace
  <2> DEFINE to == [at |-> "revoke", keep |-> None]
  <2>1. /\ call[c].op = "update" /\ call[c].at = "write" /\ (Go(c, to) \/ End(c, "ok"))
    BY <1>20 DEF update
  <2>2. call[c] # Idle /\ call[c].at # "answered" /\ Shape(call[c], issued)
    BY <2>1 DEF Idle, CallType
  <2>3. ASSUME End(c, "ok") PROVE Trace
    BY <2>1, <2>2, <2>3, TracedEnd
  <2>4. ASSUME Go(c, to) PROVE Trace
    <3>1. DOMAIN to = {"at", "keep"} /\ to["at"] = "revoke" /\ to["keep"] = None
      OBVIOUS
    <3> HIDE DEF to
    <3>2. Advanced(c, to)
      BY <2>1, <2>2, <2>4, <3>1, Moved
    <3>3. call'[c].op = "update"
      BY <2>1, <2>2, <3>1, <3>2 DEF Advanced, Shape, Carries, Fits
    <3>4. Traced(call[c], call'[c])
      BY <2>1, <2>2, <2>4, <3>1, <3>2, <3>3 DEF Advanced, Traced, Carries, OfficeOps, Kept, JustRead, ScopedStep, ServedStep, AskedStep
    <3> QED  BY <2>4, <3>4, TracedGo
  <2> QED  BY <2>1, <2>3, <2>4
<1>21. ASSUME NEW c \in Calls, archive(c) PROVE Trace
  <2> DEFINE to == [at |-> "revoke", keep |-> None]
  <2>1. /\ call[c].op = "archive" /\ call[c].at = "write" /\ Go(c, to)
    BY <1>21 DEF archive
  <2>2. call[c] # Idle /\ call[c].at # "answered" /\ Shape(call[c], issued)
    BY <2>1 DEF Idle, CallType
  <2>3. ASSUME Go(c, to) PROVE Trace
    <3>1. DOMAIN to = {"at", "keep"} /\ to["at"] = "revoke" /\ to["keep"] = None
      OBVIOUS
    <3> HIDE DEF to
    <3>2. Advanced(c, to)
      BY <2>1, <2>2, <2>3, <3>1, Moved
    <3>3. call'[c].op = "archive"
      BY <2>1, <2>2, <3>1, <3>2 DEF Advanced, Shape, Carries, Fits
    <3>4. Traced(call[c], call'[c])
      BY <2>1, <2>2, <2>3, <3>1, <3>2, <3>3 DEF Advanced, Traced, Carries, OfficeOps, Kept, JustRead, ScopedStep, ServedStep, AskedStep
    <3> QED  BY <2>3, <3>4, TracedGo
  <2> QED  BY <2>1, <2>3
<1>22. ASSUME NEW c \in Calls, Revoke(c) PROVE Trace
  <2>1. /\ call[c] # Idle /\ call[c].at = "revoke" /\ End(c, "ok")
    BY <1>22 DEF Revoke
  <2>2. call[c] # Idle /\ call[c].at # "answered" /\ Shape(call[c], issued)
    BY <2>1 DEF Idle, CallType
  <2>3. call[c].op # "me"
    BY <2>1, <2>2 DEF Shape, Fits
  <2> QED  BY <2>1, <2>2, <2>3, TracedEnd
<1>23. ASSUME NEW c \in Calls, CreateUser(c) PROVE Trace
  <2> DEFINE to == [at |-> "invite"]
  <2>1. /\ call[c].op = "create" /\ call[c].at = "handle" /\ (Go(c, to) \/ End(c, "409"))
    BY <1>23 DEF CreateUser, Handling
  <2>2. call[c] # Idle /\ call[c].at # "answered" /\ Shape(call[c], issued)
    BY <2>1 DEF Idle, CallType
  <2>3. ASSUME End(c, "409") PROVE Trace
    BY <2>1, <2>2, <2>3, TracedEnd
  <2>4. ASSUME Go(c, to) PROVE Trace
    <3>1. DOMAIN to = {"at"} /\ to["at"] = "invite"
      OBVIOUS
    <3> HIDE DEF to
    <3>2. Advanced(c, to)
      BY <2>1, <2>2, <2>4, <3>1, Moved
    <3>3. call'[c].op = "create"
      BY <2>1, <2>2, <3>1, <3>2 DEF Advanced, Shape, Carries, Fits
    <3>4. Traced(call[c], call'[c])
      BY <2>1, <2>2, <2>4, <3>1, <3>2, <3>3 DEF Advanced, Traced, Carries, OfficeOps, Kept, JustRead, ScopedStep, ServedStep, AskedStep
    <3> QED  BY <2>4, <3>4, TracedGo
  <2> QED  BY <2>1, <2>3, <2>4
<1>24. ASSUME NEW c \in Calls, Invite(c) PROVE Trace
  <2>1. /\ call[c] # Idle /\ call[c].at = "invite" /\ End(c, "ok")
    BY <1>24 DEF Invite
  <2>2. call[c] # Idle /\ call[c].at # "answered" /\ Shape(call[c], issued)
    BY <2>1 DEF Idle, CallType
  <2>3. call[c].op # "me"
    BY <2>1, <2>2 DEF Shape, Fits
  <2> QED  BY <2>1, <2>2, <2>3, TracedEnd
<1>25. ASSUME NEW c \in Calls, ConfirmCommit(c) PROVE Trace
  <2> DEFINE to == [at |-> "revoke"]
  <2>1. /\ call[c].op = "reset" /\ call[c].at = "claim" /\ (Go(c, to) \/ End(c, "401"))
    BY <1>25 DEF ConfirmCommit
  <2>2. call[c] # Idle /\ call[c].at # "answered" /\ Shape(call[c], issued)
    BY <2>1 DEF Idle, CallType
  <2>3. ASSUME End(c, "401") PROVE Trace
    BY <2>1, <2>2, <2>3, TracedEnd
  <2>4. ASSUME Go(c, to) PROVE Trace
    <3>1. DOMAIN to = {"at"} /\ to["at"] = "revoke"
      OBVIOUS
    <3> HIDE DEF to
    <3>2. Advanced(c, to)
      BY <2>1, <2>2, <2>4, <3>1, Moved
    <3>3. call'[c].op = "reset"
      BY <2>1, <2>2, <3>1, <3>2 DEF Advanced, Shape, Carries, Fits
    <3>4. Traced(call[c], call'[c])
      BY <2>1, <2>2, <2>4, <3>1, <3>2, <3>3 DEF Advanced, Traced, Carries, OfficeOps, Kept, JustRead, ScopedStep, ServedStep, AskedStep
    <3> QED  BY <2>4, <3>4, TracedGo
  <2> QED  BY <2>1, <2>3, <2>4
<1>26. ASSUME NEW c \in Calls, Answer(c) PROVE Trace
  <2>1. call' = [call EXCEPT ![c] = Idle]
    BY <1>26 DEF Answer
  <2> QED  BY <2>1, Freed, TracedIdle, TraceOf
<1>27. ASSUME NEW c \in Calls, AnswerLost(c) PROVE Trace
  <2>1. call[c] # Idle /\ call[c].at = "answered" /\ call' = [call EXCEPT ![c] = [call[c] EXCEPT !.status = "lost"]]
    BY <1>27 DEF AnswerLost
  <2>2. call'[c] = [call[c] EXCEPT !.status = "lost"] /\ \A d \in Calls \ {c} : call'[d] = call[d]
    BY <2>1 DEF CallType
  <2>3. Shape(call[c], issued)
    BY DEF CallType
  <2>4. /\ call'[c].op = call[c].op /\ call'[c].gen = call[c].gen /\ call'[c].at = "answered"
        /\ call'[c].status = "lost"
    BY <2>1, <2>2, <2>3 DEF Shape
  <2>5. Traced(call[c], call'[c])
    BY <2>1, <2>4 DEF Traced, Carries, AskedStep
  <2> QED  BY <2>2, <2>5, TraceOf
<1>28. ASSUME UNCHANGED call PROVE Trace
  BY <1>28 DEF Trace
<1> QED  BY <1>1, <1>8, <1>9, <1>10, <1>2, <1>3, <1>4, <1>5, <1>6, <1>7, <1>11, <1>12, <1>13, <1>14, <1>15, <1>16,
            <1>17, <1>18, <1>19, <1>20, <1>21, <1>22, <1>23, <1>24, <1>25, <1>26, <1>27, <1>28
         DEF AccountsNext, Forgot, LockElapses, LinkExpires, Lapse

-----------------------------------------------------------------------------
(***************************************************************************)
(* Accounts: how the sessions move                                         *)
(***************************************************************************)

\* A session goes, or stays what it is, or is written back by who had read it;
\* a new one is indexed, and the index forgets only what has gone.
Stored ==
    /\ excused \subseteq excused' /\ aged \subseteq aged' /\ issued \subseteq issued'
    /\ \A s \in issued :
          \/ store'[s] \in {None, store[s]}
          \/ \E c \in Calls :
                /\ Carries(call[c]) /\ call[c].sid = s /\ store'[s] = call[c].session
                /\ store[s] = None => s \in excused'
    /\ \A s \in Sids \ issued : store'[s] # None => s \in index'[store'[s].user]
    /\ \A u \in Users : \A s \in index[u] : store'[s] # None => s \in index'[u]

\* Taking sessions away is stored as Stored says ...
LEMMA StoredShrinks == ASSUME RedisType, Shrinks PROVE Stored
  BY DEF RedisType, Shrinks, Stored

\* ... and so is writing one back ...
LEMMA StoredTouch ==
  ASSUME RedisType, CallType, NEW c \in Calls, Carries(call[c]), Touch(c) PROVE Stored
<1>1. /\ UNCHANGED <<index, aged, issued, vouched>>
      /\ call[c].sid \in issued /\ call[c].session \in Sessions
      /\ store' = [store EXCEPT ![call[c].sid] = call[c].session]
      /\ excused \subseteq excused' /\ (store[call[c].sid] = None => call[c].sid \in excused')
  BY TouchTyped
<1>2. /\ \A s \in Sids : s # call[c].sid => store'[s] = store[s]
      /\ store'[call[c].sid] = call[c].session
  BY <1>1 DEF RedisType
<1>3. \A s \in Sids \ issued : store'[s] = None
  BY <1>1, <1>2 DEF RedisType
<1>4. \A s \in issued :
          \/ store'[s] \in {None, store[s]}
          \/ /\ call[c].sid = s /\ store'[s] = call[c].session
             /\ store[s] = None => s \in excused'
  BY <1>1, <1>2 DEF RedisType
<1> QED  BY <1>1, <1>3, <1>4 DEF Stored

\* A new session
LEMMA StoredCreate ==
  ASSUME RedisType, NEW u \in Users, NEW row \in UserRows, NEW sid \in Sids \ issued, create(u, row, sid)
  PROVE  /\ Stored /\ issued' = issued \cup {sid}
         /\ \A s \in Sids \ {sid} : store'[s] = store[s] /\ vouched'[s] = vouched[s]
         /\ store'[sid] = [user |-> u, org |-> OrgOf[u], grant |-> row.grant] /\ vouched'[sid] = row.pw
         /\ Stale(row, u) => sid \in excused'
<1> DEFINE new == [user |-> u, org |-> OrgOf[u], grant |-> row.grant]
<1>1. /\ store' = [store EXCEPT ![sid] = new] /\ index' = [index EXCEPT ![u] = @ \cup {sid}]
      /\ issued' = issued \cup {sid} /\ vouched' = [vouched EXCEPT ![sid] = row.pw]
      /\ excused' = IF Stale(row, u) THEN excused \cup {sid} ELSE excused
      /\ UNCHANGED aged
  BY DEF create
<1>2. new.user = u
  OBVIOUS
<1> HIDE DEF new
<1>3. /\ \A s \in Sids \ {sid} : store'[s] = store[s] /\ vouched'[s] = vouched[s]
      /\ store'[sid] = new /\ vouched'[sid] = row.pw
  BY <1>1 DEF RedisType
<1>4. \A s \in Sids \ issued : store'[s] # None => s = sid /\ s \in index'[u]
  BY <1>1, <1>3 DEF RedisType
<1>5. \A v \in Users : \A s \in index[v] : s \in index'[v]
  BY <1>1 DEF RedisType
<1>6. \A s \in issued : store'[s] = store[s]
  BY <1>3 DEF RedisType
<1>7. excused \subseteq excused' /\ (Stale(row, u) => sid \in excused')
  BY <1>1
<1>8. Stored
  BY <1>1, <1>2, <1>3, <1>4, <1>5, <1>6, <1>7 DEF Stored
<1> QED  BY <1>1, <1>3, <1>7, <1>8 DEF new

\* A sign-in opens a session under an id nobody was given.
LEMMA Creates ==
  ASSUME AccountsType, NEW c \in Calls, LoginCreate(c)
  PROVE  \E sid \in Sids \ issued :
            /\ create(call[c].about, call[c].row, sid)
            /\ call[c].about \in Users /\ call[c].row \in UserRows
<1> DEFINE free == CHOOSE s \in Sids : s \notin issued
<1>1. /\ call[c].op = "login" /\ call[c].at = "create"
      /\ create(call[c].about, call[c].row, free)
  BY DEF LoginCreate
<1>2. call[c] # Idle /\ Shape(call[c], issued) /\ issued # Sids
  BY <1>1 DEF Idle, AccountsType, CallType, Lone
<1>3. call[c].about \in Users /\ call[c].row \in UserRows
  BY <1>1, <1>2 DEF Shape
<1>4. free \in Sids \ issued
  BY <1>2 DEF AccountsType, RedisType
<1> QED  BY <1>1, <1>3, <1>4

\* No handler changes sessions but as Stored says.
LEMMA StoreStep ==
  ASSUME AccountsType
  PROVE  AccountsNext => Stored
<1> USE DEF AccountsType
<1>1. ASSUME UNCHANGED redis PROVE Stored
  BY <1>1, NothingShrinks, StoredShrinks
<1>2. ASSUME NEW c \in Calls, LoginCreate(c) PROVE Stored
  BY <1>2, Creates, StoredCreate
<1>3. ASSUME NEW c \in Calls, Logout(c) PROVE Stored
  BY <1>3, DestroyShrinks, StoredShrinks DEF Logout
<1>4. ASSUME NEW c \in Calls, OfficeTenantMiddleware(c) \/ OfficeSessionGuard(c) PROVE Stored
  BY <1>4, PurgeShrinks, StoredShrinks DEF OfficeTenantMiddleware, OfficeSessionGuard
<1>5. ASSUME NEW c \in Calls, OfficeTenantScope(c) \/ RolesGuard(c) PROVE Stored
  BY <1>5, StoredTouch DEF OfficeTenantScope, RolesGuard, Carries
<1>6. ASSUME NEW c \in Calls, PasswordWrite(c) PROVE Stored
  <2>1. UNCHANGED <<store, index, aged, issued, excused>>
    BY <1>6 DEF PasswordWrite
  <2> QED  BY <2>1 DEF Stored, RedisType
<1>7. ASSUME NEW c \in Calls, update(c) PROVE Stored
  <2>1. UNCHANGED <<store, index, aged, issued>> /\ excused \subseteq excused'
    BY <1>7 DEF update
  <2> QED  BY <2>1 DEF Stored, RedisType
<1>8. ASSUME NEW c \in Calls, Revoke(c) PROVE Stored
  <2>1. call[c].about \in Users
    BY <1>8 DEF Revoke, CallType, Shape
  <2>2. CASE destroySessionsOf(call[c].about, call[c].keep)
    BY <2>1, <2>2, DestroyAllShrinks, StoredShrinks
  <2>3. CASE UNCHANGED <<store, index, aged, issued, vouched>> /\ excused \subseteq excused'
    BY <2>3 DEF Stored, RedisType
  <2> QED  BY <1>8, <2>2, <2>3 DEF Revoke
<1>9. ASSUME NEW s \in Sids, Lapse(s) PROVE Stored
  BY <1>9, LapseShrinks, StoredShrinks
<1> QED  BY <1>1, <1>2, <1>3, <1>4, <1>5, <1>6, <1>7, <1>8, <1>9
         DEF AccountsNext, login, me, changePassword, page, logout, manage, confirm, Send, LoginLookup, LoginDecide,
             Serve, PasswordLookup, Load, archive, CreateUser, Invite, ConfirmCommit, Answer, AnswerLost,
             Forgot, LockElapses, LinkExpires

-----------------------------------------------------------------------------
(***************************************************************************)
(* Accounts: ServedAsNamed                                                 *)
(***************************************************************************)

\* A session is one and the same wherever it is held.
Same ==
    /\ \A c \in Calls : Carries(call[c]) /\ store[call[c].sid] # None => call[c].session = store[call[c].sid]
    /\ \A c, d \in Calls : Carries(call[c]) /\ Carries(call[d]) /\ call[c].sid = call[d].sid =>
          call[c].session = call[d].session

\* A revocation finds every session that is not excused.
Indexed == \A s \in Sids : store[s] # None /\ s \notin excused => s \in index[store[s].user]

\* Between the middleware and the guard
Scoped ==
    \A c \in Calls : call[c] # Idle /\ call[c].at = "guard" /\ call[c].op \in OfficeOps =>
        \/ call[c].sid \in excused \cup aged \cup {None}
        \/ store[call[c].sid] = None
        \/ call[c].scope = store[call[c].sid].org
Served ==
    \A c \in Calls : call[c] # Idle /\ call[c].at \in {"enter", "handle", "write"} /\ call[c].op \in OfficeOps =>
        call[c].scope = call[c].session.org \/ call[c].sid \in excused

ScopeInv == Same /\ Scoped /\ Served

\* A copy of a session is a session, and its id was handed out.
LEMMA CarriedSid == ASSUME CallType, NEW c \in Calls, Carries(call[c]) PROVE call[c].sid \in issued /\ call[c].session \in Sessions
  BY DEF CallType, Shape, Carries

\* Whatever stands after a step stood before it and is what it was, or is excused.
LEMMA Stands ==
  ASSUME Same, Stored, NEW s \in issued
  PROVE  \/ store'[s] = None
         \/ store[s] # None /\ store'[s] = store[s]
         \/ store[s] = None /\ s \in excused'
<1>1. CASE store'[s] \in {None, store[s]}
  BY <1>1
<1>2. ASSUME NEW c \in Calls, Carries(call[c]), call[c].sid = s, store'[s] = call[c].session,
             store[s] = None => s \in excused'
      PROVE  (store[s] # None /\ store'[s] = store[s]) \/ (store[s] = None /\ s \in excused')
  BY <1>2 DEF Same
<1> QED  BY <1>1, <1>2 DEF Stored

\* Copies of a session agree with one another and with the store, after every step.
LEMMA SameStep ==
  ASSUME AccountsType, Same, Trace, Stored
  PROVE  Same'
<1> USE DEF AccountsType
<1>1. \A c \in Calls : Carries(call'[c]) =>
          \/ Carries(call[c]) /\ call'[c].sid = call[c].sid /\ call'[c].session = call[c].session
          \/ /\ call'[c].sid \in issued /\ store[call'[c].sid] # None
             /\ call'[c].session = store[call'[c].sid]
  BY DEF Trace, Traced, Kept, JustRead, Read
<1>2. \A c, d \in Calls : Carries(call'[c]) /\ Carries(call'[d]) /\ call'[c].sid = call'[d].sid =>
          call'[c].session = call'[d].session
  BY <1>1 DEF Same
<1>3. ASSUME NEW c \in Calls, Carries(call'[c]), store'[call'[c].sid] # None
      PROVE  call'[c].session = store'[call'[c].sid]
  <2>1. call'[c].sid \in issued
    BY <1>1, <1>3, CarriedSid
  <2>2. ASSUME store'[call'[c].sid] \in {None, store[call'[c].sid]} PROVE call'[c].session = store'[call'[c].sid]
    BY <1>1, <1>3, <2>2 DEF Same
  <2>3. ASSUME NEW d \in Calls, Carries(call[d]), call[d].sid = call'[c].sid, store'[call'[c].sid] = call[d].session
        PROVE  call'[c].session = store'[call'[c].sid]
    BY <1>1, <1>3, <2>3 DEF Same
  <2> DEFINE s == call'[c].sid
  <2>4. \/ store'[s] \in {None, store[s]}
        \/ \E d \in Calls : Carries(call[d]) /\ call[d].sid = s /\ store'[s] = call[d].session
    <3>1. \A i \in issued : \/ store'[i] \in {None, store[i]}
                            \/ \E d \in Calls : Carries(call[d]) /\ call[d].sid = i /\ store'[i] = call[d].session
      BY DEF Stored
    <3> QED  BY <2>1, <3>1
  <2> QED  BY <2>2, <2>3, <2>4
<1> QED  BY <1>2, <1>3 DEF Same

\* What stands is indexed, after every step.
LEMMA IndexedStep ==
  ASSUME AccountsType, Same, Indexed, Stored
  PROVE  Indexed'
<1> SUFFICES ASSUME NEW s \in Sids, store'[s] # None, s \notin excused' PROVE s \in index'[store'[s].user]
  BY DEF Indexed
<1>1. CASE s \notin issued
  BY <1>1 DEF Stored
<1>2. CASE s \in issued
  <2>1. s \notin excused
    BY DEF Stored
  <2>2. store[s] # None /\ store'[s] = store[s]
    <3>1. excused \subseteq excused'
      BY DEF Stored
    <3> QED  BY <1>2, Stands
  <2>3. s \in index[store[s].user] /\ store[s].user \in Users
    BY <2>1, <2>2 DEF Indexed, AccountsType, RedisType, Sessions
  <2> QED  BY <2>2, <2>3 DEF Stored
<1> QED  BY <1>1, <1>2

\* The scope the middleware opened is that of the session the guard will find.
LEMMA ScopedKept ==
  ASSUME AccountsType, ScopeInv, Trace, Stored
  PROVE  Scoped'
<1> USE DEF AccountsType, ScopeInv
<1> SUFFICES ASSUME NEW c \in Calls, call'[c] # Idle, call'[c].at = "guard", call'[c].op \in OfficeOps
             PROVE  \/ call'[c].sid \in excused' \cup aged' \cup {None}
                    \/ store'[call'[c].sid] = None
                    \/ call'[c].scope = store'[call'[c].sid].org
  BY DEF Scoped
<1>1. CASE call'[c] = call[c]
  <2>1. call[c].sid \in issued \cup {None}
    BY <1>1 DEF CallType, Shape
  <2>2. \/ call[c].sid \in excused \cup aged \cup {None}
        \/ store[call[c].sid] = None
        \/ call[c].scope = store[call[c].sid].org
    BY <1>1 DEF Scoped
  <2>3. CASE call[c].sid \in excused \cup aged \cup {None}
    BY <1>1, <2>3 DEF Stored
  <2>4. CASE call[c].sid \in issued
    <3>1. \/ store'[call[c].sid] \in {None, store[call[c].sid]}
          \/ store[call[c].sid] = None /\ call[c].sid \in excused'
          \/ store[call[c].sid] # None /\ store'[call[c].sid] = store[call[c].sid]
      BY <2>4, Stands
    <3> QED  BY <1>1, <2>2, <2>3, <3>1
  <2> QED  BY <2>1, <2>3, <2>4
<1>2. CASE Traced(call[c], call'[c])
  <2>1. ScopedStep(call[c], call'[c])
    BY <1>2 DEF Traced
  <2>2. CASE call[c].at = "middleware" /\ Read(call'[c].sid) = None
    <3>1. call[c].sid \in issued \cup {None} /\ call'[c].sid = call[c].sid
      BY <2>1, <2>2 DEF CallType, Shape, ScopedStep
    <3>2. call[c].sid = None \/ call[c].sid \in aged \/ store[call[c].sid] = None
      BY <2>2, <3>1 DEF Read
    <3>3. CASE call[c].sid = None \/ call[c].sid \in aged
      BY <3>1, <3>3 DEF Stored
    <3>4. CASE call[c].sid \in issued /\ store[call[c].sid] = None
      BY <3>1, <3>4, Stands
    <3> QED  BY <3>1, <3>2, <3>3, <3>4
  <2>3. CASE Carries(call[c]) /\ call'[c].scope = call[c].session.org /\ store'[call'[c].sid] = call[c].session
    BY <2>3
  <2> QED  BY <2>1, <2>2, <2>3 DEF ScopedStep
<1> QED  BY <1>1, <1>2 DEF Trace

\* The scope a request is served in is that of the session it is authorised by.
LEMMA ServedKept ==
  ASSUME AccountsType, ScopeInv, Trace, Stored
  PROVE  Served'
<1> USE DEF AccountsType, ScopeInv
<1> SUFFICES ASSUME NEW c \in Calls, call'[c] # Idle, call'[c].at \in {"enter", "handle", "write"}, call'[c].op \in OfficeOps
             PROVE  call'[c].scope = call'[c].session.org \/ call'[c].sid \in excused'
  BY DEF Served
<1>1. CASE call'[c] = call[c]
  BY <1>1 DEF Served, Stored
<1>2. CASE Traced(call[c], call'[c])
  <2>1. ServedStep(call[c], call'[c])
    BY <1>2 DEF Traced
  <2>2. CASE call[c].at \in {"enter", "handle", "write"} /\ call'[c].session = call[c].session
    BY <2>1, <2>2 DEF ServedStep, Served, Stored
  <2>3. CASE call[c].at = "guard" /\ call'[c].session = Read(call'[c].sid) /\ Read(call'[c].sid) # None
    BY <2>1, <2>3 DEF ServedStep, Scoped, Stored, Read
  <2> QED  BY <2>1, <2>2, <2>3 DEF ServedStep
<1> QED  BY <1>1, <1>2 DEF Trace

\* What is served is an office request, and Served says as whom.
LEMMA ServedNow ==
  ASSUME AccountsType, Served
  PROVE  ServedAsNamed
<1>1. \A c \in Calls : call[c] # Idle /\ call[c].at \in {"handle", "write"} /\ call[c].op \notin {"me", "password"} =>
         call[c].op \in OfficeOps
  BY DEF AccountsType, CallType, Shape, Fits, OfficeOps
<1> QED  BY <1>1 DEF Served, ServedAsNamed

-----------------------------------------------------------------------------
(***************************************************************************)
(* Accounts: SessionIsCurrent                                              *)
(***************************************************************************)

\* Only one request moves.
Alone(c) == \A d \in Calls \ {c} : call'[d] = call[d]

\* Sending, going on and replying move one request.
LEMMA AloneSend == ASSUME CallType, NEW c \in Calls, NEW op, NEW body, Send(c, op, body) PROVE Alone(c) /\ call[c] = Idle
  BY WasSent DEF Alone
LEMMA AloneGo == ASSUME CallType, NEW c \in Calls, NEW to, Go(c, to) PROVE Alone(c)
  BY WentOn DEF Alone
LEMMA AloneReply == ASSUME CallType, NEW c \in Calls, NEW status, NEW u, NEW sid, Reply(c, status, u, sid) PROVE Alone(c)
  BY WasReplied DEF Alone
LEMMA AloneEnd == ASSUME CallType, NEW c \in Calls, NEW status, End(c, status) PROVE Alone(c)
  BY AloneReply DEF End

\* What a session carries is what its user may do.
Current(s) ==
    LET u == store[s].user IN
    users[u].state = "active" /\ store[s].grant = users[u].grant /\ vouched[s] = users[u].pw

\* A session that stands after a step of a request that is not a revocation,
\* with no revocation to come, was current before it.
LEMMA WasCurrent ==
  ASSUME AccountsType, RedisType', Same, SessionIsCurrent, Stored, UNCHANGED issued,
         NEW c \in Calls, Alone(c), call[c] = Idle \/ call[c].at # "revoke",
         NEW s \in Sids, store'[s] # None, s \notin excused', ~Revoking(s)'
  PROVE  /\ s \in issued /\ s \notin excused /\ store[s] # None /\ store'[s] = store[s]
         /\ store[s].user \in Users /\ store[s].grant \in Grants /\ Current(s)
<1>1. s \in issued
  BY DEF RedisType
<1>2. s \notin excused
  BY DEF Stored
<1>3. store[s] # None /\ store'[s] = store[s]
  BY <1>1, Stands
<1>4. store[s].user \in Users /\ store[s].grant \in Grants
  BY <1>3 DEF AccountsType, RedisType, Sessions
<1>5. ~Revoking(s)
  BY <1>3 DEF Revoking, Alone
<1>6. Current(s)
  BY <1>2, <1>3, <1>5 DEF SessionIsCurrent, Current, Active
<1> QED  BY <1>1, <1>2, <1>3, <1>4, <1>6

\* Nobody loses a right, and no password changes.
Unharmed ==
    /\ \A u \in Users : /\ users'[u].grant = users[u].grant /\ users'[u].pw = users[u].pw
                        /\ users[u].state = "active" => users'[u].state = "active"
    /\ UNCHANGED <<issued, vouched>>

\* Leaving the rows alone harms nobody.
LEMMA UnharmedRests == ASSUME UNCHANGED <<users, issued, vouched>> PROVE Unharmed
  BY DEF Unharmed

\* A step that harms nobody and is no revocation leaves every session current.
LEMMA CurrentKept ==
  ASSUME AccountsType, RedisType', Same, SessionIsCurrent, Stored, Unharmed,
         NEW c \in Calls, Alone(c), call[c] = Idle \/ call[c].at # "revoke"
  PROVE  SessionIsCurrent'
<1> SUFFICES ASSUME NEW s \in Sids, store'[s] # None, s \notin excused', ~Revoking(s)' PROVE Current(s)'
  BY DEF SessionIsCurrent, Current, Active
<1>1. store'[s] = store[s] /\ store[s].user \in Users /\ Current(s)
  BY WasCurrent DEF Unharmed
<1> QED  BY <1>1 DEF Current, Unharmed

\* Rights in which authorizationChanged finds no change are the same rights.
LEMMA GrantsEqual ==
  ASSUME NEW g \in Grants, NEW h \in Grants, ~authorizationChanged(g, h)
  PROVE  g = h
  BY DEF authorizationChanged, Grants

\* A request that has come to its revocation is a revocation to come.
LEMMA NowRevoking ==
  ASSUME NEW c \in Calls, call'[c] # Idle, call'[c].at = "revoke", NEW s, call'[c].about = store'[s].user, call'[c].keep # s
  PROVE  Revoking(s)'
  BY DEF Revoking

\* Every step leaves each session current, or marked for a revocation, or excused.
LEMMA SessionStep ==
  ASSUME AccountsType, RedisType', Same, Indexed, Stored, SessionIsCurrent
  PROVE  AccountsNext => SessionIsCurrent'
<1>a. None \notin Sids
  BY AccountsAssumption DEF AccountsAssumption
<1> USE DEF AccountsType
<1>1. ASSUME NEW c \in Calls, NEW op, NEW body, Send(c, op, body) PROVE SessionIsCurrent'
  <2>1. UNCHANGED <<users, issued, vouched>>
    BY <1>1 DEF Send, redis, database
  <2> QED  BY <1>1, <2>1, AloneSend, UnharmedRests, CurrentKept
<1>2. ASSUME NEW c \in Calls, Alone(c), call[c].at # "revoke", UNCHANGED <<users, issued, vouched>>
      PROVE  SessionIsCurrent'
  BY <1>2, UnharmedRests, CurrentKept
<1>3. ASSUME NEW c \in Calls, LoginLookup(c) \/ Load(c) \/ Serve(c) \/ PasswordLookup(c) \/ Invite(c)
      PROVE SessionIsCurrent'
  <2>1. call[c].at # "revoke" /\ UNCHANGED <<users, issued, vouched>>
    BY <1>3 DEF LoginLookup, Load, Serve, PasswordLookup, Invite, Handling, redis, database
  <2>2. Alone(c)
    BY <1>3, AloneGo, AloneEnd, AloneReply DEF LoginLookup, Load, Serve, PasswordLookup, Invite
  <2> QED  BY <1>2, <2>1, <2>2
<1>4. ASSUME NEW c \in Calls, Logout(c) PROVE SessionIsCurrent'
  <2>1. call[c].at # "revoke" /\ UNCHANGED <<users, issued, vouched>>
    BY <1>4 DEF Logout, destroy, database
  <2> QED  BY <1>2, <1>4, <2>1, AloneEnd DEF Logout
<1>5. ASSUME NEW c \in Calls, OfficeTenantMiddleware(c) \/ OfficeSessionGuard(c) PROVE SessionIsCurrent'
  <2>1. call[c].at # "revoke" /\ UNCHANGED users /\ Purge(call[c].sid)
    BY <1>5 DEF OfficeTenantMiddleware, OfficeSessionGuard, database
  <2>2. UNCHANGED <<issued, vouched>>
    BY <2>1, PurgeShrinks DEF Shrinks
  <2>3. Alone(c)
    BY <1>5, AloneGo, AloneEnd DEF OfficeTenantMiddleware, OfficeSessionGuard
  <2> QED  BY <1>2, <2>1, <2>2, <2>3
<1>6. ASSUME NEW c \in Calls, OfficeTenantScope(c) \/ RolesGuard(c) PROVE SessionIsCurrent'
  <2>1. call[c].at # "revoke" /\ UNCHANGED <<users, issued, vouched>>
    BY <1>6 DEF OfficeTenantScope, RolesGuard, Touch, database
  <2>2. Alone(c)
    BY <1>6, AloneGo, AloneEnd DEF OfficeTenantScope, RolesGuard
  <2> QED  BY <1>2, <2>1, <2>2
<1>7. ASSUME NEW c \in Calls, Answer(c) \/ AnswerLost(c) PROVE SessionIsCurrent'
  <2>1. UNCHANGED <<users, issued, vouched>>
    BY <1>7 DEF Answer, AnswerLost, redis, database
  <2>2. call[c].at # "revoke"
    BY <1>7, AnswerSeen DEF Answer, AnswerLost
  <2>3. Alone(c)
    BY <1>7 DEF Answer, AnswerLost, Alone, CallType
  <2> QED  BY <1>2, <2>1, <2>2, <2>3
<1>8. ASSUME UNCHANGED call, Unharmed PROVE SessionIsCurrent'
  <2>1. \A s \in Sids : Revoking(s) /\ store'[s] = store[s] => Revoking(s)'
    BY <1>8 DEF Revoking
  <2> SUFFICES ASSUME NEW s \in Sids, store'[s] # None, s \notin excused', ~Revoking(s)' PROVE Current(s)'
    BY DEF SessionIsCurrent, Current, Active
  <2>2. s \in issued
    BY <1>8 DEF Unharmed, RedisType
  <2>3. store[s] # None /\ store'[s] = store[s] /\ s \notin excused
    <3>1. excused \subseteq excused'
      BY DEF Stored
    <3> QED  BY <2>2, <3>1, Stands
  <2>4. Current(s)
    BY <2>1, <2>3 DEF SessionIsCurrent, Current, Active
  <2>5. store[s].user \in Users
    BY <2>3 DEF RedisType, Sessions
  <2> QED  BY <1>8, <2>3, <2>4, <2>5 DEF Unharmed, Current
<1>9. ASSUME NEW u \in Users, LockElapses(u) PROVE SessionIsCurrent'
  <2>1. users' = [users EXCEPT ![u].lock = "elapsed"] /\ UNCHANGED <<call, issued, vouched>>
    BY <1>9 DEF LockElapses, redis
  <2>2. Unharmed
    BY <2>1 DEF Unharmed, DatabaseType, UserRows
  <2> QED  BY <1>8, <2>1, <2>2
<1>10. ASSUME NEW u \in Users, Forgot(u) PROVE SessionIsCurrent'
  BY <1>8, <1>10, UnharmedRests DEF Forgot, redis
<1>11. ASSUME NEW l \in Links, LinkExpires(l) PROVE SessionIsCurrent'
  BY <1>8, <1>11, UnharmedRests DEF LinkExpires, redis
<1>12. ASSUME NEW s \in Sids, Lapse(s) PROVE SessionIsCurrent'
  BY <1>8, <1>12, UnharmedRests DEF Lapse, database
<1>13. ASSUME NEW c \in Calls, LoginDecide(c) PROVE SessionIsCurrent'
  <2>1. /\ call[c].op = "login" /\ call[c].at = "decide" /\ UNCHANGED <<issued, vouched>>
        /\ \/ recordFailure(call[c].about)
           \/ UNCHANGED users
           \/ users' = [users EXCEPT ![call[c].about].failed = 0, ![call[c].about].lock = "no"]
    BY <1>13 DEF LoginDecide, redis
  <2>2. Unharmed
    <3>1. CASE recordFailure(call[c].about)
      BY <2>1, <3>1 DEF Unharmed, recordFailure, DatabaseType, UserRows
    <3>2. CASE users' = [users EXCEPT ![call[c].about].failed = 0, ![call[c].about].lock = "no"]
      BY <2>1, <3>2 DEF Unharmed, DatabaseType, UserRows
    <3> QED  BY <2>1, <3>1, <3>2, UnharmedRests
  <2>3. Alone(c)
    BY <1>13, AloneGo, AloneEnd DEF LoginDecide
  <2> QED  BY <2>1, <2>2, <2>3, CurrentKept
<1>14. ASSUME NEW c \in Calls, CreateUser(c) PROVE SessionIsCurrent'
  <2>1. /\ call[c].at = "handle" /\ UNCHANGED <<issued, vouched>>
        /\ UNCHANGED users \/ users' = [users EXCEPT ![call[c].about].state = "active"]
    BY <1>14 DEF CreateUser, Handling, redis
  <2>2. Unharmed
    BY <2>1 DEF Unharmed, DatabaseType, UserRows
  <2>3. Alone(c)
    BY <1>14, AloneGo, AloneEnd DEF CreateUser
  <2> QED  BY <2>1, <2>2, <2>3, CurrentKept
<1>15. ASSUME NEW c \in Calls, LoginCreate(c) PROVE SessionIsCurrent'
  <2>1. PICK sid \in Sids \ issued :
          /\ create(call[c].about, call[c].row, sid)
          /\ call[c].about \in Users /\ call[c].row \in UserRows
    BY <1>15, Creates
  <2>2. /\ issued' = issued \cup {sid}
        /\ \A s \in Sids \ {sid} : store'[s] = store[s] /\ vouched'[s] = vouched[s]
        /\ store'[sid] = [user |-> call[c].about, org |-> OrgOf[call[c].about], grant |-> call[c].row.grant]
        /\ vouched'[sid] = call[c].row.pw
        /\ Stale(call[c].row, call[c].about) => sid \in excused'
    BY <2>1, StoredCreate
  <2>3. call[c].at = "create" /\ UNCHANGED users /\ Alone(c)
    BY <1>15, AloneReply DEF LoginCreate, database
  <2> SUFFICES ASSUME NEW s \in Sids, store'[s] # None, s \notin excused', ~Revoking(s)' PROVE Current(s)'
    BY DEF SessionIsCurrent, Current, Active
  <2>4. CASE s = sid
    BY <2>2, <2>3, <2>4 DEF Stale, Active, Current
  <2>5. CASE s # sid
    <3>1. store'[s] = store[s] /\ vouched'[s] = vouched[s] /\ s \notin excused
      BY <2>2, <2>5 DEF Stored
    <3>2. ~Revoking(s)
      BY <2>3, <3>1 DEF Revoking, Alone
    <3>3. Current(s)
      BY <3>1, <3>2 DEF SessionIsCurrent, Current, Active
    <3> QED  BY <2>3, <3>1, <3>3 DEF Current
  <2> QED  BY <2>4, <2>5
<1>16. ASSUME NEW c \in Calls, PasswordWrite(c) PROVE SessionIsCurrent'
  <2> DEFINE u == call[c].session.user
             to == [at |-> "revoke", about |-> u, keep |-> call[c].sid]
  <2>1. /\ call[c].op = "password" /\ call[c].at = "write" /\ call[c].at # "revoke"
        /\ users' = [users EXCEPT ![u].pw = users[u].pw + 1]
        /\ vouched' = [vouched EXCEPT ![call[c].sid] = users[u].pw + 1]
        /\ Go(c, to) /\ UNCHANGED issued
    BY <1>16 DEF PasswordWrite
  <2>2. call[c] # Idle /\ call[c].at # "answered" /\ Carries(call[c])
    BY <2>1 DEF Idle, Carries
  <2>3. u \in Users /\ call[c].sid \in issued
    BY <2>2, CarriedSid DEF Sessions
  <2>4. DOMAIN to = {"at", "about", "keep"} /\ to["at"] = "revoke" /\ to["about"] = u /\ to["keep"] = call[c].sid
    OBVIOUS
  <2> HIDE DEF to
  <2>5. Advanced(c, to)
    BY <2>1, <2>2, <2>3, <2>4, Moved
  <2>6. call'[c] # Idle /\ call'[c].at = "revoke" /\ call'[c].about = u /\ call'[c].keep = call[c].sid
    BY <2>1, <2>4, <2>5 DEF Advanced, Idle
  <2>7. Alone(c)
    BY <2>1, AloneGo
  <2> DEFINE n == users[u].pw + 1
  <2>8. users' = [users EXCEPT ![u].pw = n] /\ vouched' = [vouched EXCEPT ![call[c].sid] = n]
    BY <2>1
  <2> HIDE DEF n, u
  <2> SUFFICES ASSUME NEW s \in Sids, store'[s] # None, s \notin excused', ~Revoking(s)' PROVE Current(s)'
    BY DEF SessionIsCurrent, Current, Active
  <2>9. /\ s \in issued /\ store[s] # None /\ store'[s] = store[s] /\ store[s].user \in Users /\ Current(s)
    BY <2>1, <2>7, WasCurrent
  <2>10. CASE s = call[c].sid
    <3>1. store[s].user = u
      BY <2>2, <2>9, <2>10 DEF Same, u
    <3>2. /\ users'[u].pw = n /\ users'[u].state = users[u].state /\ users'[u].grant = users[u].grant
          /\ vouched'[s] = n
      BY <2>3, <2>8, <2>9, <2>10 DEF DatabaseType, RedisType, UserRows
    <3> QED  BY <2>9, <3>1, <3>2 DEF Current
  <2>11. CASE s # call[c].sid
    <3>1. store[s].user # u
      BY <2>6, <2>9, <2>11, NowRevoking
    <3>2. users'[store[s].user] = users[store[s].user] /\ vouched'[s] = vouched[s]
      BY <2>3, <2>8, <2>9, <2>11, <3>1 DEF DatabaseType, RedisType
    <3> QED  BY <2>9, <3>2 DEF Current
  <2> QED  BY <2>10, <2>11
<1>17. ASSUME NEW c \in Calls, update(c) PROVE SessionIsCurrent'
  <2> DEFINE u == call[c].about
             after == Patched(users[u].grant, call[c].patch)
             to == [at |-> "revoke", keep |-> None]
  <2>1. /\ call[c].op = "update" /\ call[c].at = "write" /\ call[c].at # "revoke"
        /\ users' = [users EXCEPT ![u].grant = after]
        /\ \/ Go(c, to)
           \/ ~authorizationChanged(call[c].row.grant, after) /\ End(c, "ok")
        /\ call[c].row.grant # users[u].grant => \A s \in Sids : store[s] # None /\ store[s].user = u => s \in excused'
        /\ UNCHANGED <<issued, vouched, store>>
    BY <1>17 DEF update
  <2>2. call[c] # Idle /\ call[c].at # "answered"
    BY <2>1 DEF Idle
  <2>3. /\ u \in Users /\ call[c].patch \in Patches /\ call[c].row \in UserRows
        /\ "about" \in DOMAIN call[c]
    BY <2>1, <2>2 DEF CallType, Shape
  <2>4. users[u].grant \in Grants /\ call[c].row.grant \in Grants
    BY <2>3 DEF DatabaseType, UserRows
  <2>5. after \in Grants
    BY <2>3, <2>4, PatchedTyped
  <2>6. DOMAIN to = {"at", "keep"} /\ to["at"] = "revoke" /\ to["keep"] = None
    OBVIOUS
  <2> HIDE DEF to, after, u
  <2>7. Go(c, to) => call'[c] # Idle /\ call'[c].at = "revoke" /\ call'[c].about = u /\ call'[c].keep = None
    <3> SUFFICES ASSUME Go(c, to) PROVE call'[c] # Idle /\ call'[c].at = "revoke" /\ call'[c].about = u /\ call'[c].keep = None
      OBVIOUS
    <3>1. Advanced(c, to)
      BY <2>2, <2>6, Moved
    <3> QED  BY <2>1, <2>3, <2>6, <3>1 DEF Advanced, Idle, u
  <2>8. Alone(c)
    BY <2>1, AloneGo, AloneEnd
  <2> SUFFICES ASSUME NEW s \in Sids, store'[s] # None, s \notin excused', ~Revoking(s)' PROVE Current(s)'
    BY DEF SessionIsCurrent, Current, Active
  <2>9. store[s] # None /\ store'[s] = store[s] /\ store[s].user \in Users /\ Current(s)
    BY <2>1, <2>8, WasCurrent
  <2>10. CASE store[s].user # u
    <3>1. users'[store[s].user] = users[store[s].user]
      BY <2>1, <2>3, <2>9, <2>10 DEF DatabaseType
    <3> QED  BY <2>1, <2>9, <3>1 DEF Current
  <2>11. CASE store[s].user = u
    <3>1. ~Go(c, to)
      BY <1>a, <2>7, <2>9, <2>11, NowRevoking
    <3>2. call[c].row.grant = users[u].grant
      BY <2>1, <2>9, <2>11
    <3>3. after = users[u].grant
      BY <2>1, <2>4, <2>5, <3>1, <3>2, GrantsEqual
    <3>4. users'[u].grant = users[u].grant /\ users'[u].state = users[u].state /\ users'[u].pw = users[u].pw
      BY <2>1, <2>3, <3>3 DEF DatabaseType, UserRows
    <3> QED  BY <2>1, <2>9, <2>11, <3>4 DEF Current
  <2> QED  BY <2>10, <2>11
<1>18. ASSUME NEW c \in Calls, archive(c) PROVE SessionIsCurrent'
  <2> DEFINE u == call[c].about
             to == [at |-> "revoke", keep |-> None]
  <2>1. /\ call[c].op = "archive" /\ call[c].at = "write" /\ call[c].at # "revoke"
        /\ users' = [users EXCEPT ![u].state = "archived"] /\ Go(c, to)
        /\ UNCHANGED <<issued, vouched>>
    BY <1>18 DEF archive, redis
  <2>2. call[c] # Idle /\ call[c].at # "answered"
    BY <2>1 DEF Idle
  <2>3. u \in Users /\ "about" \in DOMAIN call[c]
    BY <2>1, <2>2 DEF CallType, Shape
  <2>4. DOMAIN to = {"at", "keep"} /\ to["at"] = "revoke" /\ to["keep"] = None
    OBVIOUS
  <2> HIDE DEF to, u
  <2>5. call'[c] # Idle /\ call'[c].at = "revoke" /\ call'[c].about = u /\ call'[c].keep = None
    <3>1. Advanced(c, to)
      BY <2>1, <2>2, <2>4, Moved
    <3> QED  BY <2>1, <2>3, <2>4, <3>1 DEF Advanced, Idle, u
  <2>6. Alone(c)
    BY <2>1, AloneGo
  <2> SUFFICES ASSUME NEW s \in Sids, store'[s] # None, s \notin excused', ~Revoking(s)' PROVE Current(s)'
    BY DEF SessionIsCurrent, Current, Active
  <2>7. store[s] # None /\ store'[s] = store[s] /\ store[s].user \in Users /\ Current(s)
    BY <2>1, <2>6, WasCurrent
  <2>8. store[s].user # u
    BY <1>a, <2>5, <2>7, NowRevoking
  <2>9. users'[store[s].user] = users[store[s].user]
    BY <2>1, <2>3, <2>7, <2>8 DEF DatabaseType
  <2> QED  BY <2>1, <2>7, <2>9 DEF Current
<1>19. ASSUME NEW c \in Calls, Revoke(c) PROVE SessionIsCurrent'
  <2> DEFINE u == call[c].about
  <2>1. /\ call[c] # Idle /\ call[c].at = "revoke" /\ UNCHANGED users /\ Alone(c)
        /\ \/ destroySessionsOf(u, call[c].keep)
           \/ /\ excused' = excused \cup (index[u] \ {call[c].keep})
              /\ UNCHANGED <<store, index, aged, issued, vouched>>
    BY <1>19, AloneEnd DEF Revoke, database
  <2>2. u \in Users
    BY <2>1 DEF CallType, Shape
  <2> HIDE DEF u
  <2>3. UNCHANGED <<issued, vouched>>
    BY <2>1 DEF destroySessionsOf
  <2>4. \A s \in index[u] \ {call[c].keep} : store'[s] = None \/ s \in excused'
    <3>1. CASE destroySessionsOf(u, call[c].keep)
      BY <2>2, <3>1 DEF destroySessionsOf, Deleted, RedisType
    <3>2. CASE excused' = excused \cup (index[u] \ {call[c].keep})
      BY <3>2
    <3> QED  BY <2>1, <3>1, <3>2
  <2> SUFFICES ASSUME NEW s \in Sids, store'[s] # None, s \notin excused', ~Revoking(s)' PROVE Current(s)'
    BY DEF SessionIsCurrent, Current, Active
  <2>5. s \in issued
    BY <2>3 DEF RedisType
  <2>6. store[s] # None /\ store'[s] = store[s] /\ s \notin excused
    <3>1. excused \subseteq excused'
      BY DEF Stored
    <3> QED  BY <2>5, <3>1, Stands
  <2>7. s \in index[store[s].user]
    BY <2>6 DEF Indexed
  <2>8. ~Revoking(s)
    <3>1. ~(u = store[s].user /\ call[c].keep # s)
      BY <2>4, <2>7
    <3>2. \A d \in Calls \ {c} : ~(call[d] # Idle /\ call[d].at = "revoke" /\ call[d].about = store[s].user /\ call[d].keep # s)
      BY <2>1, <2>6 DEF Alone, Revoking
    <3> QED  BY <3>1, <3>2 DEF Revoking, u
  <2>9. Current(s)
    BY <2>6, <2>8 DEF SessionIsCurrent, Current, Active
  <2> QED  BY <2>1, <2>3, <2>6, <2>9 DEF Current
<1>20. ASSUME NEW c \in Calls, ConfirmCommit(c) PROVE SessionIsCurrent'
  <2> DEFINE u == call[c].about
             to == [at |-> "revoke"]
  <2>1. /\ call[c].op = "reset" /\ call[c].at = "claim" /\ call[c].at # "revoke"
        /\ \/ End(c, "401") /\ UNCHANGED users
           \/ /\ users' = [users EXCEPT ![u].pw = @ + 1, ![u].failed = 0, ![u].lock = "no"]
              /\ Go(c, to)
        /\ UNCHANGED <<issued, vouched>>
    BY <1>20 DEF ConfirmCommit, redis
  <2>2. call[c] # Idle /\ call[c].at # "answered"
    BY <2>1 DEF Idle
  <2>3. u \in Users /\ {"about", "keep"} \subseteq DOMAIN call[c] /\ call[c].keep = None
    BY <2>1, <2>2 DEF CallType, Shape
  <2>4. ASSUME End(c, "401"), UNCHANGED users PROVE SessionIsCurrent'
    BY <1>2, <2>1, <2>4, AloneEnd
  <2>5. ASSUME Go(c, to), users' = [users EXCEPT ![u].pw = @ + 1, ![u].failed = 0, ![u].lock = "no"]
        PROVE  SessionIsCurrent'
    <3>1. DOMAIN to = {"at"} /\ to["at"] = "revoke"
      OBVIOUS
    <3> HIDE DEF to, u
    <3>2. call'[c] # Idle /\ call'[c].at = "revoke" /\ call'[c].about = u /\ call'[c].keep = None
      <4>1. Advanced(c, to)
        BY <2>2, <2>5, <3>1, Moved
      <4> QED  BY <2>1, <2>3, <3>1, <4>1 DEF Advanced, Idle, u
    <3>3. Alone(c)
      BY <2>5, AloneGo
    <3> SUFFICES ASSUME NEW s \in Sids, store'[s] # None, s \notin excused', ~Revoking(s)' PROVE Current(s)'
      BY DEF SessionIsCurrent, Current, Active
    <3>4. store[s] # None /\ store'[s] = store[s] /\ store[s].user \in Users /\ Current(s)
      BY <2>1, <3>3, WasCurrent
    <3>5. store[s].user # u
      BY <1>a, <3>2, <3>4, NowRevoking
    <3>6. users'[store[s].user] = users[store[s].user]
      BY <2>3, <2>5, <3>4, <3>5 DEF DatabaseType
    <3> QED  BY <2>1, <3>4, <3>6 DEF Current
  <2> QED  BY <2>1, <2>4, <2>5
<1> QED  BY <1>1, <1>3, <1>4, <1>5, <1>6, <1>7, <1>9, <1>10, <1>11, <1>12, <1>13, <1>14, <1>15, <1>16, <1>17, <1>18,
            <1>19, <1>20
         DEF AccountsNext, login, me, changePassword, page, logout, manage, confirm

-----------------------------------------------------------------------------
(***************************************************************************)
(* Accounts: LinkSetsOnePassword                                           *)
(***************************************************************************)

\* A link that works is as new as its user's last reset.
Unspent ==
    \A l \in Links : links[l] # None /\ links[l].state # "used" => links[l].epoch = resets[links[l].user][1]

\* Links stay, and stay their users'.
LinksStay == \A l \in Links : links[l] # None => links'[l] # None /\ links'[l].user = links[l].user

\* A confirmation keeps its link while links stay their users'.
LEMMA ClaimedStep ==
  ASSUME Claimed, Trace, LinksStay, CallType'
  PROVE  Claimed'
<1> SUFFICES ASSUME NEW c \in Calls, call'[c] # Idle, call'[c].at = "claim"
             PROVE  links'[call'[c].link] # None /\ links'[call'[c].link].user = call'[c].about
  BY DEF Claimed
<1>1. call'[c].link \in Links
  BY DEF CallType, Shape
<1>2. links[call'[c].link] # None /\ links[call'[c].link].user = call'[c].about
  BY DEF Trace, Traced, Claimed
<1> QED  BY <1>1, <1>2 DEF LinksStay

\* A mailed link is as new as its user's last reset.
LEMMA RequestKeeps ==
  ASSUME DatabaseType, NEW u \in Users, request(u), UNCHANGED resets, Unspent
  PROVE  LinksStay /\ Unspent'
<1> DEFINE n == NewLink
<1>1. n \in Links /\ links[n] = None /\ links' = [links EXCEPT ![n] = Fresh(u)]
  BY Requested
<1>2. Fresh(u).user = u /\ Fresh(u).epoch = resets[u][1]
  BY DEF Fresh
<1> HIDE DEF n
<1>3. \A l \in Links \ {n} : links'[l] = links[l]
  BY <1>1 DEF DatabaseType
<1>4. links'[n] = Fresh(u)
  BY <1>1 DEF DatabaseType
<1>5. LinksStay
  BY <1>1, <1>3 DEF LinksStay
<1>6. Unspent'
  BY <1>2, <1>3, <1>4 DEF Unspent
<1> QED  BY <1>5, <1>6

\* Links, resets and confirmations, step by step.
LEMMA LinkStep ==
  ASSUME AccountsType, CallType', Claimed, Unspent, LinkSetsOnePassword, Trace
  PROVE  AccountsNext => Claimed' /\ Unspent' /\ LinkSetsOnePassword'
<1> USE DEF AccountsType
<1>1. ASSUME LinksStay, Unspent', UNCHANGED resets PROVE Claimed' /\ Unspent' /\ LinkSetsOnePassword'
  BY <1>1, ClaimedStep DEF LinkSetsOnePassword
<1>2. ASSUME UNCHANGED <<links, resets>> PROVE Claimed' /\ Unspent' /\ LinkSetsOnePassword'
  BY <1>1, <1>2 DEF LinksStay, Unspent
<1>3. ASSUME NEW u \in Users, Forgot(u) PROVE Claimed' /\ Unspent' /\ LinkSetsOnePassword'
  BY <1>1, <1>3, RequestKeeps DEF Forgot
<1>4. ASSUME NEW c \in Calls, Invite(c) PROVE Claimed' /\ Unspent' /\ LinkSetsOnePassword'
  <2>1. call[c] # Idle /\ call[c].at = "invite" /\ request(call[c].about) /\ UNCHANGED resets
    BY <1>4 DEF Invite
  <2>2. call[c].about \in Users
    BY <2>1 DEF CallType, Shape, Fits
  <2> QED  BY <1>1, <2>1, <2>2, RequestKeeps
<1>5. ASSUME NEW l \in Links, LinkExpires(l) PROVE Claimed' /\ Unspent' /\ LinkSetsOnePassword'
  <2>1. links[l] # None /\ links[l].state = "live" /\ links' = [links EXCEPT ![l].state = "expired"] /\ UNCHANGED resets
    BY <1>5 DEF LinkExpires
  <2>2. links[l] \in PasswordLinks
    BY <2>1 DEF DatabaseType
  <2>3. /\ \A m \in Links \ {l} : links'[m] = links[m]
        /\ links'[l].user = links[l].user /\ links'[l].epoch = links[l].epoch /\ links'[l] \in PasswordLinks
    BY <2>1, <2>2 DEF DatabaseType, PasswordLinks
  <2>4. None \notin PasswordLinks
    BY RightsAssumption DEF RightsAssumption
  <2>5. LinksStay /\ Unspent'
    BY <2>1, <2>3, <2>4 DEF LinksStay, Unspent
  <2> QED  BY <1>1, <2>1, <2>5
<1>6. ASSUME NEW c \in Calls, ConfirmCommit(c) PROVE Claimed' /\ Unspent' /\ LinkSetsOnePassword'
  <2>1. /\ call[c] # Idle /\ call[c].at = "claim"
        /\ \/ UNCHANGED <<links, resets>>
           \/ /\ links[call[c].link].state # "used" /\ links' = Spent(call[c].link)
              /\ resets' = [resets EXCEPT ![call[c].about] = <<@[1] + 1, links[call[c].link].epoch + 1>>]
    BY <1>6 DEF ConfirmCommit, Idle
  <2>2. PICK l \in Links : l = call[c].link
    BY <2>1 DEF CallType, Shape
  <2>3. PICK u \in Users : u = call[c].about
    BY <2>1 DEF CallType, Shape, Fits
  <2>4. links[l] # None /\ links[l].user = u
    BY <2>1, <2>2, <2>3 DEF Claimed
  <2>5. ASSUME links[l].state # "used", links' = Spent(l), resets' = [resets EXCEPT ![u] = <<@[1] + 1, links[l].epoch + 1>>]
        PROVE  Claimed' /\ Unspent' /\ LinkSetsOnePassword'
    <3>1. \A m \in Links : links'[m] = IF links[m] # None /\ links[m].user = u
                                      THEN [links[m] EXCEPT !.state = "used"] ELSE links[m]
      BY <2>4, <2>5 DEF Spent
    <3>2. None \notin PasswordLinks
      BY RightsAssumption DEF RightsAssumption
    <3>3. ASSUME NEW m \in Links, links[m] # None, links[m].user = u
          PROVE  links'[m] # None /\ links'[m].user = u /\ links'[m].state = "used"
      <4>1. links[m] \in PasswordLinks /\ links'[m] = [links[m] EXCEPT !.state = "used"]
        BY <3>1, <3>3 DEF DatabaseType
      <4>2. links'[m] \in PasswordLinks /\ links'[m].user = links[m].user /\ links'[m].state = "used"
        BY <4>1 DEF PasswordLinks
      <4> QED  BY <3>2, <3>3, <4>2
    <3>4. \A m \in Links : links[m] = None \/ links[m].user # u => links'[m] = links[m]
      BY <3>1
    <3>5. LinksStay
      BY <3>3, <3>4 DEF LinksStay
    <3>6. links[l].epoch = resets[u][1]
      BY <2>4, <2>5 DEF Unspent
    <3>7. resets'[u] = <<resets[u][1] + 1, resets[u][1] + 1>> /\ \A v \in Users \ {u} : resets'[v] = resets[v]
      BY <2>5, <3>6 DEF DatabaseType
    <3>8. LinkSetsOnePassword'
      BY <3>7 DEF LinkSetsOnePassword
    <3>9. \A m \in Links : links[m] # None => links[m].user \in Users
      BY DEF DatabaseType, PasswordLinks
    <3>10. Unspent'
      BY <3>3, <3>4, <3>7, <3>9 DEF Unspent
    <3> QED  BY <3>5, <3>8, <3>10, ClaimedStep
  <2> QED  BY <1>2, <2>1, <2>2, <2>3, <2>5
<1>7. ASSUME NEW c \in Calls, NEW op, NEW body, Send(c, op, body) PROVE UNCHANGED <<links, resets>>
  BY <1>7 DEF Send, database
<1>8. ASSUME NEW c \in Calls, LoginLookup(c) \/ LoginDecide(c) \/ LoginCreate(c) \/ Logout(c)
      PROVE  UNCHANGED <<links, resets>>
  BY <1>8 DEF LoginLookup, LoginDecide, LoginCreate, Logout, database
<1>9. ASSUME NEW c \in Calls, \/ OfficeTenantMiddleware(c) \/ OfficeTenantScope(c) \/ OfficeSessionGuard(c) \/ RolesGuard(c)
                              \/ Serve(c) \/ PasswordLookup(c) \/ PasswordWrite(c)
      PROVE  UNCHANGED <<links, resets>>
  BY <1>9 DEF OfficeTenantMiddleware, OfficeTenantScope, OfficeSessionGuard, RolesGuard, Serve, PasswordLookup,
              PasswordWrite, database
<1>10. ASSUME NEW c \in Calls, \/ Load(c) \/ update(c) \/ archive(c) \/ Revoke(c) \/ CreateUser(c)
                               \/ Answer(c) \/ AnswerLost(c)
       PROVE  UNCHANGED <<links, resets>>
  BY <1>10 DEF Load, update, archive, Revoke, CreateUser, Answer, AnswerLost, database
<1>11. ASSUME NEW c \in Calls, NEW u, NEW right, NEW op, NEW s, NEW p, NEW l,
              \/ login(c, u, right) \/ me(c) \/ changePassword(c) \/ page(c) \/ logout(c)
              \/ manage(c, op, s, u, p) \/ confirm(c, l)
       PROVE  UNCHANGED <<links, resets>>
  BY <1>7, <1>11 DEF login, me, changePassword, page, logout, manage, confirm
<1>12. ASSUME NEW u \in Users, LockElapses(u) PROVE UNCHANGED <<links, resets>>
  BY <1>12 DEF LockElapses
<1>13. ASSUME NEW s \in Sids, Lapse(s) PROVE UNCHANGED <<links, resets>>
  BY <1>13 DEF Lapse, database
<1> QED  BY <1>2, <1>3, <1>4, <1>5, <1>6, <1>8, <1>9, <1>10, <1>11, <1>12, <1>13 DEF AccountsNext

-----------------------------------------------------------------------------
(***************************************************************************)
(* Accounts: SignedOutStaysOut                                             *)
(***************************************************************************)

\* After a sign-out nothing that is under way knows a session.
SignedOutInv ==
    /\ \A c \in Calls : call[c] # Idle => call[c].gen <= tab.generation
    /\ signedOut =>
          /\ tab.user = None /\ cookie = None
          /\ \A c \in Calls : call[c].op = "me" /\ call[c].gen = tab.generation =>
                \/ call[c].at = "guard" /\ call[c].sid = None
                \/ call[c].at = "answered" /\ call[c].status # "ok"

\* A step that is no answer leaves a signed-out tab's requests without a session.
LEMMA SignedOutRests ==
  ASSUME AccountsType, SignedOutInv, Trace, UNCHANGED browser
  PROVE  SignedOutInv'
<1> USE DEF AccountsType
<1>1. UNCHANGED <<cookie, tab, signedOut>>
  BY DEF browser
<1>2. ASSUME NEW c \in Calls, call'[c] # Idle PROVE call'[c].gen <= tab.generation
  <2>1. CASE call'[c] = call[c]
    BY <1>2, <2>1 DEF SignedOutInv
  <2>2. CASE Traced(call[c], call'[c])
    BY <1>2, <2>2 DEF Traced, SignedOutInv, BrowserType
  <2> QED  BY <2>1, <2>2 DEF Trace
<1>3. ASSUME signedOut, NEW c \in Calls, call'[c].op = "me", call'[c].gen = tab.generation
      PROVE  \/ call'[c].at = "guard" /\ call'[c].sid = None
             \/ call'[c].at = "answered" /\ call'[c].status # "ok"
  <2>1. CASE call'[c] = call[c]
    BY <1>3, <2>1 DEF SignedOutInv
  <2>2. CASE Traced(call[c], call'[c])
    <3>1. call'[c] # Idle
      BY <1>3 DEF Idle
    <3>2. AskedStep(call[c], call'[c]) /\ (call[c] # Idle => call[c].gen = tab.generation)
      BY <1>3, <2>2, <3>1 DEF Traced
    <3> QED  BY <1>3, <3>2 DEF AskedStep, SignedOutInv
  <2> QED  BY <2>1, <2>2 DEF Trace
<1> QED  BY <1>1, <1>2, <1>3 DEF SignedOutInv

\* An answer does too: an older hydration is dropped by its generation.
LEMMA SignedOutStep ==
  ASSUME AccountsType, SignedOutInv, Trace
  PROVE  AccountsNext => SignedOutInv'
<1> USE DEF AccountsType
<1>1. ASSUME UNCHANGED browser PROVE SignedOutInv'
  BY <1>1, SignedOutRests
<1>2. ASSUME NEW c \in Calls, Answer(c) PROVE SignedOutInv'
  <2>1. /\ Hydrated(c) \/ LoggedIn(c) \/ LoggedOut(c) \/ SessionCallAnswered(c)
        /\ call' = [call EXCEPT ![c] = Idle]
    BY <1>2 DEF Answer
  <2>2. call'[c] = Idle /\ \A d \in Calls \ {c} : call'[d] = call[d]
    BY <2>1, Freed
  <2>3. call[c] # Idle /\ call[c].at = "answered"
    BY <2>1, AnswerSeen
  <2>4. PICK g \in Nat : g = tab.generation
    BY DEF BrowserType
  <2>5. \A d \in Calls : call'[d] # Idle => call'[d].gen \in Nat /\ call'[d].gen <= g
    BY <2>2, <2>4 DEF CallType, Shape, SignedOutInv
  <2>6. \A d \in Calls : call'[d].op = "me" => call'[d] # Idle /\ call'[d] = call[d]
    BY <2>2 DEF Idle
  <2>7. ASSUME tab'.generation = g + 1, tab'.user = None, signedOut' => cookie' = None PROVE SignedOutInv'
    BY <2>5, <2>6, <2>7 DEF SignedOutInv
  <2>8. ASSUME tab'.generation = g, ~signedOut' PROVE SignedOutInv'
    BY <2>5, <2>8 DEF SignedOutInv
  <2>9. ASSUME tab'.generation = g, signedOut, tab'.user = None, cookie' = cookie PROVE SignedOutInv'
    BY <2>4, <2>5, <2>6, <2>9 DEF SignedOutInv
  <2>10. /\ tab \in [user : Users \cup {None}, expired : BOOLEAN, generation : Nat] /\ signedOut \in BOOLEAN
    BY DEF BrowserType
  <2>11. CASE Hydrated(c)
    <3>1. cookie' = cookie /\ signedOut' = signedOut /\ tab'.generation = g
      BY <2>4, <2>10, <2>11 DEF Hydrated, SignedIn
    <3>2. signedOut => tab'.user = None
      <4>1. call[c].op = "me"
        BY <2>11 DEF Hydrated, Answered
      <4>2. signedOut /\ call[c].gen = tab.generation => call[c].status # "ok"
        BY <2>3, <4>1 DEF SignedOutInv
      <4>3. signedOut => tab.user = None
        BY DEF SignedOutInv
      <4> QED  BY <2>10, <2>11, <4>2, <4>3 DEF Hydrated
    <3> QED  BY <2>8, <2>9, <3>1, <3>2
  <2>12. CASE LoggedIn(c)
    <3>1. CASE UNCHANGED browser
      BY <1>1, <3>1
    <3>2. CASE tab' = SignedIn(call[c].user) /\ signedOut' = FALSE
      BY <2>4, <2>8, <2>10, <3>2 DEF SignedIn
    <3> QED  BY <2>12, <3>1, <3>2 DEF LoggedIn
  <2>13. CASE LoggedOut(c)
    BY <2>4, <2>7, <2>13 DEF LoggedOut
  <2>14. CASE SessionCallAnswered(c)
    <3>1. CASE tab' = tab
      BY <1>1, <2>14, <3>1 DEF SessionCallAnswered, browser
    <3>2. CASE tab' = [user |-> None, expired |-> TRUE, generation |-> tab.generation + 1]
      <4>1. tab'.generation = g + 1 /\ tab'.user = None
        BY <2>4, <3>2
      <4>2. signedOut' => cookie' = None
        BY <2>14 DEF SessionCallAnswered, SignedOutInv
      <4> QED  BY <2>7, <4>1, <4>2
    <3> QED  BY <2>14, <3>1, <3>2 DEF SessionCallAnswered
  <2> QED  BY <2>1, <2>11, <2>12, <2>13, <2>14
<1>3. ASSUME NEW c \in Calls, NEW op, NEW body, Send(c, op, body) PROVE UNCHANGED browser
  BY <1>3 DEF Send
<1>4. ASSUME NEW c \in Calls, LoginLookup(c) \/ LoginDecide(c) \/ LoginCreate(c) \/ Logout(c)
      PROVE  UNCHANGED browser
  BY <1>4 DEF LoginLookup, LoginDecide, LoginCreate, Logout
<1>5. ASSUME NEW c \in Calls, \/ OfficeTenantMiddleware(c) \/ OfficeTenantScope(c) \/ OfficeSessionGuard(c) \/ RolesGuard(c)
                              \/ Serve(c) \/ PasswordLookup(c) \/ PasswordWrite(c)
      PROVE  UNCHANGED browser
  BY <1>5 DEF OfficeTenantMiddleware, OfficeTenantScope, OfficeSessionGuard, RolesGuard, Serve, PasswordLookup,
              PasswordWrite
<1>6. ASSUME NEW c \in Calls, \/ Load(c) \/ update(c) \/ archive(c) \/ Revoke(c) \/ CreateUser(c) \/ Invite(c)
                               \/ ConfirmCommit(c) \/ AnswerLost(c)
       PROVE  UNCHANGED browser
  BY <1>6 DEF Load, update, archive, Revoke, CreateUser, Invite, ConfirmCommit, AnswerLost
<1>7. ASSUME NEW c \in Calls, NEW u, NEW right, NEW op, NEW s, NEW p, NEW l,
              \/ login(c, u, right) \/ me(c) \/ changePassword(c) \/ page(c) \/ logout(c)
              \/ manage(c, op, s, u, p) \/ confirm(c, l)
       PROVE  UNCHANGED browser
  BY <1>3, <1>7 DEF login, me, changePassword, page, logout, manage, confirm
<1>8. ASSUME NEW u \in Users, Forgot(u) \/ LockElapses(u) PROVE UNCHANGED browser
  BY <1>8 DEF Forgot, LockElapses
<1>9. ASSUME NEW l \in Links, LinkExpires(l) PROVE UNCHANGED browser
  BY <1>9 DEF LinkExpires
<1>10. ASSUME NEW s \in Sids, Lapse(s) PROVE UNCHANGED browser
  BY <1>10 DEF Lapse
<1> QED  BY <1>1, <1>2, <1>4, <1>5, <1>6, <1>7, <1>8, <1>9, <1>10 DEF AccountsNext

-----------------------------------------------------------------------------
(***************************************************************************)
(* Accounts: the invariant                                                 *)
(***************************************************************************)

AccountsInv ==
    /\ AccountsType
    /\ ScopeInv /\ Indexed /\ SessionIsCurrent
    /\ Claimed /\ Unspent /\ LinkSetsOnePassword
    /\ SignedOutInv

\* A tab that has just been opened, and the sessions that stand then
LEMMA AccountsInvInit == AccountsInit => AccountsInv
<1> SUFFICES ASSUME AccountsInit PROVE AccountsInv
  OBVIOUS
<1>1. PICK s : s = CHOOSE f \in [Users \ Invited -> Sids] : IsInjective(f)
  OBVIOUS
<1>2. s \in [Users \ Invited -> Sids]
  <2>1. \E f \in [Users \ Invited -> Sids] : IsInjective(f)
    BY RightsAssumption DEF RightsAssumption
  <2> QED  BY <1>1, <2>1
<1>3. /\ OrgOf \in [Users -> Orgs] /\ Grant \in [Users -> Grants]
      /\ None \notin Users /\ None \notin Sids /\ Bootstrap \in Orgs
  BY AccountsAssumption, RightsAssumption DEF AccountsAssumption, RightsAssumption
<1>4. \A i \in Range(s) : i \in Sids /\ \E v \in DOMAIN s : s[v] = i
  BY <1>2 DEF Range
<1> DEFINE holder(i) == CHOOSE v \in DOMAIN s : s[v] = i
<1>5. \A i \in Range(s) : holder(i) \in Users \ Invited /\ s[holder(i)] = i
  BY <1>2, <1>4
<1>6. \A u \in Users \ Invited : s[u] \in Sids /\ s[u] \in Range(s)
  BY <1>2 DEF Range
<1>7. /\ users = [u \in Users |-> [state |-> IF u \in Invited THEN "absent" ELSE "active",
                                   grant |-> Grant[u], pw |-> 0, failed |-> 0, lock |-> "no"]]
      /\ store = [i \in Sids |-> IF i \in Range(s)
                                THEN [user |-> holder(i), org |-> OrgOf[holder(i)], grant |-> Grant[holder(i)]]
                                ELSE None]
      /\ index = [u \in Users |-> IF u \in Invited THEN {} ELSE {s[u]}]
      /\ issued = Range(s)
      /\ \E u \in DOMAIN s : cookie = s[u] /\ tab \in [user : {u, None}, expired : {FALSE}, generation : {0}]
      /\ aged = {} /\ excused = {} /\ vouched = [i \in Sids |-> 0]
      /\ links = [l \in Links |-> None] /\ resets = [u \in Users |-> <<0, 0>>]
      /\ call = [c \in Calls |-> Idle] /\ signedOut = FALSE
  BY <1>1 DEF AccountsInit
<1> HIDE DEF holder
<1>8. DatabaseType
  <2>1. users \in [Users -> UserRows]
    BY <1>3, <1>7 DEF UserRows
  <2> QED  BY <2>1, <1>7 DEF DatabaseType
<1>9. RedisType
  <2>1. store \in [Sids -> {None} \cup Sessions]
    BY <1>3, <1>5, <1>7 DEF Sessions
  <2>2. index \in [Users -> SUBSET Sids]
    BY <1>6, <1>7
  <2>3. issued \subseteq Sids /\ \A i \in Sids : store[i] # None => i \in issued
    BY <1>4, <1>7
  <2> QED  BY <2>1, <2>2, <2>3, <1>7 DEF RedisType
<1>10. BrowserType
  <2>1. PICK u \in Users \ Invited : cookie = s[u] /\ tab \in [user : {u, None}, expired : {FALSE}, generation : {0}]
    BY <1>2, <1>7
  <2>2. tab \in [user : Users \cup {None}, expired : BOOLEAN, generation : Nat]
    <3>1. {u, None} \subseteq Users \cup {None} /\ {FALSE} \subseteq BOOLEAN /\ {0} \subseteq Nat
      OBVIOUS
    <3>2. \A A, B, C, D, E, F : A \subseteq B /\ C \subseteq D /\ E \subseteq F =>
             [user : A, expired : C, generation : E] \subseteq [user : B, expired : D, generation : F]
      OBVIOUS
    <3> QED  BY <2>1, <3>1, <3>2
  <2> QED  BY <1>6, <1>7, <2>1, <2>2 DEF BrowserType
<1>11. CallType /\ Lone /\ \A c \in Calls : call[c] = Idle /\ call[c].op = "idle" /\ ~Carries(call[c])
  <2>1. \A c \in Calls : call[c] = Idle
    BY <1>7
  <2>2. \A c \in Calls : call[c].op = "idle" /\ ~Carries(call[c])
    BY <2>1 DEF Idle, Carries
  <2>3. CallType
    BY <1>7, <2>1, IdleShape DEF CallType
  <2> QED  BY <2>1, <2>2, <2>3 DEF Lone
<1>12. ScopeInv /\ Claimed
  BY <1>11 DEF ScopeInv, Same, Scoped, Served, Claimed
<1>13. ASSUME NEW i \in Sids, store[i] # None
       PROVE  i \in Range(s) /\ store[i].user = holder(i) /\ store[i].grant = Grant[holder(i)]
  BY <1>7, <1>13
<1>14. Indexed
  BY <1>5, <1>7, <1>13 DEF Indexed
<1>15. SessionIsCurrent
  <2>1. \A u \in Users \ Invited : users[u].state = "active" /\ users[u].grant = Grant[u] /\ users[u].pw = 0
    BY <1>7
  <2> QED  BY <1>5, <1>7, <1>13, <2>1 DEF SessionIsCurrent, Active
<1>16. Unspent /\ LinkSetsOnePassword
  BY <1>7 DEF Unspent, LinkSetsOnePassword
<1>17. SignedOutInv
  BY <1>7, <1>11 DEF SignedOutInv
<1> QED  BY <1>8, <1>9, <1>10, <1>11, <1>12, <1>14, <1>15, <1>16, <1>17 DEF AccountsInv, AccountsType

\* All of it is kept together.
LEMMA AccountsInvStep ==
  AccountsInv /\ [AccountsNext]_accounts => AccountsInv'
<1>1. ASSUME AccountsInv, AccountsNext PROVE AccountsInv'
  <2> USE DEF AccountsInv
  <2>1. AccountsType'
    BY <1>1, AccountsTypeStep DEF AccountsType
  <2>2. Trace /\ Stored
    BY <1>1, TraceStep, StoreStep
  <2>3. CallType' /\ RedisType'
    BY <2>1 DEF AccountsType
  <2>4. ScopeInv'
    BY <1>1, <2>2, SameStep, ScopedKept, ServedKept DEF ScopeInv
  <2>5. Indexed'
    BY <1>1, <2>2, IndexedStep DEF ScopeInv
  <2>6. SessionIsCurrent'
    BY <1>1, <2>2, <2>3, SessionStep DEF ScopeInv
  <2>7. Claimed' /\ Unspent' /\ LinkSetsOnePassword'
    BY <1>1, <2>2, <2>3, LinkStep
  <2>8. SignedOutInv'
    BY <1>1, <2>2, SignedOutStep
  <2> QED  BY <2>1, <2>4, <2>5, <2>6, <2>7, <2>8
<1>2. ASSUME AccountsInv, UNCHANGED accounts PROVE AccountsInv'
  <2>1. UNCHANGED <<users, store, index, aged, links, call, cookie, tab, issued, vouched, excused, resets, signedOut>>
    BY <1>2 DEF accounts, redis, browser, database
  <2>2. AccountsType'
    BY <1>2, <2>1 DEF AccountsInv, AccountsType, DatabaseType, RedisType, BrowserType, CallType, Lone
  <2>3. ScopeInv' /\ Indexed' /\ Claimed'
    BY <1>2, <2>1 DEF AccountsInv, ScopeInv, Same, Scoped, Served, Indexed, Claimed
  <2>4. SessionIsCurrent'
    BY <1>2, <2>1 DEF AccountsInv, SessionIsCurrent, Revoking, Active
  <2>5. Unspent' /\ LinkSetsOnePassword' /\ SignedOutInv'
    BY <1>2, <2>1 DEF AccountsInv, Unspent, LinkSetsOnePassword, SignedOutInv
  <2> QED  BY <2>2, <2>3, <2>4, <2>5 DEF AccountsInv
<1> QED  BY <1>1, <1>2

\* The invariant holds throughout.
LEMMA AccountsInvAlways == AccountsSpec => []AccountsInv
  BY AccountsInvInit, AccountsInvStep, PTL DEF AccountsSpec

(* Once a revocation is through, every session that stands and is not excused
   carries its user's role, refund right, employee and password, and its user
   is active (office-users.service.ts, update and archive; office-auth, password;
   password-reset.service.ts, confirm).  The copies of a session that requests
   hold have to agree with the store (Same), or a SET would bring an older one
   back; and the index has to name what stands (Indexed), or a revocation would
   miss it. *)
THEOREM SessionsCarryTheirRights == AccountsSpec => []SessionIsCurrent
<1>1. AccountsInv => SessionIsCurrent
  BY DEF AccountsInv
<1> QED  BY <1>1, AccountsInvAlways, PTL

(* The organization an office request is served as is that of the session it was
   authorised by, although the middleware and the guard read the session one
   after the other (office-tenant.middleware.ts, office-session.guard.ts).  What
   the middleware saw is carried from its read to the guard's by Scoped, and
   from there to the handler by Served. *)
THEOREM OfficeIsServedAsNamed == AccountsSpec => []ServedAsNamed
<1>1. AccountsInv => ServedAsNamed
  BY ServedNow DEF AccountsInv, ScopeInv
<1> QED  BY <1>1, AccountsInvAlways, PTL

(* Every reset of a password was made with a link issued since the last one
   (password-reset.service.ts, confirm): a link that works is as new as the last
   reset (Unspent), and a confirmation under way is about a link that is there
   and its user's (Claimed). *)
THEOREM LinkIsSpentOnce == AccountsSpec => []LinkSetsOnePassword
<1>1. AccountsInv => LinkSetsOnePassword
  BY DEF AccountsInv
<1> QED  BY <1>1, AccountsInvAlways, PTL

(* After an answered sign-out no answer puts the user back on the screen
   (stores/session.ts, generation): any call that is still under way was sent
   with an older generation, or knows no session. *)
THEOREM SignOutIsFinal == AccountsSpec => []SignedOutStaysOut
<1>1. AccountsInv => SignedOutStaysOut
  BY DEF AccountsInv, SignedOutInv, SignedOutStaysOut
<1> QED  BY <1>1, AccountsInvAlways, PTL
=============================================================================
