---------------------------- MODULE Organizations ----------------------------
(***************************************************************************)
(* Organizers: registration, their Stripe account and what its webhooks    *)
(* say, their hostnames, their settings and the copy the process keeps,    *)
(* and which organizer a public request is served as, from the link a      *)
(* customer opened to the middleware that resolves it.                     *)
(***************************************************************************)
EXTENDS Integers, FiniteSets

CONSTANTS
    Organizers,   \* organizations
    Default,      \* the one named by DEFAULT_ORGANIZATION_SLUG, there from the start
    Central,      \* the deployment's own address
    Domains,      \* other hostnames, normalised
    Visited,      \* the ones a customer opens
    Flows,        \* requests in flight
    Onboarding, MaxSecond, \* bounds: organizers who connect to Stripe, and Stripe's clock
    Matters, MaxFlows, \* bounds: what a behaviour is about, and how many requests it makes
    Nobody

ASSUME OrganizationsAssumption ==
    /\ Default \in Organizers /\ Central \notin Domains /\ Visited \subseteq Domains \cup {Central} /\ Nobody \notin Organizers \cup Domains
    /\ Onboarding \subseteq Organizers /\ MaxSecond \in Nat /\ Matters \subseteq DOMAIN MaxFlows

VARIABLES
    org,       \* rows: [there, account, charges, at]; the slug is the organizer's name
    settings,  \* version of an organizer's settings
    boot,      \* version in the process's bootstrap snapshot
    overtaken, \* ghost: the snapshot was replaced by a row read before another save
    domain,    \* rows of organization_domains: [owner, primary], or Nobody
    stripe,    \* Stripe's side: [open, linked, charges, at, twice]
    events,    \* account.updated events not handled yet
    flow,      \* requests in flight
    second,    \* Stripe's clock, in seconds
    visit,     \* a customer's tab: [host, office, param, cached, stored, storage, asked]; asked is a ghost
    served,    \* the last public request: what it was served as
    matter, flows \* bounds

money == <<org, stripe, events, second>>
routing == <<domain, visit, served>>
organizations == <<money, routing, settings, boot, overtaken, flow, matter, flows>>

Quiet == [op |-> "quiet"]

OrganizationsInit ==
    /\ org \in [Organizers -> [there : BOOLEAN, account : {FALSE}, charges : {FALSE}, at : {0}]]
    /\ org[Default].there
    /\ settings = [o \in Organizers |-> 0] /\ boot = 0 /\ overtaken = FALSE
    /\ domain = [h \in Domains |-> Nobody]
    /\ stripe = [o \in Organizers |->
          [open |-> FALSE, linked |-> FALSE, charges |-> FALSE, at |-> 0, twice |-> FALSE]]
    /\ events = {} /\ second = 1
    /\ flow = [f \in Flows |-> Quiet]
    /\ visit \in [host : {Nobody}, param : {Nobody}, cached : {Nobody},
                  office : {FALSE}, storage : BOOLEAN,
                  stored : [Visited -> {Nobody}], asked : [Visited -> {Nobody}]]
    /\ served = Nobody
    /\ matter \in Matters /\ flows = 0

Start(f, about, request) ==
    /\ flow[f] = Quiet /\ matter \in about /\ flows < MaxFlows[matter]
    /\ flow' = [flow EXCEPT ![f] = request]
    /\ flows' = flows + 1
    /\ UNCHANGED <<money, routing, settings, boot, overtaken, matter>>

Step(f, to) == flow' = [flow EXCEPT ![f].at = to] /\ UNCHANGED <<settings, boot, overtaken, matter, flows>>
Stop(f) == flow' = [flow EXCEPT ![f] = Quiet] /\ UNCHANGED <<settings, boot, overtaken, matter, flows>>

-----------------------------------------------------------------------------
(* Registration and onboarding.  Creating the account is idempotent at     *)
(* Stripe by a key made from the organization, so an account is known by   *)
(* its organization.  Every call to Stripe may fail.                       *)

register(f, o) == Start(f, {"onboarding"}, [op |-> "register", at |-> "rows", org |-> o])

\* One transaction; a slug that is taken gets a suffix, an address that is taken is refused
createOrganizationAndOwner(f) ==
    LET o == flow[f].org IN
    /\ flow[f] # Quiet /\ flow[f].at = "rows"
    /\ \/ /\ ~org[o].there
          /\ org' = [org EXCEPT ![o].there = TRUE]
          /\ Step(f, "account")
       \/ org[o].there /\ Stop(f) /\ UNCHANGED org
    /\ UNCHANGED <<stripe, events, second, routing>>

\* POST onboarding-link: the scope's row was read before the handler runs
requestOnboardingLink(f, o) ==
    /\ org[o].there
    /\ Start(f, {"onboarding"},
             [op |-> "retry", at |-> IF org[o].account THEN "link" ELSE "account", org |-> o])

createExpressAccount(f) ==
    LET o == flow[f].org IN
    /\ flow[f] # Quiet /\ flow[f].at = "account"
    /\ \/ /\ ~stripe[o].open
          /\ stripe' = [stripe EXCEPT ![o].open = TRUE, ![o].at = second]
          /\ events' = events \cup {[org |-> o, charges |-> FALSE, at |-> second]}
          /\ Step(f, "store")
       \/ stripe[o].open /\ Step(f, "store") /\ UNCHANGED <<stripe, events>>
       \/ Stop(f) /\ UNCHANGED <<stripe, events>>
    /\ UNCHANGED <<org, second, routing>>

\* Registration writes the id, the retry claims the row while it has none
StoreAccount(f) ==
    /\ flow[f] # Quiet /\ flow[f].at = "store"
    /\ \/ org' = [org EXCEPT ![flow[f].org].account = TRUE] /\ Step(f, "link")
       \/ Stop(f) /\ UNCHANGED org
    /\ UNCHANGED <<stripe, events, second, routing>>

createAccountLink(f) ==
    /\ flow[f] # Quiet /\ flow[f].at = "link"
    /\ stripe' \in {stripe, [stripe EXCEPT ![flow[f].org].linked = TRUE]}
    /\ Stop(f)
    /\ UNCHANGED <<org, events, second, routing>>

\* External: the organizer completes the onboarding behind a link, and Stripe
\* changes its mind later.  The event shows the account as of that second.
StripeDecides(o) ==
    /\ stripe[o].open /\ stripe[o].linked /\ matter = "onboarding"
    /\ stripe' = [stripe EXCEPT ![o].charges = ~@, ![o].at = second, ![o].twice = stripe[o].at = second]
    /\ events' = events \cup {[org |-> o, charges |-> ~stripe[o].charges, at |-> second]}
    /\ UNCHANGED <<org, second, routing, settings, boot, overtaken, flow, matter, flows>>

SecondPasses ==
    /\ second < MaxSecond /\ matter = "onboarding"
    /\ second' = second + 1
    /\ UNCHANGED <<org, stripe, events, routing, settings, boot, overtaken, flow, matter, flows>>

\* Mutant: an older snapshot is applied over a newer one
SupersedesAlways(e) == org[e.org].account

\* No organization has the account, or its row is newer: the event is ignored
Supersedes(e) == org[e.org].account /\ org[e.org].at <= e.at

\* In any order, and more than once
handle(e) ==
    /\ org' = IF Supersedes(e)
              THEN [org EXCEPT ![e.org].charges = e.charges, ![e.org].at = e.at] ELSE org
    /\ events' \in {events, events \ {e}}
    /\ UNCHANGED <<stripe, second, routing, settings, boot, overtaken, flow, matter, flows>>

-----------------------------------------------------------------------------
(* PATCH /office/settings: write, read the row back, replace the scope's   *)
(* copy and, for the default organization, the bootstrap snapshot.         *)

updateSettings(f, o) ==
    /\ org[o].there
    /\ Start(f, {"settings"}, [op |-> "settings", at |-> "write", org |-> o, read |-> 0])

SettingsWrite(f) ==
    LET o == flow[f].org IN
    /\ flow[f] # Quiet /\ flow[f].at = "write"
    /\ settings' = [settings EXCEPT ![o] = @ + 1]
    /\ flow' = [flow EXCEPT ![f].at = "reload"]
    /\ UNCHANGED <<money, routing, boot, overtaken, matter, flows>>

SettingsReload(f) ==
    /\ flow[f] # Quiet /\ flow[f].at = "reload"
    /\ flow' = [flow EXCEPT ![f].at = "refresh", ![f].read = settings[flow[f].org]]
    /\ UNCHANGED <<money, routing, settings, boot, overtaken, matter, flows>>

\* Mutant: only the scope's copy is replaced
refreshCurrentScopeOnly(f) ==
    /\ flow[f] # Quiet /\ flow[f].at = "refresh"
    /\ Stop(f)
    /\ UNCHANGED <<money, routing>>

refreshCurrent(f) ==
    /\ flow[f] # Quiet /\ flow[f].at = "refresh"
    /\ IF flow[f].org = Default
       THEN boot' = flow[f].read /\ overtaken' = (flow[f].read # settings[Default])
       ELSE UNCHANGED <<boot, overtaken>>
    /\ flow' = [flow EXCEPT ![f] = Quiet]
    /\ UNCHANGED <<money, routing, settings, matter, flows>>

-----------------------------------------------------------------------------
(* Hostnames.  A transaction that makes a hostname the primary one steps   *)
(* the old one down first; the unique index refuses a second primary, and  *)
(* the transaction is run again.                                           *)

PrimaryRetries == 3
PrimariesOf(o) == {h \in Domains : domain[h] # Nobody /\ domain[h].owner = o /\ domain[h].primary}

add(f, o, h, primary) ==
    /\ org[o].there
    /\ Start(f, {"hosts", "visits"},
             [op |-> "add", at |-> "stepDown", org |-> o, host |-> h, primary |-> primary,
              down |-> {}, attempt |-> 0])

StepDown(f) ==
    /\ flow[f] # Quiet /\ flow[f].at = "stepDown"
    /\ flow' = [flow EXCEPT ![f].at = "insert",
                            ![f].down = IF flow[f].primary THEN PrimariesOf(flow[f].org) ELSE {}]
    /\ UNCHANGED <<money, routing, settings, boot, overtaken, matter, flows>>

AddCommit(f) ==
    LET o == flow[f].org
        h == flow[f].host
        clash == flow[f].primary /\ ~(PrimariesOf(o) \subseteq flow[f].down)
    IN
    /\ flow[f] # Quiet /\ flow[f].at = "insert"
    /\ \/ /\ domain[h] # Nobody
          /\ flow' = [flow EXCEPT ![f] = Quiet] /\ UNCHANGED domain
       \/ /\ domain[h] = Nobody /\ clash
          /\ flow' = [flow EXCEPT ![f] =
                IF flow[f].attempt < PrimaryRetries
                THEN [flow[f] EXCEPT !.at = "stepDown", !.attempt = @ + 1] ELSE Quiet]
          /\ UNCHANGED domain
       \/ /\ domain[h] = Nobody /\ ~clash
          /\ domain' = [g \in Domains |->
                IF g = h THEN [owner |-> o, primary |-> flow[f].primary]
                ELSE IF g \in flow[f].down /\ domain[g] # Nobody THEN [domain[g] EXCEPT !.primary = FALSE]
                ELSE domain[g]]
          /\ flow' = [flow EXCEPT ![f] = Quiet]
    /\ UNCHANGED <<money, visit, served, settings, boot, overtaken, matter, flows>>

remove(o, h) ==
    /\ domain[h] # Nobody /\ domain[h].owner = o
    /\ domain' = [domain EXCEPT ![h] = Nobody]
    /\ UNCHANGED <<money, visit, served, settings, boot, overtaken, flow, matter, flows>>

-----------------------------------------------------------------------------
(* TenantResolutionMiddleware                                              *)

isCentralHost(h) == h = Central

\* The organization a request is served as, or Nobody when it is refused
Resolve(h, slug) ==
    IF ~isCentralHost(h) /\ domain[h] # Nobody THEN domain[h].owner
    ELSE IF slug = Nobody THEN Default
    ELSE IF isCentralHost(h) /\ org[slug].there THEN slug
    ELSE Nobody

-----------------------------------------------------------------------------
(* A customer's tab: api/tenant.ts, the router, and the client that puts   *)
(* the organizer on every public request.                                  *)

Slugs == Organizers \cup {Nobody}

\* tenantSlug: the storage of this address is read when nothing is remembered
tenantSlug(v) == IF v.cached = Nobody /\ v.storage THEN v.stored[v.host] ELSE v.cached

\* rememberTenantSlug: nothing for what is not a slug, memory only where storage is refused
Remember(v, slug) ==
    IF slug = Nobody THEN v
    ELSE [v EXCEPT !.cached = slug, !.asked[v.host] = slug,
                   !.stored[v.host] = IF v.storage THEN slug ELSE @]

\* Mutant: an address without an organizer is left as it is
NavigatedBare(v, slug) == [Remember(v, slug) EXCEPT !.param = slug]

\* router.beforeEach on a public route: an organizer in the address is remembered,
\* and one that is remembered is put into an address that has none
Navigated(v, slug) ==
    [Remember(v, slug) EXCEPT !.param = IF slug = Nobody THEN tenantSlug(v) ELSE slug]

\* main.ts: a page that is loaded forgets what it held in memory, and captures
\* the organizer of its address, an office address included
Loaded(v, h, slug) ==
    Remember([v EXCEPT !.host = h, !.cached = Nobody, !.param = Nobody], slug)

Visit(v) ==
    /\ matter = "visits"
    /\ visit' = v
    /\ UNCHANGED <<money, domain, served, settings, boot, overtaken, flow, matter, flows>>

\* Where storage is refused, only the address keeps the organizer, and an office
\* address does not name one
Forgotten(v, h) == [v EXCEPT !.asked[h] = IF v.storage THEN @ ELSE Nobody]

Open(h, slug) ==
    Visit([Navigated(Loaded(Forgotten(visit, h), h, slug), slug) EXCEPT !.office = FALSE])

OpenOffice(h, slug) == Visit([Loaded(Forgotten(visit, h), h, slug) EXCEPT !.office = TRUE])

Reload ==
    /\ visit.host # Nobody
    /\ \/ visit.office /\ OpenOffice(visit.host, Nobody)
       \/ ~visit.office /\ Visit(Navigated(Loaded(visit, visit.host, visit.param), visit.param))

Navigate(slug) == visit.host # Nobody /\ Visit([Navigated(visit, slug) EXCEPT !.office = FALSE])

\* On an office route a slug names nothing
NavigateOffice == visit.host # Nobody /\ Visit([visit EXCEPT !.param = Nobody, !.office = TRUE])

\* request(): organizerFor(path), then the middleware
PublicRequest ==
    LET h == visit.host IN
    /\ h # Nobody
    /\ served' = [by |-> Resolve(h, tenantSlug(visit)), central |-> h = Central, asked |-> visit.asked[h],
                  owner |-> IF h = Central \/ domain[h] = Nobody THEN Nobody ELSE domain[h].owner]
    /\ UNCHANGED <<money, domain, visit, settings, boot, overtaken, flow, matter, flows>>

-----------------------------------------------------------------------------
OrganizationsNext ==
    \/ \E f \in Flows :
          \/ \E o \in Onboarding : register(f, o) \/ requestOnboardingLink(f, o)
          \/ \E o \in Organizers : \/ updateSettings(f, o)
                                   \/ \E h \in Domains, p \in BOOLEAN : add(f, o, h, p)
          \/ createOrganizationAndOwner(f) \/ createExpressAccount(f) \/ StoreAccount(f) \/ createAccountLink(f)
          \/ SettingsWrite(f) \/ SettingsReload(f) \/ refreshCurrent(f)
          \/ StepDown(f) \/ AddCommit(f)
    \/ \E o \in Organizers : StripeDecides(o) \/ \E h \in Domains : remove(o, h)
    \/ \E e \in events : handle(e)
    \/ SecondPasses \/ NavigateOffice \/ Reload \/ PublicRequest
    \/ \E slug \in Slugs : \/ Navigate(slug)
                            \/ \E h \in Visited : Open(h, slug) \/ OpenOffice(h, slug)

OrganizationsSpec == OrganizationsInit /\ [][OrganizationsNext]_organizations

-----------------------------------------------------------------------------
(* When every event about an account has been handled, the organization's row
   says what Stripe says, whatever order they came in and however often
   (organization-webhook.handler.ts, handle); it rests on the row naming the
   account before anybody is sent to its onboarding, for an event about an
   unknown account is dropped.  An account Stripe changed twice within one
   second may have been left at the first change. *)
ChargesFollowStripe ==
    \A o \in Organizers :
        (\A e \in events : e.org # o) /\ ~stripe[o].twice => org[o].charges = stripe[o].charges

(* Once nobody is saving settings, the snapshot that serves requests outside
   any scope is the default organization's row (organization-context.service.ts,
   refreshCurrent), unless the last copy was read before another save. *)
SettingsAreSeen ==
    (\A f \in Flows : flow[f] = Quiet) => boot = settings[Default] \/ overtaken

(* A customer is served as the organizer whose link they opened last, or whose
   domain they are on, through navigation, the office area and reloads, and as
   nobody else (api/tenant.ts, router/index.ts, tenant-resolution.middleware.ts). *)
VisitKeepsOrganizer ==
    served # Nobody => served.by =
        IF served.owner # Nobody THEN served.owner
        ELSE IF served.asked = Nobody THEN Default
        ELSE IF served.central /\ org[served.asked].there THEN served.asked ELSE Nobody
=============================================================================
