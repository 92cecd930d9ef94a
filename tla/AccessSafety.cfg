SPECIFICATION Spec
CONSTANTS
    owner = owner
    studio = studio
    None = None
    Users = {owner, staff, guest}
    Invited = {guest}
    Orgs = {studio, home}
    OrgOf <- MCOrgOf
    Bootstrap = home
    Sids = {s1, s2, s3}
    Links = {l1, l2}
    Grant <- MCGrant
    Patches <- MCPatches
    Calls = {c1, c2}
    MaxFailed = 2
    Topics = {"tab", "rights", "passwords", "rest"}
    MaxCalls <- MCMaxCalls
    Nobody = Nobody
    Organizers = {home, acme}
    Default = home
    Central = central
    Domains = {d1, d2}
    Visited = {central, d1}
    Flows = {f1, f2}
    Onboarding = {acme}
    MaxSecond = 3
    Matters = {"onboarding", "settings", "hosts", "visits", "rest"}
    MaxFlows <- MCMaxFlows
SYMMETRY MCSymmetry
INVARIANT SessionIsCurrent
INVARIANT ServedAsNamed
INVARIANT LinkSetsOnePassword
 
INVARIANT ChargesFollowStripe
INVARIANT SettingsAreSeen
 
CHECK_DEADLOCK FALSE
