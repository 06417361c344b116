------------------------------- MODULE Office -------------------------------
(***************************************************************************)
(* The components of the office, with the billing: those that read and     *)
(* write nothing of one another's.  A behaviour is one scene, that is a    *)
(* behaviour of one of them while the others stay as they were created, so *)
(* that one run explores the sum of their state spaces, and what holds of  *)
(* every scene holds of each component by itself.                          *)
(***************************************************************************)
EXTENDS Billing

CONSTANTS Req, None,
          Lifetime,                               \* AccessToken
          Wechat, Mobile, Authorized, MaxText,    \* Registration
          Admin, Founder, RoleId, RoleName, SuperAdmin,   \* Staff
          ChargeId, RateName, Rate, Device,       \* ChargeMode
          Username, Address, All,                 \* Maintainer
          MaxStart                                \* MaxStart[scene]

VARIABLES scene,
          ttl, pc, waited, bearer, held, tried,
          limit, captcha, texts, account, cookie, token, playing, plays,
          passed, rushed, used, doubled,
          admins, roles, lastRole, signed, ruling, rulings, overtaken, unseated, evaded,
          charges, chargeOf, pricing, pricings,
          maintainers, sites, erased, keeping, keepings

keys == <<ttl, pc, waited, bearer, held, tried>>
players == <<limit, captcha, texts, account, cookie, token, playing, plays,
             passed, rushed, used, doubled>>
staff == <<admins, roles, lastRole, signed, ruling, rulings, overtaken, unseated, evaded>>
rates == <<charges, chargeOf, pricing, pricings>>
keepers == <<maintainers, sites, erased, keeping, keepings>>

T == INSTANCE AccessToken
R == INSTANCE Registration WITH
        req <- playing, started <- plays, MaxStart <- MaxStart.registration
S == INSTANCE Staff WITH
        NoAdmin <- None, NoRole <- None, Name <- RoleName,
        req <- ruling, started <- rulings, MaxStart <- MaxStart.staff
C == INSTANCE ChargeMode WITH
        Name <- RateName, Price <- Rate,
        req <- pricing, started <- pricings, MaxStart <- MaxStart.rates
M == INSTANCE Maintainer WITH
        req <- keeping, started <- keepings, MaxStart <- MaxStart.maintainers

ASSUME OfficeAssumption == T!LifetimeOK /\ S!StaffOK /\ MaxText \in Nat

OfficeInit ==
    /\ scene \in {"billing", "token", "registration", "staff", "rates", "maintainers"}
    /\ Init /\ T!Init /\ R!Init /\ S!Init /\ C!Init /\ M!Init
    /\ scene # "registration" => DOMAIN account = {}
    /\ scene # "maintainers" => sites = {}

(* Only the variables of the scene change *)
Billed == /\ scene = "billing" /\ Next
          /\ UNCHANGED <<scene, keys, players, staff, rates, keepers>>
Renewed == /\ scene = "token" /\ T!Next
           /\ UNCHANGED <<scene, vars, players, staff, rates, keepers>>
Registered == /\ scene = "registration" /\ R!Next
              /\ UNCHANGED <<scene, vars, keys, staff, rates, keepers>>
Ruled == /\ scene = "staff" /\ S!Next
         /\ UNCHANGED <<scene, vars, keys, players, rates, keepers>>
Priced == /\ scene = "rates" /\ C!Next
          /\ UNCHANGED <<scene, vars, keys, players, staff, keepers>>
Kept == /\ scene = "maintainers" /\ M!Next
        /\ UNCHANGED <<scene, vars, keys, players, staff, rates>>

OfficeNext == Billed \/ Renewed \/ Registered \/ Ruled \/ Priced \/ Kept

allVars == <<scene, vars, keys, players, staff, rates, keepers>>

OfficeSpec == OfficeInit /\ [][OfficeNext]_allVars
-----------------------------------------------------------------------------
(* The properties of the scenes, stated and explained in their modules.    *)

(* A key of WeChat lapses only after two rounds met it due.                *)
LapsesAfterTwoTries == T!LapsesAfterTwoTries

(* A code lets one login in, but for two that had it in hand at once.      *)
CodeLetsInOnce == R!CodeLetsInOnce

(* One text a minute, but for two requests that looked at once.            *)
OneTextPerLimit == R!OneTextPerLimit

(* There is always a superadmin in use.                                    *)
SuperRemains == S!SuperRemains

(* A request that is refused never changes what players pay.               *)
RefusedKeepsPrice == C!RefusedKeepsPrice

(* A maintainer in use is let in somewhere.                                *)
LetInSomewhere == M!LetInSomewhere
=============================================================================
