------------------------------ MODULE MCCompany ------------------------------
(***************************************************************************)
(* What a company keeps besides stock, as one instance for TLC: isolation  *)
(* of tenants, sessions, users, seats, roles, settings, references,        *)
(* products and barcodes, generated locations, custom fields, photos,      *)
(* partners and access to warehouses.                                      *)
(*                                                                         *)
(* As in MCWarehouse, these parts share no state in the model; a behaviour *)
(* is one of the part that `part` names, and the others stay where they    *)
(* start.                                                                  *)
(***************************************************************************)
EXTENDS TenantIsolation, Integers, Sequences, FiniteSets, TLC

CONSTANTS None,        \* null, in every part
          People,
          Requests,    \* that run at the same time
          Solo         \* the same, in parts that need fewer

VARIABLE part

-----------------------------------------------------------------------------
(* TenantIsolation itself: two companies, two rows and a query.            *)

TenantsInit ==
  /\ Init
  /\ part # "tenants" => rows = [i \in Id |-> NoRow]

TenantsNext == IF part = "tenants" THEN Next ELSE UNCHANGED vars

-----------------------------------------------------------------------------
(* Logins of a user.                                                       *)

CONSTANT Logins

VARIABLES issued, live, signedIn, refreshing

S == INSTANCE Sessions WITH
       Login <- Logins, Process <- Requests, MaxTokens <- 3,
       active <- signedIn, doing <- refreshing

sessionVars == <<issued, live, signedIn, refreshing>>

SessionsNext == IF part = "sessions" THEN S!Next ELSE UNCHANGED sessionVars

-----------------------------------------------------------------------------
(* Users and updates of them.                                              *)

VARIABLES role, enabled, updating

U == INSTANCE Users WITH
       User <- People, Request <- Requests, active <- enabled, doing <- updating

userVars == <<role, enabled, updating>>

UsersInit ==
  /\ U!Init
  /\ part # "users" => \A u \in People : role[u] = "admin" /\ enabled[u]

UsersNext == IF part = "users" THEN U!AloneNext ELSE UNCHANGED userVars

-----------------------------------------------------------------------------
(* Seats for people; the same, if nobody is reactivated.                   *)

CONSTANTS SeatLimit, Invited

VARIABLES members, cameBy, invitations, made, inviting

I == INSTANCE Seats WITH
       Email <- People, Request <- Requests, Limit <- SeatLimit, MaxInvitations <- Invited,
       users <- members, doing <- inviting

seatVars == <<members, cameBy, invitations, made, inviting>>

SeatsInit ==
  IF part \in {"invitations", "seats"} THEN I!Init
  ELSE /\ members = [e \in People |-> "none"] /\ cameBy = [e \in People |-> 0]
       /\ invitations = <<>> /\ made = 0 /\ inviting = [q \in Requests |-> I!Idle]

SeatsNext ==
  CASE part = "invitations" -> I!Next
    [] part = "seats" -> I!NoReactivationNext
    [] OTHER -> UNCHANGED seatVars

-----------------------------------------------------------------------------
(* Roles for people; the same, one request at a time.                      *)

CONSTANTS CustomRoles, Staff

VARIABLES roles, users, invited, roleOf, offered, assigning

Ro == INSTANCE Roles WITH
        Role <- CustomRoles, Person <- Staff, NoRole <- None, Request <- Requests,
        doing <- assigning

roleVars == <<roles, users, invited, roleOf, offered, assigning>>

RolesNext ==
  CASE part = "roles" -> Ro!Next
    [] part = "roles alone" -> Ro!AloneNext
    [] OTHER -> UNCHANGED roleVars

-----------------------------------------------------------------------------
(* Limits of two resources, one request at a time; plan and status, more.  *)

VARIABLES tenant, setting, asked

PlanLimitsOf(resources) ==
  [p \in {"trial", "enterprise"} |-> [r \in resources |-> IF p = "trial" THEN 5 ELSE 0 - 1]]

Li == INSTANCE TenantSettings WITH
        Request <- Solo, Resource <- {"users", "warehouses"},
        Plan <- {"trial", "enterprise"},
        PlanLimits <- PlanLimitsOf({"users", "warehouses"}), Limits <- {7, 0 - 1},
        doing <- setting

Pl == INSTANCE TenantSettings WITH
        Request <- Requests, Resource <- {}, Plan <- {"trial", "enterprise"},
        PlanLimits <- PlanLimitsOf({}), Limits <- {}, doing <- setting

settingVars == <<tenant, setting, asked>>

SettingsInit ==
  /\ IF part = "limits" THEN Li!Init ELSE Pl!Init
  /\ part \notin {"limits", "plan"} => tenant.plan = "trial"

SettingsNext ==
  CASE part = "limits" -> Li!AloneNext
    [] part = "plan" -> Pl!Next
    [] OTHER -> UNCHANGED settingVars

-----------------------------------------------------------------------------
(* References of documents, some of them typed; those of fewer documents    *)
(* while the prefix and the next number are set.                           *)

CONSTANTS Documents, FewDocuments, Prefixes, DefaultPrefix, TypedNumbers, SetNumbers,
          Attempts, MaxNumber

VARIABLES sequence, documents, gaveUp

N == INSTANCE Numbering WITH
       Document <- Documents, Prefix <- {DefaultPrefix}, FirstPrefix <- DefaultPrefix,
       Typed <- {DefaultPrefix} \X TypedNumbers, NextValues <- {},
       MaxAttempts <- Attempts, MaxValue <- MaxNumber

Set == INSTANCE Numbering WITH
         Document <- FewDocuments, Prefix <- Prefixes, FirstPrefix <- DefaultPrefix,
         Typed <- {DefaultPrefix} \X TypedNumbers, NextValues <- SetNumbers,
         MaxAttempts <- Attempts, MaxValue <- MaxNumber

numberVars == <<sequence, documents, gaveUp>>

NumbersInit == IF part = "set sequence" THEN Set!Init ELSE N!Init

NumbersNext ==
  CASE part = "sequence" -> N!Next
    [] part = "set sequence" -> Set!Next
    [] OTHER -> UNCHANGED numberVars

-----------------------------------------------------------------------------
(* Products and barcodes, created, changed and imported in files; the same *)
(* with nothing between check and write.                                   *)

CONSTANTS Products, Barcodes, FileRows, OpenRequests

VARIABLES main, sold, extra, requests

P == INSTANCE Catalogue WITH
       Product <- Products, Barcode <- Barcodes, NoBarcode <- None,
       MaxRows <- FileRows, MaxRequests <- OpenRequests, active <- sold

productVars == <<main, sold, extra, requests>>

ProductsNext ==
  CASE part = "products" -> P!Next
    [] part = "products alone" -> P!UndisturbedNext
    [] OTHER -> UNCHANGED productVars

-----------------------------------------------------------------------------
(* Levels of two numbers that grow a digit, and of two or three letters    *)
(* before the end of the alphabet; codes that are also made by hand.       *)

CONSTANTS LevelsAsked, CodesByHand, MostGenerated, LettersToZ, MostLocations

VARIABLES tree, generated

G == INSTANCE LocationGenerator WITH
       Request <- LevelsAsked, MaxGenerated <- MostGenerated, LettersLeft <- LettersToZ,
       HandMade <- CodesByHand, MaxLocations <- MostLocations, asked <- generated

\* Their values for TLC.
Nine == [letter |-> FALSE, start |-> 9, width |-> 1, count |-> 2]
Letters(count) == [letter |-> TRUE, start |-> 1, width |-> 1, count |-> count]

SomeLevels == {<<Letters(2)>>, <<Letters(3)>>, <<Nine, Letters(2)>>, <<Letters(2), Nine>>}

A == [letter |-> TRUE, n |-> 1, width |-> 1]

SomeCodes == {<<A>>, <<A, [letter |-> FALSE, n |-> 9, width |-> 1]>>}

GeneratorNext == IF part = "generator" THEN G!Next ELSE UNCHANGED <<tree, generated>>

-----------------------------------------------------------------------------
(* Fields and requests; more fields and a request at a time.               *)

CONSTANTS Keys, MoreKeys, Words, FewWords, Numbers

VARIABLES fields, record, filling

F == INSTANCE CustomFields WITH
       Key <- Keys, Word <- Words, Number <- Numbers, Empty <- None,
       Request <- Requests, doing <- filling

Fs == INSTANCE CustomFields WITH
        Key <- MoreKeys, Word <- FewWords, Number <- Numbers, Empty <- None,
        Request <- Requests, doing <- filling

fieldVars == <<fields, record, filling>>

FieldsNext ==
  CASE part = "fields" -> F!Next
    [] part = "fields alone" -> Fs!AloneNext
    [] OTHER -> UNCHANGED fieldVars

-----------------------------------------------------------------------------
(* Photos of records; the same, one request at a time.                     *)

CONSTANTS Pictures, Records

VARIABLES files, home, listed, wanted, removing

Ph == INSTANCE Photos WITH
        Photo <- Pictures, Record <- Records, NoRecord <- None,
        Request <- Requests, asked <- wanted, doing <- removing

photoVars == <<files, home, listed, wanted, removing>>

PhotosNext ==
  CASE part = "photos" -> Ph!Next
    [] part = "photos alone" -> Ph!AloneNext
    [] OTHER -> UNCHANGED photoVars

-----------------------------------------------------------------------------
(* Partners, one request at a time.                                        *)

CONSTANT Companies

VARIABLES created, kinds, trading, changing

Pa == INSTANCE Partners WITH
        Partner <- Companies, Kind <- {"customer", "supplier"}, Request <- Requests,
        active <- trading, doing <- changing

partnerVars == <<created, kinds, trading, changing>>

PartnersNext == IF part = "partners" THEN Pa!AloneNext ELSE UNCHANGED partnerVars

-----------------------------------------------------------------------------
(* Users and operators of the platform, in warehouses.                     *)

CONSTANTS Workers, Operators, Warehouses, Granted

VARIABLES accounts, permits, open, operators, entering, late

Ac == INSTANCE Access WITH
        User <- Workers, Operator <- Operators, CustomRole <- CustomRoles,
        Warehouse <- Warehouses, Request <- Solo, Grants <- Granted,
        users <- accounts, doing <- entering

accessVars == <<accounts, permits, open, operators, entering, late>>

AccessInit ==
  /\ Ac!Init
  /\ part # "access" =>
       /\ \A u \in DOMAIN accounts :
            accounts[u] = [role |-> "admin", custom |-> None, warehouse |-> None, active |-> TRUE]
       /\ \A c \in DOMAIN permits : permits[c] = CHOOSE granted \in Granted : TRUE

AccessNext == IF part = "access" THEN Ac!Next ELSE UNCHANGED accessVars

-----------------------------------------------------------------------------

ASSUME CompanyAssumption ==
  IsFiniteSet(People) /\ IsFiniteSet(Requests) /\ Requests # {} /\ IsFiniteSet(Solo)
ASSUME SeatsAssumption == I!SeatsAssumption
ASSUME RolesAssumption == Ro!RolesAssumption
ASSUME SettingsAssumption == Li!SettingsAssumption /\ Pl!SettingsAssumption
ASSUME NumberingAssumption == N!NumberingAssumption /\ Set!NumberingAssumption
\* MAX_ATTEMPTS is enough: among as many numbers as one call tries, from any
\* on, one was not typed.
ASSUME FewTypedInARow ==
  \A n \in 1..MaxNumber : \E k \in n..(n + Attempts - 1) : k \notin TypedNumbers
ASSUME CatalogueAssumption == P!CatalogueAssumption
ASSUME GeneratorAssumption == G!GeneratorAssumption
ASSUME FieldsAssumption == F!CustomFieldsAssumption /\ Fs!CustomFieldsAssumption
ASSUME PhotosAssumption == Ph!PhotosAssumption
ASSUME AccessAssumption == Ac!AccessAssumption

companyVars ==
  <<part, vars, sessionVars, userVars, seatVars, roleVars, settingVars, numberVars,
    productVars, tree, generated, fieldVars, photoVars, partnerVars, accessVars>>

CompanyInit ==
  /\ part \in {"tenants", "sessions", "users", "invitations", "seats", "roles",
               "roles alone", "limits", "plan", "sequence", "set sequence", "products",
               "products alone", "generator", "fields", "fields alone", "photos",
               "photos alone", "partners", "access"}
  /\ TenantsInit /\ S!Init /\ UsersInit /\ SeatsInit /\ Ro!Init /\ SettingsInit
  /\ NumbersInit /\ P!Init /\ G!Init /\ F!Init /\ Ph!Init /\ Pa!Init
  /\ AccessInit

CompanyNext ==
  /\ UNCHANGED part
  /\ TenantsNext /\ SessionsNext /\ UsersNext /\ SeatsNext /\ RolesNext /\ SettingsNext
  /\ NumbersNext /\ ProductsNext /\ GeneratorNext /\ FieldsNext /\ PhotosNext
  /\ PartnersNext /\ AccessNext

CompanySpec == CompanyInit /\ [][CompanyNext]_companyVars

Symmetry == Permutations(People)

-----------------------------------------------------------------------------
(* What the run checks: the promises of the parts, grouped by what they     *)
(* are about, and FindsOnlyOwn and ChangesOnlyOwn of TenantIsolation.       *)
(* Those that the code keeps only if nothing happens between the check of a *)
(* request and its write are asked of the parts "alone".                    *)

\* The type invariants of the parts, with the foreign keys and the unique
\* indexes of their tables.
CompanyTypeOK ==
  /\ part = "tenants" => TenancyTypeOK
  /\ part = "sessions" => S!SessionsTypeOK
  /\ part = "users" => U!UsersTypeOK
  /\ part \in {"invitations", "seats"} => I!SeatsTypeOK
  /\ part \in {"roles", "roles alone"} => Ro!RolesTypeOK
  /\ part = "limits" => Li!SettingsTypeOK
  /\ part = "plan" => Pl!SettingsTypeOK
  /\ part = "sequence" => N!NumberingTypeOK
  /\ part = "set sequence" => Set!NumberingTypeOK
  /\ part \in {"products", "products alone"} => P!CatalogueTypeOK
  /\ part = "generator" => G!GeneratorTypeOK
  /\ part = "fields" => F!MeaningKept
  /\ part = "fields alone" => Fs!MeaningKept
  /\ part \in {"photos", "photos alone"} => Ph!PhotosTypeOK
  /\ part = "access" => Ac!AccessTypeOK

\* refresh: a login has one token that is live or about to be.
OneTokenPerLogin == part = "sessions" => S!OneTokenPerLogin

\* users.service.ts, invitations.service.ts and plan-limits.service.ts: an
\* administrator is left, if nobody becomes one beside other requests; an
\* invitation makes one user at most, also if users change their addresses; and
\* if nobody is reactivated, the active users exceed the plan by at most one for
\* each other request.  jwt.strategy.ts and warehouse-scope.ts: what a user may
\* do is what it was when the request came, in the warehouse they have, but for
\* the routes that are free and a part of the activity.
MembersWithinRules ==
  /\ part = "users" => U!AdminRemains
  /\ part \in {"invitations", "seats"} => I!OneUserPerInvitation
  /\ part = "seats" => I!SeatsExceededSlightly
  /\ part = "access" => Ac!ChangesObeyed /\ Ac!OwnWarehouseOnly

\* The same, of a step: nothing takes an acceptance back, who joins has an
\* invitation that is not revoked and had not expired when it was found, and a
\* role that a user has is kept.
MembershipKept ==
  [][ /\ part \in {"invitations", "seats"} => I!KeepsAccepted /\ I!JoinsInvited
      /\ part = "roles alone" => Ro!KeepsRoleInUse ]_companyVars

\* References, barcodes and location codes: two documents are never given the
\* same number, and one that needs a number gets one that was not tried before,
\* if few were typed in a row; a scan finds the owner of a barcode; and a
\* generation leaves a location for every path of its levels.
CodesSound ==
  /\ part = "sequence" => N!NeverShared /\ N!NoSecondTry /\ N!AutomaticNeverRefused
  /\ part = "set sequence" => Set!NeverShared
  /\ part = "products alone" => P!ScanFindsOwner
  /\ part = "generator" => G!GeneratesEveryPath

\* Settings, custom fields, photos and partners: the limits in force, the
\* strategy, the plan and the status are what was last asked for; each field of
\* a record can be set on its own; a removal takes that photo off the list and
\* deletes the file of no other; a partner is a customer or a supplier.
RecordsAsAsked ==
  /\ part = "limits" => Li!SettingsAsAsked
  /\ part = "plan" => Pl!PlanAsAsked
  /\ part = "fields alone" => Fs!StaysEditable
  /\ part = "photos" => Ph!OnlyRemovedDeleted
  /\ part = "photos alone" => Ph!OnlyRemovedDeleted /\ Ph!PhotosAsAsked /\ Ph!PhotosHaveFiles
  /\ part = "partners" => Pa!PartnerHasKind

\* A write keeps what it does not name: automatic references pass over none but
\* taken numbers, an import takes no main barcode from other products, generated
\* locations come after all others in the order of picking, and a record does
\* not lose a required field, nor is it made without by a request of its own.
WritesKeepTheRest ==
  [][ /\ part = "sequence" => N!SkipsOnlyTaken
      /\ part = "set sequence" => Set!SkipsOnlyTaken
      /\ part \in {"products", "products alone"} => P!TakesNothing
      /\ part = "generator" => G!PlacesAfter
      /\ part = "fields alone" => Fs!KeepsRequired ]_companyVars

=============================================================================
