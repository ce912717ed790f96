------------------------------ MODULE Agencies ------------------------------
(***************************************************************************)
(* Host applications, agencies and their hosts: internal/usecase/agency.go *)
(* and the agency's part of internal/usecase/dashboard.go.                 *)
(***************************************************************************)
EXTENDS Calls

CONSTANTS Applicant, Boss   \* hosts to be, and owners of agencies

VARIABLES applications,  \* the calls that have a row in host_applications
          agencies,      \* the owners that have a row in agencies
          member         \* member[a][u]: the status of the row of u in agency_hosts
agencyVars == <<applications, agencies, member>>

AgencyTypeOK ==
  /\ applications \subseteq Proc
  /\ agencies \subseteq Boss
  /\ member \in [Boss -> [Applicant -> {"none", "invited", "active", "removed"}]]

AgencyInit == /\ applications = {} /\ agencies = {}
              /\ member = [a \in Boss |-> [u \in Applicant |-> "none"]]

ApplyRequest == [kind : {"apply"}, user : Applicant]
DecideRequest == [kind : {"approveHost", "rejectHost"}, of : Proc]
CreateAgencyRequest == [kind : {"createAgency"}, owner : Boss]
RelationRequest == [kind : {"invite", "accept", "removeHost"}, owner : Boss, user : Applicant]
AgencyRequests == ApplyRequest \cup DecideRequest \cup CreateAgencyRequest \cup RelationRequest

(***************************************************************************)
(* Applications.  rejection_reason is NULL until a review writes it, and   *)
(* GetByID and GetByUserID scan it into a string, which NULL does not go   *)
(* into: no row can be read.  ApplyHost takes the error for "none", so     *)
(* that nobody is refused; a review fails, so that every row stays pending *)
(* and no review ever writes one.                                          *)
(***************************************************************************)
ApplyHost(p) == /\ Asked(p, "apply")
                /\ Begin(p, <<"insertApplication">>, Nothing)
                /\ UNCHANGED agencyVars

InsertApplication(p) == /\ At(p, "insertApplication")
                        /\ applications' = applications \cup {p}
                        /\ Continue(p)
                        /\ UNCHANGED <<agencies, member>>

ReviewHost(p) == /\ Asked(p, "approveHost") \/ Asked(p, "rejectHost")
                 /\ Refuse(p)
                 /\ UNCHANGED agencyVars

(***************************************************************************)
(* Agencies                                                                *)
(***************************************************************************)
GetByOwnerID(u) == agencies \cap {u}

CreateAgency(p) ==
  /\ Asked(p, "createAgency")
  /\ IF GetByOwnerID(job[p].owner) # {} THEN Refuse(p) ELSE Begin(p, <<"insertAgency">>, Nothing)
  /\ UNCHANGED agencyVars

\* UNIQUE (owner_id).
InsertAgency(p) ==
  /\ At(p, "insertAgency")
  /\ IF job[p].owner \in agencies THEN Stop(p) /\ UNCHANGED agencies
     ELSE agencies' = agencies \cup {job[p].owner} /\ Continue(p)
  /\ UNCHANGED <<applications, member>>

ActiveSomewhere(u) == \E a \in Boss : member[a][u] = "active"

InviteHost(p) ==
  /\ Asked(p, "invite")
  /\ IF GetByOwnerID(job[p].owner) = {} \/ ActiveSomewhere(job[p].user) THEN Refuse(p)
     ELSE Begin(p, <<"addHost">>, [status |-> "invited"])
  /\ UNCHANGED agencyVars

\* No invitation is asked for, and the row is inserted, not updated.
AcceptInvitation(p) ==
  /\ Asked(p, "accept")
  /\ IF job[p].owner \notin agencies THEN Refuse(p)
     ELSE Begin(p, <<"addHost">>, [status |-> "active"])
  /\ UNCHANGED agencyVars

\* Mutant: who has a row already gets the new status.
UpsertHost(p) ==
  /\ At(p, "addHost")
  /\ IF seen[p].status = "active" /\ ActiveSomewhere(job[p].user) THEN Stop(p) /\ UNCHANGED member
     ELSE /\ member' = [member EXCEPT ![job[p].owner][job[p].user] = seen[p].status]
          /\ Continue(p)
  /\ UNCHANGED <<applications, agencies>>

\* PRIMARY KEY (agency_id, host_id); UNIQUE (host_id) of the active ones.
AddHost(p) ==
  /\ At(p, "addHost")
  /\ IF \/ member[job[p].owner][job[p].user] # "none"
        \/ seen[p].status = "active" /\ ActiveSomewhere(job[p].user)
     THEN Stop(p) /\ UNCHANGED member
     ELSE /\ member' = [member EXCEPT ![job[p].owner][job[p].user] = seen[p].status]
          /\ Continue(p)
  /\ UNCHANGED <<applications, agencies>>

RemoveHost(p) ==
  /\ Asked(p, "removeHost")
  /\ IF GetByOwnerID(job[p].owner) = {} THEN Refuse(p) /\ UNCHANGED member
     ELSE /\ member' = [member EXCEPT ![job[p].owner][job[p].user] =
                          IF @ = "none" THEN @ ELSE "removed"]
          /\ Return(p)
  /\ UNCHANGED <<applications, agencies>>

AgencyStep(p) ==
  \/ ApplyHost(p) \/ InsertApplication(p) \/ ReviewHost(p)
  \/ CreateAgency(p) \/ InsertAgency(p) \/ InviteHost(p) \/ AcceptInvitation(p) \/ AddHost(p)
  \/ RemoveHost(p)

-----------------------------------------------------------------------------
Joining(a, u) == {p \in Kinds({"invite", "accept"}) : job[p].owner = a /\ job[p].user = u}

(***************************************************************************)
(* A host works for one agency, although nobody asks before an invitation  *)
(* is accepted; and who has been removed from an agency does not come back *)
(* to it, by an acceptance of before nor by a new invitation.              *)
(***************************************************************************)
HostsBelong ==
  /\ \A u \in Applicant : \A a, b \in Boss :
       (member[a][u] = "active" /\ member[b][u] = "active") => a = b
  /\ \A r \in Kind("removeHost") : \A p \in Joining(job[r].owner, job[r].user) :
       (Done(p) /\ Done(r) /\ Before(p, r)) => member[job[r].owner][job[r].user] = "removed"
=============================================================================
