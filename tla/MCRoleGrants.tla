---------------------------- MODULE MCRoleGrants ----------------------------
EXTENDS RoleGrants
CONSTANTS a, b, clerk
Copies == [r \in {Admin, clerk} |-> clerk]
=============================================================================
