-------------------------- MODULE MCPermissions --------------------------
EXTENDS Permissions
==========================================================================
