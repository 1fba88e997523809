-------------------------- MODULE MCPolicyRollback --------------------------
\* Model values for TLC; the bounds are in the .cfg files.
EXTENDS PolicyRollback
=============================================================================
