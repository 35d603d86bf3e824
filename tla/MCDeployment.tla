---------------------------- MODULE MCDeployment -----------------------------
EXTENDS Deployment
CONSTANTS api, scheduler

MCReleased == {"aggregate", "score", "depbump"}
=============================================================================
