-------------------------- MODULE MCReleaseStaging --------------------------
\* Releases and commands for model checking the staging of releases.
EXTENDS ReleaseStaging
=============================================================================
