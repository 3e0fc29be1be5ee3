----------------------------- MODULE MCPlugins ------------------------------
EXTENDS Plugins
CONSTANTS orchestrator, researcher, browser
=============================================================================
