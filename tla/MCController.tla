---------------------------- MODULE MCController ----------------------------
EXTENDS Controller
MCTopics == <<"scada", "emergency">>
=============================================================================
