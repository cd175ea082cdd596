---------------------------- MODULE MCWeatherPoll ----------------------------
(* A small instance of WeatherPoll: every provider, three ways to be        *)
(* located, mock mode and the main switch.                                  *)
EXTENDS WeatherPoll

CONSTANTS warm

SomeConfigs ==
  [on : {TRUE}, mock : {FALSE}, provider : {"auto", "nws", "openmeteo"},
   located : {"override", "zip"}]
  \cup [on : {TRUE}, mock : {TRUE}, provider : {"auto"}, located : {"zip"}]
  \cup [on : {FALSE}, mock : {FALSE}, provider : {"auto"}, located : {"nowhere"}]
  \cup [on : {TRUE}, mock : {FALSE}, provider : {"auto"}, located : {"nowhere"}]
=============================================================================
