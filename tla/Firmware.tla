------------------------------ MODULE Firmware ------------------------------
(***************************************************************************)
(* The ESP32 sketch src/src/test.cpp: setup() once, then loop() for ever.  *)
(* The operations change only the sketch's own state; module AirDump joins *)
(* them with the Bluetooth stack and the host.                             *)
(***************************************************************************)
EXTENDS Uint8Cast

CONSTANTS Humidities, Temperatures    \* readings of a working sensor, in tenths

ASSUME ReadingAssumption ==
    /\ Humidities \subseteq Int
    /\ Temperatures \subseteq Int

VARIABLES pc,             \* where the sketch stands
          humidade,       \* the two locals of loop()
          temperatura

fwVars == <<pc, humidade, temperatura>>

\* setup() has to run; loop() is about to start; the humidity is read; both
\* are read; delay(5000) runs.
FwPoints == {"setup", "loop", "humidity", "read", "delay"}

FwTypeOK == /\ pc \in FwPoints
            /\ humidade \in Humidities \cup {NaN}
            /\ temperatura \in Temperatures \cup {NaN}

FwInit == /\ pc = "setup"
          /\ humidade = NaN
          /\ temperatura = NaN

\* setup(): the sensor, the console and the Bluetooth server are started.
Setup == /\ pc = "setup"
         /\ pc' = "loop"
         /\ UNCHANGED <<humidade, temperatura>>

ReadHumidity == /\ pc = "loop"
                /\ pc' = "humidity"
                /\ humidade' \in Humidities \cup {NaN}
                /\ UNCHANGED temperatura

ReadTemperature == /\ pc = "humidity"
                   /\ pc' = "read"
                   /\ temperatura' \in Temperatures \cup {NaN}
                   /\ UNCHANGED humidade

\* Mutant: && instead of || between the two isnan tests.
BothFailed == humidade = NaN /\ temperatura = NaN

\* isnan(humidade) || isnan(temperatura)
ReadFailed == humidade = NaN \/ temperatura = NaN

\* Mutant: wait for the values to become good without reading again.
FalhaWaits == /\ pc = "read"
              /\ ReadFailed
              /\ UNCHANGED fwVars

\* One of the readings failed: loop() returns at once, without the delay.
FalhaNaLeitura == /\ pc = "read"
                  /\ ReadFailed
                  /\ pc' = "loop"
                  /\ UNCHANGED <<humidade, temperatura>>

\* The two bytes handed to SerialBT.write: humidity first.
Dados == Uint8Outcomes(humidade) \X Uint8Outcomes(temperatura)

\* Both readings are good: they are converted and sent.
EnviarDadosBluetooth(dados) == /\ pc = "read"
                               /\ ~ReadFailed
                               /\ dados \in Dados
                               /\ pc' = "delay"
                               /\ UNCHANGED <<humidade, temperatura>>

\* delay(5000) ends and with it this call of loop().
DelayEnds == /\ pc = "delay"
             /\ pc' = "loop"
             /\ UNCHANGED <<humidade, temperatura>>

\* The board restarts (power cycle, watchdog): its memory starts afresh.
FwRestart == /\ pc' = "setup"
             /\ humidade' = NaN
             /\ temperatura' = NaN
=============================================================================
