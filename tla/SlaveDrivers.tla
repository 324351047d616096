---------------------------- MODULE SlaveDrivers ----------------------------
(***************************************************************************)
(* The three interrupt handlers that feed the one register file, side by   *)
(* side over the same wire.  A build has one of them: driver never changes *)
(* and the variables of the other two stay as they are.                    *)
(*                                                                         *)
(* What the register file relies on is asked of all three at once.  The    *)
(* EFM32G210's handler is asked it under the guide's transfers, in which a *)
(* read follows a pointer byte (BareReads = FALSE); the others under any.  *)
(***************************************************************************)
EXTENDS SlaveBus

VARIABLES
  driver,                              \* the backend of this build
  slave_on, pc, flags,                 \* of EfmSlave; the first two of LpcSlave,
                                       \* the last of HalSlave, too
  I2C_IF, TXBL, IEN_TXBL,              \* of EfmSlave
  SLVSTATE, SLVDESEL, stat,            \* of LpcSlave
  State, XferCount, s_tx_byte, TXDR,   \* of HalSlave
  shift, fetched, taken, m_last

Efm == INSTANCE EfmSlave
Lpc == INSTANCE LpcSlave WITH BareReads <- TRUE
Hal == INSTANCE HalSlave WITH BareReads <- TRUE

efmOnly == <<I2C_IF, TXBL, IEN_TXBL>>
lpcOnly == <<SLVSTATE, SLVDESEL, stat>>
halOnly == <<State, XferCount, s_tx_byte, TXDR, shift, fetched, taken, m_last>>
driversVars ==
  <<slaveBusVars, driver, slave_on, pc, flags, efmOnly, lpcOnly, halOnly>>

DriversInit ==
  /\ driver \in {"efm32g210", "lpc810", "stm32"}
  /\ Efm!Init /\ Lpc!Init /\ Hal!Init

EfmStep == driver = "efm32g210" /\ Efm!Next /\ UNCHANGED <<driver, lpcOnly, halOnly>>
LpcStep == driver = "lpc810" /\ Lpc!Next /\ UNCHANGED <<driver, flags, efmOnly, halOnly>>
HalStep == driver = "stm32" /\ Hal!Next /\ UNCHANGED <<driver, slave_on, pc, efmOnly, lpcOnly>>

DriversNext == EfmStep \/ LpcStep \/ HalStep

\* A raised interrupt is served; nothing is asked of the master.
Serves ==
  \/ driver = "efm32g210" /\ Efm!I2C0_IRQHandler /\ UNCHANGED <<driver, lpcOnly, halOnly>>
  \/ driver = "lpc810" /\ Lpc!I2C0_IRQHandler /\ UNCHANGED <<driver, flags, efmOnly, halOnly>>
  \/ driver = "stm32" /\ Hal!IRQHandler /\ UNCHANGED <<driver, slave_on, pc, efmOnly, lpcOnly>>

DriversSpec ==
  DriversInit /\ [][DriversNext]_driversVars /\ WF_driversVars(Serves)

-----------------------------------------------------------------------------
\* Between interrupts the EFM32G210's TXBL interrupt is enabled exactly while
\* the slave is an addressed transmitter (platform_efm32g210_i2c.c:132-153):
\* enabled at any other time the handler would be entered over and over,
\* disabled then a read would wait for its byte.
TXBLBracketsTransmitter == driver = "efm32g210" => Efm!TXBLBracketsTransmitter

\* On the STM32s the master receives the bytes of a read in the order the
\* register file gave them, none twice and none left out, however the fetches
\* run ahead of the wire; and they run ahead by two at most, which is what the
\* master of VaultBus allows for.
ReadsInOrder == driver = "stm32" => Hal!ReadsInOrder

\* A byte the master has sent is taken, and a read it goes on with is supplied:
\* no handler leaves a transfer held up.  (The LPC810 holds the clock for both,
\* so that ClockIsReleased says it there.)
MasterGoesOn ==
  LET HeldUp == \/ driver = "efm32g210" /\ Efm!ReadHeldUp
                \/ driver = "stm32" /\ Hal!HeldUp
  IN  HeldUp ~> ~HeldUp
=============================================================================
