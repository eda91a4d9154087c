---------------------------- MODULE FlashLayout ----------------------------
(***************************************************************************)
(* The W25Qxx flash of an MM module as mm-tools/mboot_api.c lays it out.    *)
(* The unit of every address and length is one program page                 *)
(* (SPI_FLASH_PAGE, 256 bytes), so the three erase sizes of the chip are    *)
(* 256, 128 and 16 pages and the layout of a 1M part is 2048, 4032, 4095,   *)
(* 4096.  The 16 byte info record sits at offset 0x80 of the last page: it  *)
(* is that page here.                                                       *)
(***************************************************************************)
EXTENDS Integers

CONSTANTS
  mcs1_offset,       \* first page of the firmware; below it is mcs0, the boot loader
  mcs1_cfg_offset,   \* first page of the configuration, and end of the firmware
  mcs1_info_offset,  \* the page of the info record
  flash_size,        \* number of pages
  SPI_FLASH_BLOCK,   \* the three erase sizes
  SPI_FLASH_32K,
  SPI_FLASH_SEC

\* What the #defines and w25qxx_layout give for both parts (1M and 2M).
ASSUME LayoutAssumption ==
  /\ mcs1_offset \in Nat
  /\ mcs1_cfg_offset \in Nat
  /\ mcs1_info_offset \in Nat
  /\ flash_size \in Nat
  /\ SPI_FLASH_BLOCK \in Nat \ {0}
  /\ SPI_FLASH_32K \in Nat \ {0}
  /\ SPI_FLASH_SEC \in Nat \ {0}
  /\ SPI_FLASH_BLOCK % SPI_FLASH_32K = 0
  /\ SPI_FLASH_32K % SPI_FLASH_SEC = 0
  /\ SPI_FLASH_SEC <= SPI_FLASH_32K
  /\ SPI_FLASH_32K <= SPI_FLASH_BLOCK
  /\ mcs1_offset % SPI_FLASH_BLOCK = 0
  /\ mcs1_cfg_offset % SPI_FLASH_SEC = 0
  /\ mcs1_offset + SPI_FLASH_SEC <= mcs1_cfg_offset
  /\ mcs1_cfg_offset < mcs1_info_offset - (mcs1_info_offset % SPI_FLASH_SEC)
  /\ flash_size = mcs1_info_offset - (mcs1_info_offset % SPI_FLASH_SEC) + SPI_FLASH_SEC

Pages == 0 .. flash_size - 1

Firmware == mcs1_offset .. mcs1_cfg_offset - 1

\* The pages one erase command clears: the aligned unit that holds the address.
EraseRange(addr, unit) ==
  (addr - (addr % unit)) .. (addr - (addr % unit) + unit - 1)

InfoSector == EraseRange(mcs1_info_offset, SPI_FLASH_SEC)

\* mcs0 and the configuration: "reserved" in the comments of the layout and
\* of flash_earse.
Reserved == Pages \ (Firmware \cup InfoSector)

\* A loop test that lets the last unit reach past end (see MbootUpgrade on _ names).
EraseUnit_PastEnd(addr, end) ==
  IF addr < end THEN SPI_FLASH_BLOCK ELSE 0

\* flash_fast_erase runs three loops, one per erase size, largest first.  Each
\* loop only moves addr towards end, so a size that no longer fits never fits
\* again: the loop a given addr is in is that of the largest size that fits.
\* 0: no loop runs any more.
EraseUnit(addr, end) ==
  IF addr + SPI_FLASH_BLOCK <= end THEN SPI_FLASH_BLOCK
  ELSE IF addr + SPI_FLASH_32K <= end THEN SPI_FLASH_32K
  ELSE IF addr + SPI_FLASH_SEC <= end THEN SPI_FLASH_SEC
  ELSE 0
=============================================================================
